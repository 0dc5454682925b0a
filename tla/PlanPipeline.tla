---------------------------- MODULE PlanPipeline ----------------------------
(***************************************************************************)
(* From an export to a judged and reported plan: prepare_run validates the *)
(* export and slices the cards to look up into chunks, run_plan_chunk      *)
(* prices a chunk, and merge_chunk_plans joins the chunk plans, judges the *)
(* whole and sums it up for the reports and the CloudWatch metrics.  A dry *)
(* run does this in one process, the Lambda handlers in several waves with *)
(* S3 in between (see RepriceRun).  The market moves between any two       *)
(* requests.                                                               *)
(*                                                                         *)
(* A listing's variant is its language and foil, its bucket that of its    *)
(* condition; either is None when the export lacks the attribute.          *)
(* Listings are selected by their places in the export; a chunk plan has a *)
(* row at the place of each listing it prices.                             *)
(***************************************************************************)
EXTENDS Pricing, SequencesExt

CONSTANTS
    Exports,            \* what /products/export may answer: sequences of listings
    Offers(_),          \* the sets of offers the market of a fetch key may hold
    Discounts,          \* weekly discounts
    ChunkSizes,         \* values of generate_chunk_size
    GameId,             \* game_id
    MinListings,        \* min_expected_listings
    MaxListings,        \* max_expected_listings
    MaxProposed,        \* max_proposed_absolute
    MaxProposedShare    \* max_proposed_pct, in tenths of a percent

ASSUME PipelineAssumption ==
    /\ ChunkSizes \subseteq Int /\ Discounts \subseteq 0 .. 100
    /\ \A export \in Exports : export \in Seq(ToSet(export))
    /\ \A export \in Exports : \A listing \in ToSet(export) :
          /\ listing.price \in Nat /\ listing.floor \in Nat /\ listing.quantity \in Nat
          /\ \A offers \in Offers(<<listing.blueprint, listing.variant>>) :
                IsFiniteSet(offers) /\ \A o \in offers : o.price \in Nat
    /\ {MinListings, MaxListings, MaxProposed, MaxProposedShare} \subseteq Nat
    /\ \A export \in Exports : \A i, j \in DOMAIN export : export[i].id = export[j].id => i = j

\* An export is of one account's products: it names no second seller.
ASSUME OneSellerAssumption ==
    \A export \in Exports : \A i, j \in DOMAIN export :
        None \in {export[i].user, export[j].user} \/ export[i].user = export[j].user

\* The reports' own, whatever the policy's sentinel_price_cents.
SENTINEL_PRICE_CENTS == 999999

VARIABLES
    export,       \* the listings exported
    chunk_size,   \* the policy's generate_chunk_size
    discount,     \* this week's discount
    stage,        \* prepare, plan, done or failed
    chunks,       \* fetch keys of each chunk
    owner,        \* owner_user_id
    plans,        \* the rows of each chunk planned so far
    result        \* of the merge, None before it

vars == <<export, chunk_size, discount, stage, chunks, owner, plans, result>>

Init ==
    /\ export \in Exports /\ chunk_size \in ChunkSizes /\ discount \in Discounts
    /\ stage = "prepare" /\ chunks = <<>> /\ owner = None
    /\ plans = <<>> /\ result = None

-------------------------------------------------------------------------------
(***************************************************************************)
(* prepare_run                                                             *)
(***************************************************************************)

HardIdentityOk(listing) == listing.id # 0 /\ listing.blueprint # 0
PriceableAttrsOk(listing) == listing.bucket # None /\ listing.variant # None

Priceable == {i \in DOMAIN export : PriceableAttrsOk(export[i])}

\* validate_export: incomplete rows are left out, broken ones fail the run.
ExportOk ==
    /\ Len(export) > 0 /\ Len(export) \in MinListings .. MaxListings
    /\ \A i \in DOMAIN export : HardIdentityOk(export[i])
    /\ Priceable # {}

\* The priceable listings of the game; all of them if none is of the game.
mtg_listings ==
    LET mtg == {i \in Priceable : export[i].game = GameId}
    IN  IF mtg = {} THEN Priceable ELSE mtg

\* Mutant: the seller of the first listing, if the export names one there.
owner_of_first(listings) == export[Min(listings)].user

\* The first seller any of the listings names.
owner_user_id(listings) ==
    LET named == {i \in listings : export[i].user # None}
    IN  IF named = {} THEN None ELSE export[Min(named)].user

\* Mutant: the condition is part of the key.
fetch_key_with_condition(listing) == <<listing.blueprint, listing.variant, listing.bucket>>

\* What CardTrader can be asked for, all conditions at once.
market_fetch_key(listing) == <<listing.blueprint, listing.variant>>

fetch_keys == SetToSeq({market_fetch_key(export[i]) : i \in mtg_listings})

\* Chunk n of the keys.
Slice(keys, size, n) ==
    {keys[k] : k \in {k \in DOMAIN keys : (n - 1) * size < k /\ k <= n * size}}

slice_fetch_key_chunks(keys) ==
    LET size == Max({1, chunk_size})
    IN  IF keys = <<>> THEN <<{}>>
        ELSE [n \in 1 .. (Len(keys) + size - 1) \div size |-> Slice(keys, size, n)]

Prepare ==
    /\ stage = "prepare" /\ ExportOk
    /\ chunks' = slice_fetch_key_chunks(fetch_keys)
    /\ owner' = owner_user_id(mtg_listings)
    /\ stage' = "plan"
    /\ UNCHANGED <<export, chunk_size, discount, plans, result>>

ExportValidationFailed ==
    /\ stage = "prepare" /\ ~ExportOk
    /\ stage' = "failed"
    /\ UNCHANGED <<export, chunk_size, discount, chunks, owner, plans, result>>

-------------------------------------------------------------------------------
(***************************************************************************)
(* run_plan_chunk                                                          *)
(***************************************************************************)

\* A listing whose last copy is sold is planned, and reported, as one copy.
Copies(listing) == Max({1, listing.quantity})

\* The row of a listing: what price_listing makes of it.
Row(listing, offers) ==
    LET row == price_listing([id |-> listing.id, group |-> <<listing.variant, listing.bucket>>,
                              floor |-> listing.floor, price |-> listing.price],
                             offers, discount, owner)
    IN  [id |-> listing.id, copies |-> Copies(listing), previous |-> listing.price,
         action |-> row.action, why |-> row.why, market |-> row.market,
         proposed |-> row.proposed, sentinel_clear |-> row.sentinel_clear]

InChunk(chunk) == {i \in mtg_listings : market_fetch_key(export[i]) \in chunk}

\* Each key is fetched once, at a moment of its own.
PlanChunk ==
    /\ stage = "plan" /\ Len(plans) < Len(chunks)
    /\ LET chunk == chunks[Len(plans) + 1]
       IN  \E market \in [chunk -> UNION {Offers(key) : key \in chunk}] :
              /\ \A key \in chunk : market[key] \in Offers(key)
              /\ plans' = Append(plans, [i \in InChunk(chunk) |->
                                   Row(export[i], market[market_fetch_key(export[i])])])
    /\ UNCHANGED <<export, chunk_size, discount, stage, chunks, owner, result>>

-------------------------------------------------------------------------------
(***************************************************************************)
(* merge_chunk_plans                                                       *)
(***************************************************************************)

Counters == {"cards_processed", "price_updates_proposed", "sentinel_initial_priced",
             "insufficient_comps", "no_change", "wide_spread", "dead_band", "skipped_other"}

\* The counters of PlanSummary that a row adds to, by its reason (kept and
\* skipped for too few offers are one); those for the fallback and the clamps,
\* which only a local run's summary file shows, are left out.
CountedBy(row) ==
    {"cards_processed"} \cup
    IF row.action = "UPDATE"
    THEN {"price_updates_proposed"} \cup (IF row.sentinel_clear THEN {"sentinel_initial_priced"} ELSE {})
    ELSE {IF row.why \in Counters THEN row.why ELSE "skipped_other"}

summarize_plan_rows(rows) ==
    [c \in Counters |-> Cardinality({i \in DOMAIN rows : c \in CountedBy(rows[i])})]

\* Mutant: the last chunk's summary stands for all.
last_plan_summary(parts) == Last(parts)

merge_plan_summaries(parts) ==
    LET merged[n \in 0 .. Len(parts)] ==
            [c \in Counters |-> IF n = 0 THEN 0 ELSE merged[n - 1][c] + parts[n][c]]
    IN  merged[Len(parts)]

\* listing_count is the number of priceable listings, of any game.
safety_check_plan(rows, summary, listing_count) ==
    LET proposed == summary["price_updates_proposed"]
    IN  /\ proposed <= MaxProposed
        /\ listing_count > 0 /\ MaxProposedShare < 1000 =>
              1000 * proposed <= MaxProposedShare * listing_count
        /\ \A i \in DOMAIN rows : ~SteepDrop(rows[i])

IsSentinelPrice(cents) == cents >= SENTINEL_PRICE_CENTS

\* Mutant: a listing that was at the sentinel is left out altogether.
ValueAfterIfBefore(row) ==
    IF IsSentinelPrice(row.previous) THEN 0
    ELSE row.copies * (IF row.action = "UPDATE" THEN row.proposed ELSE row.previous)

\* What a row adds to the catalogue's value before and after, sentinels none.
ValueBefore(row) ==
    IF row.sentinel_clear \/ IsSentinelPrice(row.previous) THEN 0
    ELSE row.copies * row.previous
ValueAfter(row) ==
    LET price == IF row.action = "UPDATE" /\ row.proposed # 0 THEN row.proposed ELSE row.previous
    IN  IF IsSentinelPrice(price) THEN 0 ELSE row.copies * price

Over(rows, Value(_)) == SumFunction([i \in DOMAIN rows |-> Value(rows[i])])
Updates(rows) == Restrict(rows, {i \in DOMAIN rows : rows[i].action = "UPDATE"})

compute_plan_kpis(rows) ==
    [changed_before |-> Over(Updates(rows), ValueBefore),
     changed_after  |-> Over(Updates(rows), ValueAfter),
     catalog_before |-> Over(rows, ValueBefore),
     catalog_after  |-> Over(rows, ValueAfter)]

count_sentinel_remaining(rows) ==
    Cardinality({i \in DOMAIN rows :
        /\ IsSentinelPrice(rows[i].previous)
        /\ ~(rows[i].action = "UPDATE" /\ ~IsSentinelPrice(rows[i].proposed))})

\* The rows of all chunks, each by its chunk and place.
Joined(parts) ==
    [p \in UNION {{n} \X DOMAIN parts[n] : n \in DOMAIN parts} |-> parts[p[1]][p[2]]]

\* CardsInInventory counts the copies of every row.
Merge ==
    /\ stage = "plan" /\ Len(plans) = Len(chunks)
    /\ LET rows == Joined(plans)
           summary == merge_plan_summaries([n \in DOMAIN plans |-> summarize_plan_rows(plans[n])])
       IN  result' = [rows |-> rows, summary |-> summary,
                      safety_ok |-> safety_check_plan(rows, summary, Cardinality(Priceable)),
                      kpis |-> compute_plan_kpis(rows),
                      sentinel_remaining |-> count_sentinel_remaining(rows),
                      cards |-> SumFunction([p \in DOMAIN rows |-> rows[p].copies])]
    /\ stage' = "done"
    /\ UNCHANGED <<export, chunk_size, discount, chunks, owner, plans>>

Ended == stage \in {"done", "failed"} /\ UNCHANGED vars

Next == Prepare \/ ExportValidationFailed \/ PlanChunk \/ Merge \/ Ended

Spec == Init /\ [][Next]_vars

-------------------------------------------------------------------------------
(***************************************************************************)
(* Properties                                                              *)
(***************************************************************************)

\* The listings a plan is due for.
IsDue(listing) ==
    /\ PriceableAttrsOk(listing)
    /\ \/ listing.game = GameId
       \/ \A other \in ToSet(export) : PriceableAttrsOk(other) => other.game # GameId

Due == {listing \in ToSet(export) : IsDue(listing)}

\* However the keys are sliced, the merged plan holds one row for each listing
\* due and no other, and all listings of one card, foil and language, in
\* whatever condition, are priced against one and the same market.
PlanIsThePricedCatalogue ==
    stage = "done" =>
        /\ Cardinality(DOMAIN result.rows) = Cardinality(Due)
        /\ \A card \in {<<l.blueprint, l.variant>> : l \in Due} :
              \E offers \in Offers(card) : \A l \in Due :
                 <<l.blueprint, l.variant>> = card => Row(l, offers) \in Range(result.rows)

\* When the export names the seller anywhere among the listings due, no row is
\* any different for the seller's other listings of the card: they never count
\* as competitors, also in a chunk whose listings do not name the seller.
OwnListingsNeverCompete ==
    stage = "done" =>
        \A seller \in {l.user : l \in Due} \ {None} : \A l \in Due :
           \E offers \in Offers(market_fetch_key(l)) :
              Row(l, {o \in offers : o.seller # seller}) \in Range(result.rows)

\* The merged summary counts every row of the plan once as an update or under
\* one reason, and it is on the whole plan that the limits are checked: a plan
\* cannot slip through the gate because each of its chunks would.
GateSeesWholePlan ==
    stage = "done" =>
        LET size == Cardinality(DOMAIN result.rows)
            updates == Cardinality({i \in DOMAIN result.rows : result.rows[i].action = "UPDATE"})
            counted == result.summary
        IN  /\ counted["cards_processed"] = size
            /\ counted["price_updates_proposed"] + counted["no_change"] + counted["dead_band"]
                + counted["insufficient_comps"] + counted["wide_spread"] + counted["skipped_other"]
                = size
            /\ result.safety_ok =>
                  /\ updates <= MaxProposed
                  /\ 1000 * updates <= MaxProposedShare * Cardinality(Priceable)

\* The price apply leaves a listing with: what its row proposes, if it does.
AppliedPrice(listing) ==
    LET row == CHOOSE r \in Range(result.rows) : r.id = listing.id
    IN  IF row.action = "UPDATE" THEN row.proposed ELSE listing.price

\* What the stock on sale is worth at the prices given: unit price times
\* quantity, listings priced by hand excluded (format_kpi_table).
UnitValue(price) == IF price >= Policy.sentinel_price_cents THEN 0 ELSE price
StockAt(prices) == SumFunction([l \in Due |-> l.quantity * UnitValue(prices[l])])

\* The copy that the reports count of each listing that has none left.
SoldOut == {l \in Due : l.quantity = 0}
NotThereAt(prices) == SumFunction([l \in SoldOut |-> UnitValue(prices[l])])

\* The policy's sentinel is the reports', and nobody asks that much in earnest.
\* The code has it so by its defaults only: a card whose market is dearer gets a
\* proposal that the next reports take for a price set by hand, and
\* count_sentinel_remaining does not count.
SentinelIsNoPrice ==
    /\ Policy.sentinel_price_cents = SENTINEL_PRICE_CENTS
    /\ \A listings \in Exports : \A l \in ToSet(listings) :
          /\ l.floor < SENTINEL_PRICE_CENTS
          /\ \A offers \in Offers(market_fetch_key(l)) : \A o \in offers :
                o.price < SENTINEL_PRICE_CENTS

\* What the reports and the InventoryValue and SentinelRemaining metrics say is
\* true of the inventory once the plan is applied: its value, hand-priced
\* listings excluded, how many of those are left, and the change by the plan;
\* too high by one copy of each sold-out listing, and by no more than that.
ReportsDescribeWhatApplyLeaves ==
    stage = "done" =>
        LET asked == [l \in Due |-> l.price]
            left == [l \in Due |-> AppliedPrice(l)]
            before == StockAt(asked) + NotThereAt(asked)
            after == StockAt(left) + NotThereAt(left)
        IN  /\ result.kpis.catalog_before = before
            /\ result.kpis.catalog_after = after
            /\ result.kpis.changed_after - result.kpis.changed_before = after - before
            /\ result.sentinel_remaining =
                  Cardinality({l \in Due : AppliedPrice(l) >= Policy.sentinel_price_cents})
            /\ result.cards = SumFunction([l \in Due |-> l.quantity]) + Cardinality(SoldOut)
===============================================================================
