------------------------------- MODULE Pricing -------------------------------
(***************************************************************************)
(* price_listing: from the marketplace offers comparable with a listing to *)
(* its plan row; and the verdict safety_check_plan reaches on such a row.  *)
(* Percentages are in tenths of a percent, amounts in cents.               *)
(***************************************************************************)
EXTENDS BuyerFees, FiniteSets

CONSTANTS
    Policy,      \* the PricingPolicy
    FloatShort   \* <<market, discount>> where int(...) truncates a cent too much

ASSUME PolicyAssumption ==
    Policy \in [min_comparable_offers       : Nat \ {0},
                market_median_window        : Nat \ {0},
                insufficient_comps_fallback : {"use_lowest", "keep_current", "skip"},
                max_comp_spread             : Nat,
                comp_spread_min_price_cents : Nat,
                ct_zero_only                : BOOLEAN,
                buyer_total_undercut_cents  : Nat,
                sentinel_price_cents        : Nat \ {0},
                max_decrease                : 0 .. 1000,
                min_change_cents            : Nat,
                min_change                  : 0 .. 1000,
                max_allowed_decrease        : Nat]

\* The defaults, which template.yaml deploys.
DefaultPolicy ==
    [min_comparable_offers       |-> 3,
     market_median_window        |-> 5,
     insufficient_comps_fallback |-> "skip",
     max_comp_spread             |-> 1000,
     comp_spread_min_price_cents |-> 500,
     ct_zero_only                |-> TRUE,
     buyer_total_undercut_cents  |-> 1,
     sentinel_price_cents        |-> 999999,
     max_decrease                |-> 15,
     min_change_cents            |-> 0,
     min_change                  |-> 0,
     max_allowed_decrease        |-> 50]

\* a / 1000, rounded up.
CeilThousandths(a) == (a + 999) \div 1000

-------------------------------------------------------------------------------
\* Same language, condition bucket and foil (one group), CT Zero only, and not
\* the seller's own.
IsComparable(o, listing, exclude_user_id) ==
    /\ o.seller # exclude_user_id
    /\ o.product # listing.id
    /\ Policy.ct_zero_only => o.ct_zero
    /\ o.group = listing.group

\* The prices of filter_comparable_offers, cheapest first: the k-th is the
\* lowest price that k offers do not exceed.
comparable_prices(offers, listing, exclude_user_id) ==
    LET comps == {o \in offers : IsComparable(o, listing, exclude_user_id)}
        rank(p) == Cardinality({o \in comps : o.price <= p})
    IN  [k \in 1 .. Cardinality(comps) |->
            Min({o.price : o \in {o \in comps : rank(o.price) >= k}})]

\* The middle price; between two of them, their mean with ties to even.
median_cents(s) ==
    LET n == Len(s)
        sum == s[n \div 2] + s[n \div 2 + 1]
        half == sum \div 2
    IN  IF n % 2 = 1 THEN s[n \div 2 + 1]
        ELSE IF sum % 2 = 1 /\ half % 2 = 1 THEN half + 1 ELSE half

compute_market_price(prices) ==
    LET window_n == AtLeast(Policy.market_median_window, Policy.min_comparable_offers)
        size == IF Len(prices) < window_n THEN Len(prices) ELSE window_n
        window == SubSeq(prices, 1, size)
        too_wide == /\ window[1] > Policy.comp_spread_min_price_cents
                    /\ 1000 * (window[size] - window[1]) > Policy.max_comp_spread * window[1]
    IN  CASE size < Policy.min_comparable_offers ->
                [method |-> "insufficient", market |-> None]
          [] size >= Policy.min_comparable_offers /\ too_wide ->
                [method |-> "wide_spread", market |-> None]
          [] size >= Policy.min_comparable_offers /\ ~too_wide ->
                IF size >= Policy.market_median_window
                THEN [method |-> "median", market |-> median_cents(window)]
                ELSE [method |-> "third",
                      market |-> IF size < 3 THEN None ELSE window[3]]

\* int(market * (1 - discount / 100)), a float product truncated.
discounted(market, discount) ==
    (market * (100 - discount)) \div 100 - (IF <<market, discount>> \in FloatShort THEN 1 ELSE 0)

-------------------------------------------------------------------------------
dead_band_threshold_cents(previous) ==
    AtLeast(CeilThousandths(previous * Policy.min_change), Policy.min_change_cents)

\* Mutants: a fraction taken for a percentage; one cent too strict.
min_allowed_scaled(previous) == CeilThousandths(previous * (1000 - 10 * Policy.max_decrease))
min_allowed_strict(previous) == CeilThousandths(previous * (1000 - Policy.max_decrease)) + 1

min_allowed(previous) == CeilThousandths(previous * (1000 - Policy.max_decrease))

\* Mutant: the comparison is reversed.
IsSentinelBelow(previous) == previous <= Policy.sentinel_price_cents

\* A price set by hand to keep a listing unsold: exempt from clamp, dead band
\* and safety check.
IsSentinel(previous) == previous >= Policy.sentinel_price_cents

\* Mutant: a decrease always goes as far as the clamp lets it.
apply_clamps_fully(previous, target, is_sentinel, floor) ==
    AtLeast(IF ~is_sentinel /\ target < previous THEN min_allowed(previous) ELSE target,
            floor)

\* Only decreases are clamped, and the floor wins over the clamp.
apply_clamps(previous, target, is_sentinel, floor) ==
    AtLeast(IF ~is_sentinel /\ target < previous
            THEN AtLeast(target, min_allowed(previous))
            ELSE target,
            floor)

\* A row that leaves the listing alone.
NoUpdate(listing, action, why) ==
    [action |-> action, why |-> why, previous |-> listing.price,
     proposed |-> None, market |-> None, target |-> None, sentinel_clear |-> FALSE]

\* The row of a listing with a market price.
PricedRow(listing, market) ==
    LET previous == listing.price
        is_sentinel == IsSentinel(previous)
        priced == list_from_market_buyer_total(market, Policy.buyer_total_undercut_cents)
        target == AtLeast(priced, listing.floor)
        proposed == apply_clamps(previous, target, is_sentinel, listing.floor)
        delta == IF proposed < previous THEN previous - proposed ELSE proposed - previous
        Row(action, why, price) ==
            [action |-> action, why |-> why, previous |-> previous, proposed |-> price,
             market |-> market, target |-> target, sentinel_clear |-> is_sentinel]
    IN  CASE ~is_sentinel /\ proposed = previous -> Row("KEEP", "no_change", None)
          [] ~is_sentinel /\ proposed # previous
                /\ delta < dead_band_threshold_cents(previous) -> Row("KEEP", "dead_band", None)
          [] OTHER -> Row("UPDATE", "update", proposed)

price_listing(listing, offers, discount, exclude_user_id) ==
    LET prices == comparable_prices(offers, listing, exclude_user_id)
        selection == compute_market_price(prices)
        market == IF selection.method = "insufficient" THEN prices[1] ELSE selection.market
    IN  CASE selection.method = "insufficient"
                /\ (Policy.insufficient_comps_fallback = "skip" \/
                    (Policy.insufficient_comps_fallback = "use_lowest" /\ prices = <<>>)) ->
                 NoUpdate(listing, "SKIP", "insufficient_comps")
          [] selection.method = "insufficient"
                /\ Policy.insufficient_comps_fallback = "keep_current" ->
                 NoUpdate(listing, "KEEP", "insufficient_comps")
          [] selection.method = "wide_spread" ->
                 NoUpdate(listing, "SKIP", "wide_spread")
          [] selection.method = "third" /\ selection.market = None ->
                 NoUpdate(listing, "SKIP", "missing_market")
          [] OTHER -> PricedRow(listing, discounted(market, discount))

-------------------------------------------------------------------------------
\* safety_check_plan: a row that makes the plan unsafe.
SteepDrop(row) ==
    /\ row.action = "UPDATE" /\ ~row.sentinel_clear /\ row.previous > 0
    /\ 1000 * (row.previous - row.proposed) > Policy.max_allowed_decrease * row.previous
===============================================================================
