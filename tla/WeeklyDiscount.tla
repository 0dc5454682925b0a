--------------------------- MODULE WeeklyDiscount ---------------------------
(***************************************************************************)
(* fetch_weekly_sales: each Prepare reads the pending CT Zero orders and   *)
(* derives the discount from their sum and the day of the week, while      *)
(* cards sell and orders are shipped.                                      *)
(***************************************************************************)
EXTENDS Naturals, Sequences, FiniteSets, FiniteSetsExt, SequencesExt

CONSTANTS
    Amounts,     \* seller_subtotal of an order, in cents
    PageSize,    \* list_orders' limit
    MaxOrders    \* bound on the orders pending

ASSUME WeeklyAssumption ==
    Amounts \subseteq Nat /\ PageSize \in Nat \ {0} /\ MaxOrders \in Nat

VARIABLES
    orders,     \* the amounts of the orders in state hub_pending
    day,        \* isoweekday(): Monday is 1
    discount,   \* of the last Prepare
    seen,       \* what that Prepare saw: day, all orders, whether it failed
    steady      \* nothing but sales happened since it, and it read all orders

vars == <<orders, day, discount, seen, steady>>

TARGET_CENTS == 30000

\* Mutants: the tier of Wednesday comes first; what is left of the price is
\* taken for the discount.
TiersByDay == <<[min_dow |-> 3, below |-> 10000, pct |-> 3],
                [min_dow |-> 5, below |-> 10000, pct |-> 7],
                [min_dow |-> 5, below |-> 18000, pct |-> 5]>>
TiersAsFactors == <<[min_dow |-> 5, below |-> 10000, pct |-> 93],
                    [min_dow |-> 5, below |-> 18000, pct |-> 95],
                    [min_dow |-> 3, below |-> 10000, pct |-> 97]>>

Tiers == <<[min_dow |-> 5, below |-> 10000, pct |-> 7],
           [min_dow |-> 5, below |-> 18000, pct |-> 5],
           [min_dow |-> 3, below |-> 10000, pct |-> 3]>>

Applies(tier, sales, dow) == dow >= tier.min_dow /\ sales < tier.below

\* Mutant: the discount grows with the sales.
evaluate_discount_above(sales, dow) ==
    IF sales < 10000 THEN 0 ELSE IF dow >= 5 THEN 7 ELSE 3

\* The first tier that applies, below the target.
evaluate_discount(sales, dow) ==
    LET hits == {k \in DOMAIN Tiers : Applies(Tiers[k], sales, dow)}
    IN  IF sales >= TARGET_CENTS \/ hits = {} THEN 0 ELSE Tiers[Min(hits)].pct

\* sum_pending_sales_cents of the orders that are on the page; total[n] is that
\* of the first n.
Total(amounts, page) ==
    LET total[n \in 0 .. Len(amounts)] ==
            IF n = 0 THEN 0
            ELSE IF n \in page THEN total[n - 1] + amounts[n] ELSE total[n - 1]
    IN  total[Len(amounts)]

-------------------------------------------------------------------------------
Init ==
    /\ orders = <<>> /\ day = 1 /\ discount = 0
    /\ seen = [day |-> 1, orders |-> <<>>, failed |-> TRUE]
    /\ steady = FALSE

\* The pages list_orders may get: page 1 of an order CardTrader chooses.
FirstPages ==
    IF Len(orders) <= PageSize THEN {DOMAIN orders} ELSE kSubset(PageSize, DOMAIN orders)

Prepare ==
    /\ \E page \in FirstPages : discount' = evaluate_discount(Total(orders, page), day)
    /\ seen' = [day |-> day, orders |-> orders, failed |-> FALSE]
    /\ steady' = (Len(orders) <= PageSize)
    /\ UNCHANGED <<orders, day>>

\* Any exception: the run goes on without a discount.
PrepareWithoutSales ==
    /\ discount' = 0
    /\ seen' = [day |-> day, orders |-> orders, failed |-> TRUE]
    /\ steady' = FALSE
    /\ UNCHANGED <<orders, day>>

Sale ==
    /\ Len(orders) < MaxOrders
    /\ \E a \in Amounts : orders' = <<a>> \o orders
    /\ UNCHANGED <<day, discount, seen, steady>>

\* A shipped order leaves hub_pending.
Ship ==
    /\ \E i \in DOMAIN orders : orders' = RemoveAt(orders, i)
    /\ steady' = FALSE
    /\ UNCHANGED <<day, discount, seen>>

NextDay ==
    /\ day' = (day % 7) + 1
    /\ steady' = FALSE
    /\ UNCHANGED <<orders, discount, seen>>

Next == Prepare \/ PrepareWithoutSales \/ Sale \/ Ship \/ NextDay

Spec == Init /\ [][Next]_vars

-------------------------------------------------------------------------------
(***************************************************************************)
(* Properties                                                              *)
(***************************************************************************)

\* The discount a plan is made with for given revenue: the best tier that
\* applies, however the table is ordered.
Due(sales, dow) ==
    LET pcts == {Tiers[k].pct : k \in {k \in DOMAIN Tiers : Applies(Tiers[k], sales, dow)}}
    IN  IF sales >= TARGET_CENTS \/ pcts = {} THEN 0 ELSE Max(pcts)

Revenue == Total(seen.orders, DOMAIN seen.orders)

\* The first-match table grants the best tier that applies; a page that misses
\* orders can only make the discount larger than it is due, never smaller.
NeverBelowDue == ~seen.failed => discount >= Due(Revenue, seen.day)

\* While the orders fit on a page the discount is exactly the one due.
ExactOnOnePage ==
    ~seen.failed /\ Len(seen.orders) <= PageSize => discount = Due(Revenue, seen.day)

\* On one day, and while nothing ships, sales never raise the discount, so that
\* runs hours apart do not cut prices because cards sold.
SalesNeverRaise == [][steady /\ steady' /\ seen' # seen => discount' <= discount]_vars
==============================================================================
