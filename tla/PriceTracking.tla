---------------------------- MODULE PriceTracking ----------------------------
(***************************************************************************)
(* One listing under repeated LIVE runs: each run prices it against the    *)
(* market of the moment, the plan safety check gates the plan, and apply   *)
(* sets the price.  Between runs competitors reprice, the weekly discount  *)
(* changes and the seller sets prices by hand.                             *)
(***************************************************************************)
EXTENDS Pricing

CONSTANTS
    Listing,     \* id, group and floor of the listing
    Owner,       \* the seller
    Markets,     \* the sets of offers the marketplace may return
    Discounts,   \* weekly discounts
    EditPrices   \* prices the seller sets by hand

ASSUME TrackingAssumption ==
    /\ Listing.floor \in Nat
    /\ Discounts \subseteq 0 .. 100
    /\ EditPrices \subseteq Nat
    /\ \A market \in Markets :
          IsFiniteSet(market) /\ \A o \in market : o.price \in Nat

VARIABLES
    price,     \* the listing's price at CardTrader
    offers,    \* the marketplace
    discount,  \* this week's discount
    row,       \* the row of the last run, None once something moved since
    due        \* the schedule has started a run

vars == <<price, offers, discount, row, due>>

Init ==
    /\ price \in EditPrices
    /\ offers \in Markets
    /\ discount \in Discounts
    /\ row = None
    /\ due = FALSE

\* The row a run would make now.
NextRow == price_listing([id |-> Listing.id, group |-> Listing.group,
                          floor |-> Listing.floor, price |-> price],
                         offers, discount, Owner)

\* EventBridge starts an execution.
Schedule ==
    /\ ~due
    /\ due' = TRUE
    /\ UNCHANGED <<price, offers, discount, row>>

\* A run whose plan is this listing's row: planned, judged and applied.
Reprice ==
    /\ due
    /\ due' = FALSE
    /\ row' = NextRow
    /\ price' = IF row'.action = "UPDATE" /\ ~SteepDrop(row') THEN row'.proposed ELSE price
    /\ UNCHANGED <<offers, discount>>

MarketMoves ==
    /\ offers' \in Markets
    /\ row' = None
    /\ UNCHANGED <<price, discount, due>>

DiscountChanges ==
    /\ discount' \in Discounts
    /\ row' = None
    /\ UNCHANGED <<price, offers, due>>

SellerEdits ==
    /\ price' \in EditPrices
    /\ row' = None
    /\ UNCHANGED <<offers, discount, due>>

Run == Schedule \/ Reprice
Environment == MarketMoves \/ DiscountChanges \/ SellerEdits

Next == Run \/ Environment

Spec == Init /\ [][Next]_vars

\* The schedule starts a run every two hours, and a run ends.  Only Schedule
\* and Reprice change due, and each is enabled whenever due lets it.
FairSpec == Spec /\ WF_due(~due /\ due' = TRUE) /\ WF_due(due /\ due' = FALSE)

-------------------------------------------------------------------------------
(***************************************************************************)
(* Properties                                                              *)
(***************************************************************************)

\* The clamp keeps every proposed drop within what the plan safety check
\* allows, so that no market, discount or hand edit makes a LIVE run fail on
\* a steep drop (apply_clamps against safety_check_plan).
GateNeverTrips == row # None => ~SteepDrop(row)

\* An update that neither the floor nor the clamp dictates undercuts the
\* market the buyer sees, fee included, and by no more than it must: a cent
\* more would not.
UndercutsTheMarket ==
    row # None /\ row.action = "UPDATE" =>
        LET aim == row.market - Policy.buyer_total_undercut_cents
        IN  row.proposed = row.target /\ row.target > Listing.floor
                /\ aim >= buyer_total_cents(1)
              => /\ buyer_total_cents(row.proposed) <= aim
                 /\ buyer_total_cents(row.proposed + 1) > aim

\* A run moves the price towards its target and never past it: neither clamp,
\* floor nor dead band makes it overshoot.
NeverOvershoots ==
    [][row' # row /\ row' # None /\ row'.target # None =>
          IF price > row'.target THEN price' \in row'.target .. price
          ELSE price' \in {price, row'.target}]_vars

\* A run leaves a price off its target only where the clamp cannot lower it by
\* a cent, or by the dead band.
StuckOnlyWhenCheap ==
    row # None /\ row.action = "KEEP" /\ row.target # None /\ row.previous # row.target =>
        \/ row.why = "dead_band"
        \/ row.previous > row.target /\ row.previous * Policy.max_decrease < 1000

\* From some point on, nobody but the runs moves anything.
QuietMarket == <>[][Run]_vars

\* In a quiet market the runs stop proposing updates: they do not oscillate,
\* nor creep for ever.
Settles == QuietMarket => <>[](row # None /\ row.action # "UPDATE")
===============================================================================
