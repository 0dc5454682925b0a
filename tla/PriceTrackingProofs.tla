------------------------- MODULE PriceTrackingProofs -------------------------
(***************************************************************************)
(* The clamp of apply_clamps and the steep-drop gate of safety_check_plan: *)
(* whatever the market, the discount and the seller do, a policy that      *)
(* clamps at least as tightly as it gates never trips its own gate.  And   *)
(* what the runs make of the price: they undercut the market by as little  *)
(* as they can, move towards their target, and stop short of it only for   *)
(* the dead band or a clamp of less than a cent.                           *)
(***************************************************************************)
EXTENDS PriceTracking, PricingProofs

-------------------------------------------------------------------------------
\* The inductive invariant: types, and every row says what a row may say.
TrackInv ==
    /\ price \in Nat
    /\ offers \in Markets
    /\ discount \in Discounts
    /\ row # None =>
          RowOK(row, row.previous) /\ row.previous \in Nat /\ RowAims(row, Listing.floor)

\* The row of the next run is about the current price.
LEMMA NextRowIsOK ==
    ASSUME TrackInv
    PROVE  RowOK(NextRow, price) /\ RowAims(NextRow, Listing.floor)
<1> DEFINE l == [id |-> Listing.id, group |-> Listing.group,
                 floor |-> Listing.floor, price |-> price]
<1>1. l.price = price /\ l.price \in Nat /\ l.floor = Listing.floor /\ l.floor \in Nat
    BY TrackingAssumption DEF TrackInv
<1>2. Priced(offers) /\ discount \in 0 .. 100
    BY TrackingAssumption DEF TrackInv, Priced
<1>3. NextRow = price_listing(l, offers, discount, Owner)
    BY DEF NextRow
<1> HIDE DEF l
<1>4. RowOK(price_listing(l, offers, discount, Owner), l.price)
    BY <1>1, <1>2, RowIsOK
<1>5. RowAims(price_listing(l, offers, discount, Owner), l.floor)
    BY <1>1, <1>2, RowDoesAim
<1> QED BY <1>1, <1>3, <1>4, <1>5

\* The invariant holds at first and every step preserves it.
LEMMA TrackInductive ==
    /\ Init => TrackInv
    /\ TrackInv /\ [Next]_vars => TrackInv'
<1>1. Init => TrackInv
    BY TrackingAssumption DEF Init, TrackInv
<1>2. ASSUME TrackInv, [Next]_vars
      PROVE  TrackInv'
  <2>1. CASE Schedule
      BY <1>2, <2>1 DEF Schedule, TrackInv
  <2>2. CASE Reprice
    <3>1. RowOK(row', price) /\ RowAims(row', Listing.floor)
        BY <1>2, <2>2, NextRowIsOK DEF Reprice
    <3>2. row'.previous = price /\ row'.previous \in Nat
        BY <1>2, <3>1 DEF RowOK, TrackInv
    <3>3. price' \in Nat
        BY <1>2, <2>2, <3>1 DEF Reprice, RowOK, TrackInv
    <3>4. offers' \in Markets /\ discount' \in Discounts
        BY <1>2, <2>2 DEF Reprice, TrackInv
    <3>5. RowOK(row', row'.previous)
        BY <3>1, <3>2
    <3>6. /\ RowOK(row, row.previous)' <=> RowOK(row', row'.previous)
          /\ RowAims(row, Listing.floor)' <=> RowAims(row', Listing.floor)
        BY DEF RowOK, RowAims
    <3> QED BY <3>1, <3>2, <3>3, <3>4, <3>5, <3>6 DEF TrackInv
  <2>3. CASE MarketMoves
      BY <1>2, <2>3 DEF MarketMoves, TrackInv
  <2>4. CASE DiscountChanges
      BY <1>2, <2>4 DEF DiscountChanges, TrackInv
  <2>5. CASE SellerEdits
      BY <1>2, <2>5, TrackingAssumption DEF SellerEdits, TrackInv
  <2>6. CASE UNCHANGED vars
    <3>1. UNCHANGED <<price, offers, discount, row>>
        BY <2>6 DEF vars
    <3> QED BY <1>2, <3>1 DEF TrackInv
  <2> QED BY <1>2, <2>1, <2>2, <2>3, <2>4, <2>5, <2>6 DEF Next, Run, Environment
<1> QED BY <1>1, <1>2

\* The larger percentage of one price is the larger amount.
LEMMA ProductIsMonotone ==
    ASSUME NEW d \in Nat, NEW a \in Nat, NEW p \in Nat, d <= a
    PROVE  d * p <= a * p
<1>1. PICK k \in Nat : a = d + k
    <2>1. a - d \in Nat /\ a = d + (a - d)
        OBVIOUS
    <2> QED BY <2>1
<1>2. a * p = d * p + k * p
    BY <1>1
<1>3. k * p \in Nat /\ d * p \in Nat
    BY <1>1
<1> QED BY <1>2, <1>3

\* Under a policy whose clamp is no looser than its gate, no run ever fails
\* the plan safety check on a steep drop of this listing.
THEOREM TightClampPassesGate ==
    ASSUME Policy.max_decrease <= Policy.max_allowed_decrease
    PROVE  Spec => []GateNeverTrips
<1>1. Spec => []TrackInv
    BY TrackInductive, PTL DEF Spec
<1>2. TrackInv => GateNeverTrips
  <2> SUFFICES ASSUME TrackInv, row # None, SteepDrop(row)
               PROVE  FALSE
      BY DEF GateNeverTrips
  <2> DEFINE p == row.previous
  <2>1. p \in Nat /\ row.action = "UPDATE" /\ ~row.sentinel_clear
        /\ 1000 * (p - row.proposed) > Policy.max_allowed_decrease * p
      BY DEF SteepDrop, TrackInv
  <2>2. row.proposed \in Nat
        /\ 1000 * (p - row.proposed) <= Policy.max_decrease * p
      BY <2>1 DEF TrackInv, RowOK
  <2>3. Policy.max_decrease \in Nat /\ Policy.max_allowed_decrease \in Nat
      BY PolicyAssumption
  <2> HIDE DEF p
  <2>4. Policy.max_decrease * p <= Policy.max_allowed_decrease * p
      BY <2>1, <2>3, ProductIsMonotone
  <2>5. Policy.max_decrease * p \in Nat /\ Policy.max_allowed_decrease * p \in Nat
      BY <2>1, <2>3, ProductIsNatural
  <2> QED BY <2>1, <2>2, <2>4, <2>5
<1> QED BY <1>1, <1>2, PTL

\* Whatever the policy, a run moves the price towards its target and never
\* past it.
THEOREM RunsNeverOvershoot == Spec => NeverOvershoots
<1> DEFINE Towards ==
        row' # row /\ row' # None /\ row'.target # None =>
            IF price > row'.target THEN price' \in row'.target .. price
            ELSE price' \in {price, row'.target}
<1>1. Spec => []TrackInv
    BY TrackInductive, PTL DEF Spec
<1>2. TrackInv /\ [Next]_vars => [Towards]_vars
  <2> SUFFICES ASSUME TrackInv, Next, row' # row, row' # None, row'.target # None
               PROVE  IF price > row'.target THEN price' \in row'.target .. price
                      ELSE price' \in {price, row'.target}
      OBVIOUS
  <2>1. Reprice
      BY DEF Next, Run, Environment, Schedule, MarketMoves, DiscountChanges, SellerEdits
  <2>2. RowOK(row', price)
      BY <2>1, NextRowIsOK DEF Reprice
  <2>3. price' = price \/ (row'.action = "UPDATE" /\ price' = row'.proposed)
      BY <2>1 DEF Reprice
  <2>4. price \in Nat /\ row'.target \in Nat
      BY <2>2 DEF RowOK, TrackInv
  <2> QED BY <2>2, <2>3, <2>4 DEF RowOK
<1>3. []TrackInv /\ [][Next]_vars => [][Towards]_vars
    BY <1>2, PTL
<1> QED BY <1>1, <1>3, PTL DEF Spec, NeverOvershoots

\* An update that neither the floor nor the clamp dictates is the dearest price
\* that undercuts the market the buyer sees, for every policy and fee table.
THEOREM UpdatesUndercut == Spec => []UndercutsTheMarket
<1>1. Spec => []TrackInv
    BY TrackInductive, PTL DEF Spec
<1>2. TrackInv => UndercutsTheMarket
  <2> DEFINE undercut == Policy.buyer_total_undercut_cents
             aim == row.market - undercut
             least == buyer_total_cents(1)
  <2> SUFFICES ASSUME TrackInv, row # None, row.action = "UPDATE",
                      row.proposed = row.target, row.target > Listing.floor, aim >= least
               PROVE  /\ buyer_total_cents(row.proposed) <= aim
                      /\ buyer_total_cents(row.proposed + 1) > aim
      BY DEF UndercutsTheMarket
  <2>1. row.market \in Int /\ row.target = Aim(row.market, Listing.floor)
      BY DEF TrackInv, RowAims
  <2>2. undercut \in Nat /\ aim \in Int
      BY <2>1, PolicyAssumption
  <2>3. least \in Nat /\ least >= 1
    <3>1. PICK t \in Tiers : InTier(t, 1)
        BY TierOf
    <3>2. buyer_fee_cents(1) \in Nat
        BY <3>1, FeeOf, TierType DEF Tiers
    <3> QED BY <3>2 DEF buyer_total_cents
  <2> DEFINE best == list_price_for_buyer_total(aim)
  <2>4. list_from_market_buyer_total(row.market, undercut) = best
    <3> DEFINE a == aim
    <3>1. a \in Int /\ a >= 1
      <4> HIDE DEF least, aim
      <4> QED BY <2>2, <2>3
    <3>2. AtLeast(a, 1) = a
      <4> HIDE DEF a
      <4> QED BY <3>1 DEF AtLeast
    <3> QED BY <3>2 DEF list_from_market_buyer_total
  <2>5. aim \in Nat
    <3> HIDE DEF least, aim
    <3> QED BY <2>2, <2>3
  <2>6. row.proposed = best
    <3>1. row.target = AtLeast(best, Listing.floor)
        BY <2>1, <2>4 DEF Aim
    <3>2. row.target \in Nat /\ best \in Nat
        BY <2>5, LargestListPrice DEF TrackInv, RowOK
    <3> HIDE DEF best
    <3> QED BY <3>1, <3>2 DEF AtLeast
  <2> HIDE DEF aim
  <2>7. /\ best \in Nat /\ best >= 1
        /\ best = 1 \/ buyer_total_cents(best) <= aim
        /\ \A p \in Nat : p > best => buyer_total_cents(p) > aim
      BY <2>5, LargestListPrice
  <2> HIDE DEF best
  <2>8. buyer_total_cents(best + 1) > aim
      BY <2>7
  <2>9. buyer_total_cents(best) <= aim
      BY <2>2, <2>7
  <2> QED BY <2>6, <2>8, <2>9
<1> QED BY <1>1, <1>2, PTL

\* A run leaves a price off its target only for the dead band, or where the
\* clamp cannot lower it by a cent.
THEOREM KeptOnlyWhenCheap == Spec => []StuckOnlyWhenCheap
<1>1. Spec => []TrackInv
    BY TrackInductive, PTL DEF Spec
<1>2. TrackInv => StuckOnlyWhenCheap
    BY DEF TrackInv, RowAims, StuckOnlyWhenCheap
<1> QED BY <1>1, <1>2, PTL
=============================================================================
