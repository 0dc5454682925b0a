--------------------------- MODULE MCPriceTracking ---------------------------
(***************************************************************************)
(* The production policy, fee table and floors, on listings cheap enough   *)
(* for the states to be few and dear enough for the clamp to matter.       *)
(***************************************************************************)
EXTENDS PriceTracking

CONSTANTS
    Levels,   \* the prices competitors ask
    Floor     \* the listing's rarity floor

MCListing == [id |-> 1, group |-> "nm_sp en", floor |-> Floor]

\* int(market * 0.93) truncates these multiples of 100 a cent short.
MCFloatShort == {<<500, 7>>, <<1000, 7>>, <<1100, 7>>}

MCOwner == 7

Offer(p, product, seller, zero, group) ==
    [price |-> p, product |-> product, seller |-> seller, ct_zero |-> zero, group |-> group]

\* Up to five competitors, and four offers that must not count: the listing
\* itself, the seller's other copy, one outside CT Zero, one in Italian.
MCMarkets ==
    {{Offer(ps[i], i + 1, i, TRUE, "nm_sp en") : i \in 1 .. n}
        \cup {Offer(1, 1, 8, TRUE, "nm_sp en"), Offer(1, 20, 7, TRUE, "nm_sp en"),
              Offer(1, 21, 8, FALSE, "nm_sp en"), Offer(1, 22, 8, TRUE, "nm_sp it")} :
        n \in {0, 2, 3, 4, 5}, ps \in {ps \in [1 .. 5 -> Levels] :
                              \A i \in 1 .. 4 : ps[i] >= ps[i + 1]}}
==============================================================================
