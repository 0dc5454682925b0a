--------------------------- MODULE MCPlanPipeline ---------------------------
(***************************************************************************)
(* Every export of up to four of seven listings, in either order, under    *)
(* the production policy and fee table, but with a limit on the updates    *)
(* that a plan can reach.                                                  *)
(***************************************************************************)
EXTENDS PlanPipeline

CONSTANTS MaxExport   \* bound on the listings of an export

MCPolicy == [DefaultPolicy EXCEPT !.min_change_cents = 3]

\* int(market * 0.93) truncates these multiples of 100 a cent short.
MCFloatShort == {<<500, 7>>, <<1000, 7>>, <<1100, 7>>}

Seller == 7

Listing(id, blueprint, variant, bucket, game, user, quantity, price) ==
    [id |-> id, blueprint |-> blueprint, variant |-> variant, bucket |-> bucket, game |-> game,
     user |-> user, quantity |-> quantity, price |-> price, floor |-> 20]

\* One card in two conditions and two languages, one of them priced by hand; a
\* second card; a product of another game; a sealed one; and a broken one.
Shelf == <<
    Listing(1, 1, "en", "nm", 1, Seller, 2, 100),
    Listing(2, 1, "en", "pl", 1, None, 1, 999999),
    Listing(3, 2, "en", "nm", 1, None, 3, 92),
    Listing(4, 1, "it", "nm", 1, None, 0, 600),
    Listing(5, 3, "en", "nm", 2, Seller, 1, 94),
    Listing(6, 2, None, None, 1, Seller, 1, 2000),
    Listing(7, 0, "en", "nm", 1, Seller, 1, 30)>>

MCExports ==
    LET picks == {S \in SUBSET DOMAIN Shelf : Cardinality(S) <= MaxExport}
        In(S) == SelectSeq(Shelf, LAMBDA l : l.id \in S)
    IN  {In(S) : S \in picks} \cup {Reverse(In(S)) : S \in picks}

\* Three competitors ask level and a little more in each condition; the seller
\* asks a cent, which would make the second of them the third-lowest.
Market(key, level) ==
    {[price |-> level + 20 * i, product |-> 100 + i, seller |-> i, ct_zero |-> TRUE,
      group |-> <<key[2], bucket>>] : i \in 1 .. 3, bucket \in {"nm", "pl"}}
    \cup {[price |-> 1, product |-> 200, seller |-> Seller, ct_zero |-> TRUE,
           group |-> <<key[2], bucket>>] : bucket \in {"nm", "pl"}}

MCOffers(key) == {{}} \cup {Market(key, level) : level \in {45, 640}}

\* What the theorem about the reports takes for granted.
ASSUME SentinelAssumption == SentinelIsNoPrice
==============================================================================
