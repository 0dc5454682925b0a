------------------------------ MODULE BuyerFees ------------------------------
(***************************************************************************)
(* The CardTrader buyer fee, which the seller's list price does not hold,  *)
(* and its inverse: the list price that makes the buyer pay a given total. *)
(* All amounts are cents.  The fee table is a parameter.                   *)
(***************************************************************************)
EXTENDS Integers, Sequences, FiniteSetsExt

CONSTANTS
    BUYER_FEE_TIERS, \* tiers [lo, hi, fee], both bounds inclusive
    None             \* the hi of the last tier; an absent price

\* The schedule CardTrader publishes, as the code has it.
FeeTable == <<
    [lo |-> 1,    hi |-> 25,   fee |-> 9],
    [lo |-> 26,   hi |-> 300,  fee |-> 10],
    [lo |-> 301,  hi |-> 500,  fee |-> 11],
    [lo |-> 501,  hi |-> 700,  fee |-> 14],
    [lo |-> 701,  hi |-> 1000, fee |-> 15],
    [lo |-> 1001, hi |-> 1500, fee |-> 21],
    [lo |-> 1501, hi |-> 2000, fee |-> 27],
    [lo |-> 2001, hi |-> 3000, fee |-> 40],
    [lo |-> 3001, hi |-> 4000, fee |-> 52],
    [lo |-> 4001, hi |-> None, fee |-> 64]>>

ASSUME NoneAssumption == None \notin Int

\* The tiers partition the list prices from 1 up.
ASSUME TiersAssumption ==
    /\ Len(BUYER_FEE_TIERS) > 0
    /\ BUYER_FEE_TIERS \in Seq([lo : Nat, hi : Nat \cup {None}, fee : Nat])
    /\ BUYER_FEE_TIERS[1].lo = 1
    /\ \A k \in 1 .. Len(BUYER_FEE_TIERS) :
          /\ BUYER_FEE_TIERS[k].hi = None <=> k = Len(BUYER_FEE_TIERS)
          /\ k < Len(BUYER_FEE_TIERS) =>
                /\ BUYER_FEE_TIERS[k].lo <= BUYER_FEE_TIERS[k].hi
                /\ BUYER_FEE_TIERS[k + 1].lo = BUYER_FEE_TIERS[k].hi + 1
          /\ \A j \in 1 .. k - 1 : BUYER_FEE_TIERS[j].hi < BUYER_FEE_TIERS[k].lo

Tiers == {BUYER_FEE_TIERS[k] : k \in 1 .. Len(BUYER_FEE_TIERS)}

InTier(t, p) == t.lo <= p /\ (t.hi = None \/ p <= t.hi)

\* Fee CT adds on top of the seller list price p for one item.
buyer_fee_cents(p) ==
    IF p < 1 THEN BUYER_FEE_TIERS[1].fee ELSE (CHOOSE t \in Tiers : InTier(t, p)).fee

buyer_total_cents(p) == p + buyer_fee_cents(p)

\* Mutant: a price may leave its tier, and owe the next tier's fee.
UpperUncapped(t, target) == target - t.fee

\* The highest price of tier t whose total stays within target.
Upper(t, target) ==
    IF t.hi = None \/ target - t.fee <= t.hi THEN target - t.fee ELSE t.hi

\* Mutant: take off the fee of the target, not of the price.
list_price_by_target_fee(target) ==
    IF target - buyer_fee_cents(target) < 1 THEN 1 ELSE target - buyer_fee_cents(target)

list_price_for_buyer_total(target) ==
    Max({1} \cup {Upper(t, target) : t \in {t \in Tiers : target - t.fee >= t.lo}})

AtLeast(x, bound) == IF x < bound THEN bound ELSE x

\* Mutant: ask more than the market instead of less.
list_above_market(market, undercut) ==
    list_price_for_buyer_total(AtLeast(market + undercut, 1))

\* Strip the fee from a marketplace (buyer-facing) price and undercut it.
list_from_market_buyer_total(market, undercut) ==
    list_price_for_buyer_total(AtLeast(market - undercut, 1))
=============================================================================
