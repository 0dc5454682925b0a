---------------------------- MODULE PricingProofs ----------------------------
(***************************************************************************)
(* list_price_for_buyer_total returns what its docstring says, for every   *)
(* fee table whose tiers partition the prices; and what price_listing may  *)
(* answer, for every market: its types, how far apply_clamps lets a price  *)
(* go, and what the row aims at.                                           *)
(***************************************************************************)
EXTENDS Pricing, FiniteSetTheorems, WellFoundedInduction, TLAPS

-------------------------------------------------------------------------------
(***************************************************************************)
(* Buyer fees                                                              *)
(***************************************************************************)

\* Least-number principle, from the well-foundedness of < on Nat.
LEMMA SmallestOf ==
    ASSUME NEW T \in SUBSET Nat, T # {}
    PROVE  \E x \in T : \A y \in T : x <= y
<1> DEFINE R == OpToRel(<, Nat)
<1>1. IsWellFoundedOn(R, Nat)
    BY NatLessThanWellFounded
<1>2. \A x, y \in Nat : <<y, x>> \in R <=> y < x
    BY DEF OpToRel
<1> HIDE DEF R
<1>3. PICK x \in T : \A y \in T : ~ (<<y, x>> \in R)
    BY <1>1, WFMin
<1>4. \A y \in T : x \in Nat /\ y \in Nat /\ ~ (y < x)
    BY <1>2, <1>3
<1>5. \A y \in T : x <= y
    BY <1>4
<1> QED BY <1>3, <1>5

\* Max of a bounded set of naturals is its greatest element.
LEMMA MaxOf ==
    ASSUME NEW S \in SUBSET Nat, S # {}, NEW n \in Nat, \A x \in S : x <= n
    PROVE  Max(S) \in S /\ \A x \in S : x <= Max(S)
<1> DEFINE T == {n - x : x \in S}
<1>1. T \in SUBSET Nat /\ T # {}
  <2>1. \A x \in S : n - x \in Nat
      OBVIOUS
  <2> QED BY <2>1
<1>2. PICK t \in T : \A y \in T : t <= y
    BY <1>1, SmallestOf
<1>3. PICK m \in S : t = n - m
    BY <1>2
<1>4. ASSUME NEW x \in S PROVE m >= x
  <2>1. n - m <= n - x
      BY <1>2, <1>3
  <2> QED BY <2>1
<1>5. \E m1 \in S : \A x \in S : m1 >= x
    BY <1>4
<1>6. Max(S) \in S /\ \A x \in S : Max(S) >= x
    BY <1>5 DEF Max
<1> QED BY <1>6

\* The entries of the fee table are tiers.
LEMMA TierType ==
    /\ Len(BUYER_FEE_TIERS) \in Nat \ {0}
    /\ \A k \in 1 .. Len(BUYER_FEE_TIERS) :
          BUYER_FEE_TIERS[k] \in [lo : Nat, hi : Nat \cup {None}, fee : Nat]
<1> DEFINE Tier == [lo : Nat, hi : Nat \cup {None}, fee : Nat]
<1>1. BUYER_FEE_TIERS \in Seq(Tier) /\ Len(BUYER_FEE_TIERS) > 0
    BY TiersAssumption
<1> HIDE DEF Tier
<1>2. /\ Len(BUYER_FEE_TIERS) \in Nat \ {0}
      /\ \A k \in 1 .. Len(BUYER_FEE_TIERS) : BUYER_FEE_TIERS[k] \in Tier
    BY <1>1
<1> QED BY <1>2 DEF Tier

\* Every price from 1 up is in a tier, and only in one.
LEMMA TierOf ==
    ASSUME NEW p \in Nat, p >= 1
    PROVE  /\ \E t \in Tiers : InTier(t, p)
           /\ \A t, u \in Tiers : InTier(t, p) /\ InTier(u, p) => t = u
<1> DEFINE N == Len(BUYER_FEE_TIERS)
           K == {k \in 1 .. N : BUYER_FEE_TIERS[k].lo <= p}
<1> USE TierType
<1>1. K \in SUBSET Nat /\ 1 \in K /\ \A k \in K : k <= N
    BY TiersAssumption
<1>2. PICK k \in K : \A j \in K : j <= k
    BY <1>1, MaxOf
<1>3. InTier(BUYER_FEE_TIERS[k], p)
  <2>1. CASE k = N
      BY <2>1, <1>2, TiersAssumption DEF InTier
  <2>2. CASE k # N
    <3>1. k + 1 \in 1 .. N /\ k + 1 \notin K
        BY <2>2, <1>2
    <3>2. BUYER_FEE_TIERS[k + 1].lo > p
        BY <3>1
    <3>3. BUYER_FEE_TIERS[k + 1].lo = BUYER_FEE_TIERS[k].hi + 1
      <4>1. \A i \in 1 .. N : i < N => BUYER_FEE_TIERS[i + 1].lo = BUYER_FEE_TIERS[i].hi + 1
          BY TiersAssumption
      <4>2. k \in 1 .. N /\ k < N
          BY <2>2, <1>2
      <4> QED BY <4>1, <4>2
    <3>4. BUYER_FEE_TIERS[k].hi # None
      <4>1. \A i \in 1 .. N : BUYER_FEE_TIERS[i].hi = None <=> i = N
          BY TiersAssumption
      <4> QED BY <4>1, <2>2, <1>2
    <3>5. BUYER_FEE_TIERS[k].hi \in Nat
        BY <3>4, <1>2
    <3> QED BY <1>2, <3>2, <3>3, <3>5 DEF InTier
  <2> QED BY <2>1, <2>2
<1>4. ASSUME NEW i \in 1 .. N, NEW j \in 1 .. N, j < i,
             InTier(BUYER_FEE_TIERS[i], p), InTier(BUYER_FEE_TIERS[j], p)
      PROVE  FALSE
  <2>1. BUYER_FEE_TIERS[j].hi < BUYER_FEE_TIERS[i].lo
      BY <1>4, TiersAssumption
  <2>2. BUYER_FEE_TIERS[j].hi \in Nat
    <3>1. \A m \in 1 .. N : BUYER_FEE_TIERS[m].hi = None <=> m = N
        BY TiersAssumption
    <3>2. N \in Nat /\ j # N
        BY <1>4
    <3> QED BY <3>1, <3>2
  <2>3. BUYER_FEE_TIERS[j].hi # None
      BY <2>2, NoneAssumption
  <2> QED BY <1>4, <2>1, <2>2, <2>3 DEF InTier
<1>5. \A i, j \in 1 .. N :
        InTier(BUYER_FEE_TIERS[i], p) /\ InTier(BUYER_FEE_TIERS[j], p) => i = j
  <2> SUFFICES ASSUME NEW i \in 1 .. N, NEW j \in 1 .. N,
                      InTier(BUYER_FEE_TIERS[i], p), InTier(BUYER_FEE_TIERS[j], p),
                      i # j
               PROVE  FALSE
      OBVIOUS
  <2> CASE j < i BY <1>4
  <2> CASE i < j BY <1>4
  <2> QED OBVIOUS
<1> QED BY <1>2, <1>3, <1>5 DEF Tiers

\* buyer_fee_cents finds the fee of the tier a price is in.
LEMMA FeeOf ==
    ASSUME NEW p \in Nat, p >= 1, NEW t \in Tiers, InTier(t, p)
    PROVE  buyer_fee_cents(p) = t.fee
<1> DEFINE u == CHOOSE v \in Tiers : InTier(v, p)
<1>1. u \in Tiers /\ InTier(u, p)
    <2>1. \E v \in Tiers : InTier(v, p)
        BY TierOf
    <2> QED BY <2>1
<1>2. \A v, w \in Tiers : InTier(v, p) /\ InTier(w, p) => v = w
    BY TierOf
<1> HIDE DEF u
<1>3. u = t
    BY <1>1, <1>2
<1>4. buyer_fee_cents(p) = u.fee
    BY DEF buyer_fee_cents, u
<1> QED BY <1>3, <1>4

\* What the buyer pays is a number of cents.
LEMMA TotalType ==
    ASSUME NEW p \in Nat, p >= 1
    PROVE  buyer_total_cents(p) \in Nat
<1>1. PICK t \in Tiers : InTier(t, p)
    BY TierOf
<1>2. buyer_fee_cents(p) = t.fee /\ t.fee \in Nat
    BY <1>1, FeeOf, TierType DEF Tiers
<1> QED BY <1>2 DEF buyer_total_cents

-------------------------------------------------------------------------------
\* "Largest list price P >= 1 with P + fee(P) <= target_buyer_total_cents":
\* no higher price keeps the buyer's total within the target, and the price
\* returned does, unless it is the least price there is.
THEOREM LargestListPrice ==
    ASSUME NEW target \in Nat
    PROVE  LET best == list_price_for_buyer_total(target)
           IN  /\ best \in Nat /\ best >= 1
               /\ best = 1 \/ buyer_total_cents(best) <= target
               /\ \A p \in Nat : p > best => buyer_total_cents(p) > target
<1> DEFINE Open == {t \in Tiers : target - t.fee >= t.lo}
           S == {1} \cup {Upper(t, target) : t \in Open}
           best == list_price_for_buyer_total(target)
<1>1. \A t \in Tiers : /\ t.fee \in Nat
                       /\ t.lo \in Nat /\ t.lo >= 1
                       /\ t.hi # None => t.hi \in Nat /\ t.lo <= t.hi
  <2>1. \A k \in 1 .. Len(BUYER_FEE_TIERS) : BUYER_FEE_TIERS[k].lo >= 1
    <3> SUFFICES ASSUME NEW k \in 1 .. Len(BUYER_FEE_TIERS)
                 PROVE  BUYER_FEE_TIERS[k].lo >= 1
        OBVIOUS
    <3>1. CASE k = 1
        BY <3>1, TiersAssumption
    <3>2. CASE k # 1
      <4>1. 1 \in 1 .. k - 1 /\ 1 \in 1 .. Len(BUYER_FEE_TIERS)
          BY <3>2, TierType
      <4>2. BUYER_FEE_TIERS[1].hi < BUYER_FEE_TIERS[k].lo
          BY <4>1, TiersAssumption
      <4>3. BUYER_FEE_TIERS[1].hi # None
          BY <3>2, <4>1, TierType, TiersAssumption
      <4> QED BY <4>1, <4>2, <4>3, TierType
    <3> QED BY <3>1, <3>2
  <2>2. \A k \in 1 .. Len(BUYER_FEE_TIERS) :
          BUYER_FEE_TIERS[k].hi # None => BUYER_FEE_TIERS[k].lo <= BUYER_FEE_TIERS[k].hi
      BY TierType, TiersAssumption
  <2> QED BY <2>1, <2>2, TierType DEF Tiers
<1>2. \A t \in Open : /\ Upper(t, target) \in Nat
                      /\ t.lo <= Upper(t, target)
                      /\ Upper(t, target) <= target - t.fee
                      /\ InTier(t, Upper(t, target))
    BY <1>1 DEF Upper, InTier
<1>3. S \in SUBSET Nat /\ S # {} /\ \A x \in S : x <= target + 1
    BY <1>1, <1>2
<1>4. best \in S /\ \A x \in S : x <= best
  <2>1. best = Max(S) /\ target + 1 \in Nat
      BY DEF list_price_for_buyer_total
  <2> HIDE DEF S, best
  <2> QED BY <1>3, <2>1, MaxOf
<1>5. best \in Nat /\ best >= 1
    BY <1>3, <1>4
<1>6. best = 1 \/ buyer_total_cents(best) <= target
  <2> SUFFICES ASSUME best # 1
               PROVE  buyer_total_cents(best) <= target
      OBVIOUS
  <2>1. PICK t \in Open : best = Upper(t, target)
      BY <1>4
  <2>2. buyer_fee_cents(best) = t.fee
      BY <1>2, <1>5, <2>1, FeeOf
  <2> QED BY <1>1, <1>2, <1>5, <2>1, <2>2 DEF buyer_total_cents
<1>7. ASSUME NEW p \in Nat, p > best, buyer_total_cents(p) <= target
      PROVE  FALSE
  <2>1. PICK t \in Tiers : InTier(t, p)
      BY <1>5, <1>7, TierOf
  <2>2. buyer_fee_cents(p) = t.fee
      BY <1>5, <1>7, <2>1, FeeOf
  <2>3. p <= target - t.fee /\ t.lo <= p
      BY <1>1, <1>7, <2>1, <2>2 DEF buyer_total_cents, InTier
  <2>4. t \in Open
      BY <1>1, <2>3
  <2>5. p <= Upper(t, target)
      BY <1>1, <2>1, <2>3 DEF Upper, InTier
  <2>6. Upper(t, target) <= best
      BY <1>4, <2>4
  <2> QED BY <1>2, <1>5, <1>7, <2>4, <2>5, <2>6
<1>8. \A p \in Nat : p > best => buyer_total_cents(p) > target
  <2> SUFFICES ASSUME NEW p \in Nat, p > best
               PROVE  buyer_total_cents(p) > target
      OBVIOUS
  <2>1. PICK t \in Tiers : InTier(t, p)
      BY <1>5, TierOf
  <2>2. buyer_total_cents(p) \in Nat
      BY <1>1, <1>5, <2>1, FeeOf DEF buyer_total_cents
  <2> QED BY <1>7, <2>2
<1> QED BY <1>5, <1>6, <1>8

-------------------------------------------------------------------------------
\* The quote of list_from_market_buyer_total never falls as the market rises,
\* although the fee jumps between tiers: a dearer market never makes a listing
\* cheaper.
THEOREM QuoteIsMonotone ==
    ASSUME NEW low \in Nat, NEW high \in Nat, low <= high, NEW undercut \in Nat
    PROVE  list_from_market_buyer_total(low, undercut)
              <= list_from_market_buyer_total(high, undercut)
<1> DEFINE aim == AtLeast(low - undercut, 1)
           higher == AtLeast(high - undercut, 1)
           quote == list_price_for_buyer_total(aim)
           dearer == list_price_for_buyer_total(higher)
<1>1. aim \in Nat /\ higher \in Nat /\ aim <= higher
    BY DEF AtLeast
<1> HIDE DEF aim, higher
<1>2. quote \in Nat /\ quote >= 1 /\ (quote = 1 \/ buyer_total_cents(quote) <= aim)
    BY <1>1, LargestListPrice
<1>3. /\ dearer \in Nat /\ dearer >= 1
      /\ \A p \in Nat : p > dearer => buyer_total_cents(p) > higher
    BY <1>1, LargestListPrice
<1> HIDE DEF quote, dearer
<1>4. ASSUME quote > dearer PROVE FALSE
  <2>1. buyer_total_cents(quote) \in Nat /\ buyer_total_cents(quote) <= aim
      BY <1>2, <1>3, <1>4, TotalType
  <2>2. buyer_total_cents(quote) > higher
      BY <1>2, <1>3, <1>4
  <2> QED BY <1>1, <2>1, <2>2
<1>5. quote <= dearer
    BY <1>2, <1>3, <1>4
<1> QED BY <1>5 DEF quote, dearer, aim, higher, list_from_market_buyer_total

-------------------------------------------------------------------------------
(***************************************************************************)
(* Markets and rows                                                        *)
(***************************************************************************)

\* Finitely many offers, with prices.
Priced(comps) == IsFiniteSet(comps) /\ \A o \in comps : o.price \in Nat

\* The dearest comparable offer is exceeded by none: every rank is reached.
LEMMA RankReached ==
    ASSUME NEW comps, Priced(comps), NEW k \in 1 .. Cardinality(comps)
    PROVE  \E o \in comps : Cardinality({u \in comps : u.price <= o.price}) >= k
<1> DEFINE Upto(p) == {u \in comps : u.price <= p}
           C == {Cardinality(Upto(o.price)) : o \in comps}
<1>1. Cardinality(comps) \in Nat /\ comps # {}
    BY FS_CardinalityType, FS_EmptySet DEF Priced
<1>2. \A o \in comps : /\ IsFiniteSet(Upto(o.price))
                       /\ Cardinality(Upto(o.price)) \in Nat
                       /\ Cardinality(Upto(o.price)) <= Cardinality(comps)
  <2> SUFFICES ASSUME NEW o \in comps
               PROVE  /\ IsFiniteSet(Upto(o.price))
                      /\ Cardinality(Upto(o.price)) \in Nat
                      /\ Cardinality(Upto(o.price)) <= Cardinality(comps)
      OBVIOUS
  <2>1. Upto(o.price) \in SUBSET comps
      OBVIOUS
  <2> HIDE DEF Upto
  <2> QED BY <2>1, FS_Subset, FS_CardinalityType DEF Priced
<1>3. PICK a \in comps : \A o \in comps :
          Cardinality(Upto(o.price)) <= Cardinality(Upto(a.price))
  <2> HIDE DEF Upto
  <2>1. C \in SUBSET Nat /\ C # {} /\ \A c \in C : c <= Cardinality(comps)
      BY <1>1, <1>2
  <2>2. Max(C) \in C /\ \A c \in C : c <= Max(C)
    <3> HIDE DEF C
    <3> QED BY <1>1, <2>1, MaxOf
  <2>3. PICK a \in comps : Max(C) = Cardinality(Upto(a.price))
      BY <2>2
  <2> QED BY <2>2, <2>3
<1>4. ASSUME NEW b \in comps, ~ (b.price <= a.price)
      PROVE  FALSE
  <2>1. Upto(a.price) \in SUBSET Upto(b.price)
      BY <1>4 DEF Priced
  <2>2. b \in Upto(b.price) /\ b \notin Upto(a.price)
      BY <1>4 DEF Priced
  <2> HIDE DEF Upto
  <2>3. Cardinality(Upto(a.price)) < Cardinality(Upto(b.price))
      BY <1>2, <2>1, <2>2, FS_Subset
  <2> QED BY <1>2, <1>3, <2>3
<1>5. Upto(a.price) = comps
    BY <1>4
<1> QED BY <1>1, <1>5

\* comparable_prices is a sequence of prices that are offered.
LEMMA PricesType ==
    ASSUME NEW offers, Priced(offers), NEW listing, NEW seller
    PROVE  LET prices == comparable_prices(offers, listing, seller)
           IN  /\ prices \in Seq(Nat)
               /\ \A k \in 1 .. Len(prices) : \E o \in offers : prices[k] = o.price
<1> DEFINE comps == {o \in offers : IsComparable(o, listing, seller)}
           Reaching(k) == {o.price : o \in
                {o \in comps : Cardinality({u \in comps : u.price <= o.price}) >= k}}
<1>1. Priced(comps)
  <2>1. comps \in SUBSET offers
      OBVIOUS
  <2> HIDE DEF comps
  <2> QED BY <2>1, FS_Subset DEF Priced
<1>2. comparable_prices(offers, listing, seller) = [k \in 1 .. Cardinality(comps) |-> Min(Reaching(k))]
    BY DEF comparable_prices
<1> HIDE DEF comps
<1>3. \A k \in 1 .. Cardinality(comps) : Min(Reaching(k)) \in Nat /\ Min(Reaching(k)) \in Reaching(k)
  <2> SUFFICES ASSUME NEW k \in 1 .. Cardinality(comps)
               PROVE  Min(Reaching(k)) \in Nat /\ Min(Reaching(k)) \in Reaching(k)
      OBVIOUS
  <2>1. Reaching(k) \in SUBSET Nat
      BY <1>1 DEF Priced
  <2>2. Reaching(k) # {}
    <3>1. \E o \in comps : Cardinality({u \in comps : u.price <= o.price}) >= k
        BY <1>1, RankReached
    <3> QED BY <3>1
  <2> HIDE DEF Reaching
  <2>3. \E x \in Reaching(k) : \A y \in Reaching(k) : x <= y
      BY <2>1, <2>2, SmallestOf
  <2> QED BY <2>1, <2>3 DEF Min
<1>4. Cardinality(comps) \in Nat
    BY <1>1, FS_CardinalityType DEF Priced
<1>5. \A k : \A p \in Reaching(k) : \E o \in offers : p = o.price
    BY DEF comps
<1> HIDE DEF Reaching
<1>6. \A k \in 1 .. Cardinality(comps) : \E o \in offers : Min(Reaching(k)) = o.price
    BY <1>3, <1>5
<1> QED BY <1>2, <1>3, <1>4, <1>6

\* The median of prices is a price, rounded, and not above all of them.
LEMMA MedianType ==
    ASSUME NEW s \in Seq(Nat), Len(s) >= 1
    PROVE  /\ median_cents(s) \in Nat
           /\ \E k \in 1 .. Len(s) : median_cents(s) <= s[k]
<1>1. CASE Len(s) % 2 = 1
  <2>1. Len(s) \div 2 + 1 \in 1 .. Len(s)
      BY <1>1
  <2>2. median_cents(s) = s[Len(s) \div 2 + 1]
      BY <1>1 DEF median_cents
  <2>3. s[Len(s) \div 2 + 1] \in Nat
      BY <2>1
  <2> HIDE DEF median_cents
  <2>4. PICK k \in 1 .. Len(s) : median_cents(s) = s[k] /\ s[k] \in Nat
      BY <2>1, <2>2, <2>3
  <2> QED BY <2>4
<1>2. CASE Len(s) % 2 # 1
  <2>1. Len(s) \div 2 \in 1 .. Len(s) /\ Len(s) \div 2 + 1 \in 1 .. Len(s)
      BY <1>2
  <2>2. s[Len(s) \div 2] \in Nat /\ s[Len(s) \div 2 + 1] \in Nat
      BY <2>1
  <2> DEFINE low == s[Len(s) \div 2]
             high == s[Len(s) \div 2 + 1]
             sum == low + high
             half == sum \div 2
  <2>3. median_cents(s) = IF sum % 2 = 1 /\ half % 2 = 1 THEN half + 1 ELSE half
      BY <1>2 DEF median_cents
  <2>4. PICK a \in Nat, b \in Nat : a = low /\ b = high
      BY <2>2
  <2> DEFINE mean == (a + b) \div 2
  <2>5. mean \in Nat /\ a + b = (2 * mean) + ((a + b) % 2) /\ ((a + b) % 2) \in 0 .. 1
    <3>1. ASSUME NEW n \in Nat
          PROVE  n \div 2 \in Nat /\ n = (2 * (n \div 2)) + (n % 2) /\ (n % 2) \in 0 .. 1
        OBVIOUS
    <3>2. a + b \in Nat
        OBVIOUS
    <3> QED BY <3>1, <3>2
  <2>6. median_cents(s) = IF ((a + b) % 2) = 1 /\ (mean % 2) = 1 THEN mean + 1 ELSE mean
      BY <2>3, <2>4
  <2> HIDE DEF mean, low, high, sum, half
  <2>7. median_cents(s) \in Nat /\ (median_cents(s) <= a \/ median_cents(s) <= b)
    <3>1. CASE ((a + b) % 2) = 1
        BY <2>5, <2>6, <3>1
    <3>2. CASE ((a + b) % 2) = 0
        BY <2>5, <2>6, <3>2
    <3> QED BY <2>5, <3>1, <3>2
  <2> QED BY <2>1, <2>4, <2>7 DEF low, high
<1> QED BY <1>1, <1>2

\* Cents that some of the prices reaches.
Reached(cents, prices) == cents \in Nat /\ \E k \in 1 .. Len(prices) : cents <= prices[k]

\* A market is a number of cents, no more than some price, or the reason why
\* there is none.
LEMMA MarketType ==
    ASSUME NEW prices \in Seq(Nat)
    PROVE  LET m == compute_market_price(prices)
           IN  \/ m.method = "insufficient" /\ Len(prices) < Policy.min_comparable_offers
               \/ m.method = "wide_spread"
               \/ m.method = "median" /\ Reached(m.market, prices)
               \/ m.method = "third" /\ (m.market = None \/ Reached(m.market, prices))
<1> DEFINE W == AtLeast(Policy.market_median_window, Policy.min_comparable_offers)
           size == IF Len(prices) < W THEN Len(prices) ELSE W
           window == SubSeq(prices, 1, size)
           wide == /\ window[1] > Policy.comp_spread_min_price_cents
                   /\ 1000 * (window[size] - window[1]) > Policy.max_comp_spread * window[1]
<1>1. /\ Policy.min_comparable_offers \in Nat \ {0}
      /\ Policy.market_median_window \in Nat \ {0}
    BY PolicyAssumption
<1>2. W \in Nat \ {0} /\ W >= Policy.min_comparable_offers
    BY <1>1 DEF AtLeast
<1>3. size \in Nat /\ size <= Len(prices)
      /\ (size < Policy.min_comparable_offers => Len(prices) < Policy.min_comparable_offers)
    BY <1>1, <1>2
<1>4. /\ window \in Seq(Nat) /\ Len(window) = size
      /\ \A k \in 1 .. size : k \in 1 .. Len(prices) /\ window[k] = prices[k]
    BY <1>3
<1> HIDE DEF size, window, W
<1>5. size >= Policy.market_median_window => Reached(median_cents(window), prices)
  <2> SUFFICES ASSUME size >= Policy.market_median_window
               PROVE  Reached(median_cents(window), prices)
      OBVIOUS
  <2>1. Len(window) >= 1
      BY <1>1, <1>3, <1>4
  <2>2. median_cents(window) \in Nat /\ \E k \in 1 .. Len(window) : median_cents(window) <= window[k]
      BY <1>4, <2>1, MedianType
  <2> QED BY <1>4, <2>2 DEF Reached
<1>6. ~(size < 3) => Reached(window[3], prices)
  <2> SUFFICES ASSUME ~(size < 3) PROVE Reached(window[3], prices)
      OBVIOUS
  <2>1. 3 \in 1 .. size
      BY <1>3
  <2>2. 3 \in 1 .. Len(prices) /\ window[3] = prices[3] /\ prices[3] \in Nat
      BY <1>4, <2>1
  <2> QED BY <2>2 DEF Reached
<1>7. compute_market_price(prices) =
        CASE size < Policy.min_comparable_offers ->
                [method |-> "insufficient", market |-> None]
          [] size >= Policy.min_comparable_offers /\ wide ->
                [method |-> "wide_spread", market |-> None]
          [] size >= Policy.min_comparable_offers /\ ~wide ->
                IF size >= Policy.market_median_window
                THEN [method |-> "median", market |-> median_cents(window)]
                ELSE [method |-> "third",
                      market |-> IF size < 3 THEN None ELSE window[3]]
    BY DEF compute_market_price, size, window, W
<1> HIDE DEF wide
<1>8. CASE size < Policy.min_comparable_offers
    BY <1>1, <1>3, <1>7, <1>8
<1>9. CASE size >= Policy.min_comparable_offers
    BY <1>1, <1>3, <1>5, <1>6, <1>7, <1>9
<1> QED BY <1>1, <1>3, <1>8, <1>9

\* The undercut list price is a number of cents.
LEMMA ListPriceType ==
    ASSUME NEW market \in Int
    PROVE  /\ list_from_market_buyer_total(market, Policy.buyer_total_undercut_cents) \in Nat
           /\ list_from_market_buyer_total(market, Policy.buyer_total_undercut_cents) >= 1
<1> DEFINE target == AtLeast(market - Policy.buyer_total_undercut_cents, 1)
<1>1. target \in Nat
    BY PolicyAssumption DEF AtLeast
<1>2. /\ list_price_for_buyer_total(target) \in Nat
      /\ list_price_for_buyer_total(target) >= 1
  <2> HIDE DEF target
  <2> QED BY <1>1, LargestListPrice
<1> QED BY <1>2 DEF list_from_market_buyer_total

\* A percentage of a price is a price.
LEMMA ProductIsNatural ==
    ASSUME NEW k \in Nat, NEW p \in Nat
    PROVE  k * p \in Nat
OBVIOUS

\* What a percentage leaves of a price.
LEMMA RestIsDifference ==
    ASSUME NEW d \in 0 .. 1000, NEW p \in Nat
    PROVE  /\ p * (1000 - d) \in Nat
           /\ p * (1000 - d) = 1000 * p - d * p
<1>1. 1000 - d \in Nat /\ d \in Nat
    OBVIOUS
<1>2. p * (1000 - d) \in Nat
    BY <1>1, ProductIsNatural
<1>3. p * (1000 - d) = 1000 * p - d * p
    BY <1>1
<1> QED BY <1>2, <1>3

\* Rounding the clamp up never lowers the price by more than the percentage.
LEMMA ClampIsTight ==
    ASSUME NEW previous \in Nat
    PROVE  /\ min_allowed(previous) \in Nat
           /\ min_allowed(previous) <= previous
           /\ 1000 * (previous - min_allowed(previous)) <= Policy.max_decrease * previous
<1> DEFINE cut == Policy.max_decrease * previous
           kept == previous * (1000 - Policy.max_decrease)
<1>1. Policy.max_decrease \in 0 .. 1000
    BY PolicyAssumption
<1>2. cut \in Nat /\ kept \in Nat /\ kept = 1000 * previous - cut
  <2>1. PICK d \in 0 .. 1000 : d = Policy.max_decrease
      BY <1>1
  <2>2. d * previous \in Nat
      BY ProductIsNatural
  <2>3. previous * (1000 - d) \in Nat
        /\ previous * (1000 - d) = 1000 * previous - d * previous
      BY RestIsDifference
  <2> QED BY <2>1, <2>2, <2>3
<1> HIDE DEF cut, kept
<1>3. /\ (kept + 999) \div 1000 \in Nat
      /\ (kept + 999) \div 1000 <= previous
      /\ 1000 * ((kept + 999) \div 1000) >= kept
    BY <1>2
<1>4. min_allowed(previous) = (kept + 999) \div 1000
    BY DEF min_allowed, CeilThousandths, kept
<1> QED BY <1>2, <1>3, <1>4 DEF cut

\* What clamping a target that is no lower than the floor may make of it.
Clamped(c, previous, target, sentinel) ==
    /\ c \in Nat
    /\ previous > target => target <= c /\ c <= previous
    /\ previous <= target => c = target
    /\ ~sentinel => 1000 * (previous - c) <= Policy.max_decrease * previous

\* apply_clamps moves the price towards its target, not past it, and down by
\* no more than the clamp's percentage.
LEMMA ClampsBound ==
    ASSUME NEW previous \in Nat, NEW floor \in Nat, NEW target \in Nat, target >= floor,
           NEW sentinel \in BOOLEAN
    PROVE  Clamped(apply_clamps(previous, target, sentinel, floor), previous, target, sentinel)
<1> DEFINE m == min_allowed(previous)
           c == apply_clamps(previous, target, sentinel, floor)
           cut == Policy.max_decrease * previous
<1>1. m \in Nat /\ m <= previous /\ 1000 * (previous - m) <= cut
    BY ClampIsTight
<1>2. cut \in Nat
  <2>1. Policy.max_decrease \in Nat
      BY PolicyAssumption
  <2>2. PICK d \in Nat : d = Policy.max_decrease
      BY <2>1
  <2>3. d * previous \in Nat
      BY ProductIsNatural
  <2> QED BY <2>2, <2>3
<1>3. c = AtLeast(IF ~sentinel /\ target < previous THEN AtLeast(target, m) ELSE target, floor)
    BY DEF apply_clamps
<1> HIDE DEF m, c, cut
<1>4. CASE ~sentinel /\ target < previous
  <2>1. c = IF target < m THEN m ELSE target
      BY <1>1, <1>3, <1>4 DEF AtLeast
  <2>2. c \in Nat /\ target <= c /\ c <= previous /\ m <= c
      BY <1>1, <1>4, <2>1
  <2>3. 1000 * (previous - c) <= cut
      BY <1>1, <1>2, <2>2
  <2> QED BY <1>4, <2>2, <2>3 DEF c, cut, Clamped
<1>5. CASE sentinel \/ ~ (target < previous)
  <2>1. c = target
      BY <1>3, <1>5 DEF AtLeast
  <2>2. ~sentinel => 1000 * (previous - c) <= cut
      BY <1>2, <1>5, <2>1
  <2> QED BY <1>5, <2>1, <2>2 DEF c, cut, Clamped
<1> QED BY <1>4, <1>5

-------------------------------------------------------------------------------
\* What every row says of the price it is about.
RowOK(r, p) ==
    /\ r.previous = p
    /\ r.action = "UPDATE" => r.target # None /\ r.proposed \in Nat
    /\ r.target # None =>
          /\ r.target \in Nat
          /\ r.action = "UPDATE" =>
                /\ p > r.target => r.target <= r.proposed /\ r.proposed <= p
                /\ p <= r.target => r.proposed = r.target
                /\ ~r.sentinel_clear => 1000 * (p - r.proposed) <= Policy.max_decrease * p

\* price_listing has four ways to leave a listing alone, and one to price it,
\* for a market that some offer reaches.
LEMMA RowShape ==
    ASSUME NEW listing, NEW offers, Priced(offers), NEW discount \in 0 .. 100, NEW seller
    PROVE  LET row == price_listing(listing, offers, discount, seller)
           IN  \/ row \in {NoUpdate(listing, "SKIP", "insufficient_comps"),
                           NoUpdate(listing, "KEEP", "insufficient_comps"),
                           NoUpdate(listing, "SKIP", "wide_spread"),
                           NoUpdate(listing, "SKIP", "missing_market")}
               \/ \E m \in Int : row = PricedRow(listing, m) /\ \E o \in offers : m <= o.price
<1> DEFINE prices == comparable_prices(offers, listing, seller)
           sel == compute_market_price(prices)
           fallback == Policy.insufficient_comps_fallback
           market == IF sel.method = "insufficient" THEN prices[1] ELSE sel.market
           row == price_listing(listing, offers, discount, seller)
<1>1. prices \in Seq(Nat) /\ \A k \in 1 .. Len(prices) : \E o \in offers : prices[k] = o.price
    BY PricesType
<1>2. \A m \in Nat : discounted(m, discount) \in Int /\ discounted(m, discount) <= m
  <2> SUFFICES ASSUME NEW m \in Nat
               PROVE  discounted(m, discount) \in Int /\ discounted(m, discount) <= m
      OBVIOUS
  <2>1. m * (100 - discount) \in Nat /\ m * (100 - discount) <= 100 * m
    <3>1. 100 - discount \in 0 .. 100
        OBVIOUS
    <3>2. ASSUME NEW k \in 0 .. 100 PROVE m * k \in Nat /\ m * k <= 100 * m
      <4>1. m * (100 - k) \in Nat /\ m * k + m * (100 - k) = 100 * m /\ m * k \in Nat
          OBVIOUS
      <4> QED BY <4>1
    <3> QED BY <3>1, <3>2
  <2>2. ASSUME NEW p \in Nat, p <= 100 * m PROVE p \div 100 \in Int /\ p \div 100 <= m
      BY <2>2
  <2> DEFINE rest == (m * (100 - discount)) \div 100
  <2>3. rest \in Int /\ rest <= m
      BY <2>1, <2>2
  <2>4. discounted(m, discount) \in {rest, rest - 1}
      BY <2>3 DEF discounted
  <2> HIDE DEF rest
  <2> QED BY <2>3, <2>4
<1>3. \/ sel.method = "insufficient" /\ Len(prices) < Policy.min_comparable_offers
      \/ sel.method = "wide_spread"
      \/ sel.method = "median" /\ Reached(sel.market, prices)
      \/ sel.method = "third" /\ (sel.market = None \/ Reached(sel.market, prices))
    BY <1>1, MarketType
<1>4. fallback \in {"use_lowest", "keep_current", "skip"}
    BY PolicyAssumption
<1>5. row = CASE sel.method = "insufficient"
                   /\ (fallback = "skip" \/ (fallback = "use_lowest" /\ prices = <<>>)) ->
                    NoUpdate(listing, "SKIP", "insufficient_comps")
             [] sel.method = "insufficient" /\ fallback = "keep_current" ->
                    NoUpdate(listing, "KEEP", "insufficient_comps")
             [] sel.method = "wide_spread" ->
                    NoUpdate(listing, "SKIP", "wide_spread")
             [] sel.method = "third" /\ sel.market = None ->
                    NoUpdate(listing, "SKIP", "missing_market")
             [] OTHER -> PricedRow(listing, discounted(market, discount))
    BY DEF price_listing
<1> HIDE DEF prices, sel, row, fallback
<1> DEFINE Left == {NoUpdate(listing, "SKIP", "insufficient_comps"),
                    NoUpdate(listing, "KEEP", "insufficient_comps"),
                    NoUpdate(listing, "SKIP", "wide_spread"),
                    NoUpdate(listing, "SKIP", "missing_market")}
<1>6. row \in Left \/ (Reached(market, prices) /\ row = PricedRow(listing, discounted(market, discount)))
  <2>1. CASE sel.method = "insufficient"
    <3>1. prices # <<>> => Reached(prices[1], prices)
        BY <1>1 DEF Reached
    <3> QED BY <1>4, <1>5, <2>1, <3>1
  <2>2. CASE sel.method = "wide_spread"
      BY <1>5, <2>2
  <2>3. CASE sel.method = "median" /\ Reached(sel.market, prices)
      BY <1>5, <2>3
  <2>4. CASE sel.method = "third" /\ (sel.market = None \/ Reached(sel.market, prices))
      BY <1>5, <2>4
  <2> QED BY <1>3, <2>1, <2>2, <2>3, <2>4
<1>7. ASSUME Reached(market, prices), row = PricedRow(listing, discounted(market, discount))
      PROVE  \E m \in Int : row = PricedRow(listing, m) /\ \E o \in offers : m <= o.price
  <2>1. PICK k \in 1 .. Len(prices) : market \in Nat /\ market <= prices[k]
      BY <1>7 DEF Reached
  <2>2. PICK o \in offers : prices[k] = o.price
      BY <1>1
  <2>3. o.price \in Nat
      BY DEF Priced
  <2>4. discounted(market, discount) \in Int /\ discounted(market, discount) <= market
      BY <1>2, <2>1
  <2> HIDE DEF market
  <2>5. discounted(market, discount) <= o.price
      BY <2>1, <2>2, <2>3, <2>4
  <2> QED BY <1>7, <2>4, <2>5
<1>8. row \in Left \/ \E m \in Int : row = PricedRow(listing, m) /\ \E o \in offers : m <= o.price
    BY <1>6, <1>7
<1> QED BY <1>8 DEF row, Left

\* A price the row aims at: the market undercut, but not below the floor.
Aim(market, floor) ==
    AtLeast(list_from_market_buyer_total(market, Policy.buyer_total_undercut_cents), floor)

LEMMA AimType ==
    ASSUME NEW market \in Int, NEW floor \in Nat
    PROVE  Aim(market, floor) \in Nat /\ Aim(market, floor) >= floor
BY ListPriceType DEF AtLeast, Aim

\* What a priced row holds.
LEMMA PricedRowIs ==
    ASSUME NEW listing, NEW m
    PROVE  LET previous == listing.price
               target == Aim(m, listing.floor)
               c == apply_clamps(previous, target, IsSentinel(previous), listing.floor)
               r == PricedRow(listing, m)
           IN  /\ r.previous = previous /\ r.target = target /\ r.market = m
               /\ r.sentinel_clear = IsSentinel(previous)
               /\ \/ r.action = "KEEP" /\ r.why = "no_change"
                       /\ ~IsSentinel(previous) /\ c = previous
                  \/ r.action = "KEEP" /\ r.why = "dead_band"
                  \/ r.action = "UPDATE" /\ r.proposed = c
BY DEF PricedRow, Aim

\* price_listing only makes rows that say such things.
LEMMA RowIsOK ==
    ASSUME NEW listing, listing.price \in Nat, listing.floor \in Nat,
           NEW offers, Priced(offers), NEW discount \in 0 .. 100, NEW seller
    PROVE  RowOK(price_listing(listing, offers, discount, seller), listing.price)
<1>1. ASSUME NEW m \in Int
      PROVE  RowOK(PricedRow(listing, m), listing.price)
  <2> DEFINE previous == listing.price
             sentinel == IsSentinel(previous)
             target == Aim(m, listing.floor)
             c == apply_clamps(previous, target, sentinel, listing.floor)
             r == PricedRow(listing, m)
  <2>1. target \in Nat /\ target >= listing.floor
      BY AimType
  <2>2. sentinel \in BOOLEAN
      BY DEF IsSentinel
  <2>3. r.previous = previous /\ r.target = target /\ r.sentinel_clear = sentinel
        /\ (r.action = "UPDATE" => r.proposed = c)
      BY PricedRowIs
  <2> HIDE DEF target, sentinel, r
  <2>4. Clamped(c, previous, target, sentinel)
      BY <2>1, <2>2, ClampsBound
  <2>5. RowOK(r, previous)
    <3> HIDE DEF c
    <3> QED BY <2>1, <2>3, <2>4, NoneAssumption DEF RowOK, Clamped
  <2> QED BY <2>5 DEF r
<1>2. \A action, why : RowOK(NoUpdate(listing, action, why), listing.price)
                       \/ action = "UPDATE"
    BY DEF RowOK, NoUpdate
<1> DEFINE row == price_listing(listing, offers, discount, seller)
<1>3. \/ row \in {NoUpdate(listing, "SKIP", "insufficient_comps"),
                  NoUpdate(listing, "KEEP", "insufficient_comps"),
                  NoUpdate(listing, "SKIP", "wide_spread"),
                  NoUpdate(listing, "SKIP", "missing_market")}
      \/ \E m \in Int : row = PricedRow(listing, m)
    BY RowShape
<1> HIDE DEF row
<1>4. RowOK(row, listing.price)
    BY <1>1, <1>2, <1>3
<1> QED BY <1>4 DEF row

-------------------------------------------------------------------------------
\* An update that is the row's target, above the floor, is the quote for its
\* market; a row kept off its target is in the dead band or held by the clamp.
RowAims(r, floor) ==
    /\ r.action = "UPDATE" =>
          r.market \in Int /\ r.target = Aim(r.market, floor)
    /\ r.action = "KEEP" /\ r.target # None /\ r.previous # r.target =>
          \/ r.why = "dead_band"
          \/ r.previous > r.target /\ r.previous * Policy.max_decrease < 1000

\* A clamp that gives nothing has not a cent to give.
LEMMA ClampGivesNothing ==
    ASSUME NEW previous \in Nat, min_allowed(previous) = previous
    PROVE  previous * Policy.max_decrease < 1000
<1> DEFINE cut == previous * Policy.max_decrease
           kept == previous * (1000 - Policy.max_decrease)
<1>1. cut \in Nat /\ kept \in Nat /\ kept = 1000 * previous - cut
  <2>1. PICK d \in 0 .. 1000 : d = Policy.max_decrease
    <3>1. Policy.max_decrease \in 0 .. 1000
        BY PolicyAssumption
    <3> QED BY <3>1
  <2>2. d * previous \in Nat /\ previous * d = d * previous
      BY ProductIsNatural
  <2>3. previous * (1000 - d) \in Nat
        /\ previous * (1000 - d) = 1000 * previous - d * previous
      BY RestIsDifference
  <2> QED BY <2>1, <2>2, <2>3
<1>2. (kept + 999) \div 1000 = previous
    BY DEF min_allowed, CeilThousandths
<1> HIDE DEF cut, kept
<1>3. kept + 999 >= 1000 * previous
    BY <1>1, <1>2
<1>4. cut < 1000
    BY <1>1, <1>3
<1> QED BY <1>4 DEF cut

LEMMA RowDoesAim ==
    ASSUME NEW listing, listing.price \in Nat, listing.floor \in Nat,
           NEW offers, Priced(offers), NEW discount \in 0 .. 100, NEW seller
    PROVE  RowAims(price_listing(listing, offers, discount, seller), listing.floor)
<1>1. ASSUME NEW m \in Int
      PROVE  RowAims(PricedRow(listing, m), listing.floor)
  <2> DEFINE previous == listing.price
             sentinel == IsSentinel(previous)
             target == Aim(m, listing.floor)
             c == apply_clamps(previous, target, sentinel, listing.floor)
             r == PricedRow(listing, m)
  <2>1. target \in Nat /\ target >= listing.floor
      BY AimType
  <2>2. /\ r.previous = previous /\ r.target = target /\ r.market = m
        /\ \/ r.action = "KEEP" /\ r.why = "no_change" /\ ~sentinel /\ c = previous
           \/ r.action = "KEEP" /\ r.why = "dead_band"
           \/ r.action = "UPDATE" /\ r.proposed = c
      BY PricedRowIs
  <2>3. ASSUME ~sentinel, c = previous, previous # target
        PROVE  previous > target /\ previous * Policy.max_decrease < 1000
    <3>1. min_allowed(previous) \in Nat
        BY ClampIsTight
    <3>2. c = IF target < previous
              THEN IF target < min_allowed(previous) THEN min_allowed(previous) ELSE target
              ELSE target
      <4> HIDE DEF target, sentinel
      <4>1. c = AtLeast(IF target < previous THEN AtLeast(target, min_allowed(previous))
                        ELSE target, listing.floor)
          BY <2>3 DEF apply_clamps
      <4> HIDE DEF c
      <4> QED BY <2>1, <3>1, <4>1 DEF AtLeast
    <3> HIDE DEF target, sentinel, c
    <3>3. target < previous /\ min_allowed(previous) = previous
        BY <2>1, <2>3, <3>1, <3>2
    <3> QED BY <2>1, <3>3, ClampGivesNothing
  <2> HIDE DEF target, sentinel, c, r
  <2>4. RowAims(r, listing.floor)
      BY <2>2, <2>3 DEF RowAims, target
  <2> QED BY <2>4 DEF r
<1>2. \A action, why : RowAims(NoUpdate(listing, action, why), listing.floor)
                       \/ action = "UPDATE"
    BY DEF RowAims, NoUpdate
<1> DEFINE row == price_listing(listing, offers, discount, seller)
<1>3. \/ row \in {NoUpdate(listing, "SKIP", "insufficient_comps"),
                  NoUpdate(listing, "KEEP", "insufficient_comps"),
                  NoUpdate(listing, "SKIP", "wide_spread"),
                  NoUpdate(listing, "SKIP", "missing_market")}
      \/ \E m \in Int : row = PricedRow(listing, m)
    BY RowShape
<1> HIDE DEF row
<1>4. RowAims(row, listing.floor)
    BY <1>1, <1>2, <1>3
<1> QED BY <1>4 DEF row
-------------------------------------------------------------------------------
\* Stripping the fee and undercutting never takes a quote above its market.
LEMMA QuoteBelowMarket ==
    ASSUME NEW market \in Int, NEW top \in Nat, top >= 1, market <= top
    PROVE  list_from_market_buyer_total(market, Policy.buyer_total_undercut_cents) <= top
<1> DEFINE undercut == Policy.buyer_total_undercut_cents
           target == AtLeast(market - undercut, 1)
           best == list_price_for_buyer_total(target)
<1>1. undercut \in Nat
    BY PolicyAssumption
<1>2. target \in Nat /\ target <= top
    BY <1>1 DEF AtLeast
<1> HIDE DEF target
<1>3. best \in Nat /\ best >= 1 /\ (best = 1 \/ buyer_total_cents(best) <= target)
    BY <1>2, LargestListPrice
<1> HIDE DEF best
<1>4. buyer_fee_cents(best) \in Nat
  <2>1. PICK t \in Tiers : InTier(t, best)
      BY <1>3, TierOf
  <2>2. buyer_fee_cents(best) = t.fee
      BY <1>3, <2>1, FeeOf
  <2>3. t.fee \in Nat
      BY TierType DEF Tiers
  <2> QED BY <2>2, <2>3
<1>5. best <= top
    BY <1>2, <1>3, <1>4 DEF buyer_total_cents
<1> QED BY <1>5 DEF best, target, list_from_market_buyer_total

\* What a row says of its listing's price and of the one it proposes.
Says(r, price, top) ==
    /\ r.previous = price
    /\ r.sentinel_clear => IsSentinel(price)
    /\ r.action = "UPDATE" => r.proposed \in 1 .. top

\* A proposal is at least a cent, and no more than some price that is asked
\* or in force: an offer's, the floor, or the listing's own unless it was set by
\* hand (compute_market_price, apply_clamps and the fee inverse).
THEOREM ProposalsAreInRange ==
    ASSUME NEW listing, listing.price \in Nat, listing.floor \in Nat,
           NEW offers, Priced(offers), NEW discount \in 0 .. 100, NEW seller,
           NEW top \in Nat, top >= 1, listing.floor <= top, \A o \in offers : o.price <= top,
           IsSentinel(listing.price) \/ listing.price <= top
    PROVE  Says(price_listing(listing, offers, discount, seller), listing.price, top)
<1> DEFINE previous == listing.price
           row == price_listing(listing, offers, discount, seller)
<1>1. ASSUME NEW m \in Int, m <= top PROVE Says(PricedRow(listing, m), previous, top)
  <2> DEFINE sentinel == IsSentinel(previous)
             target == Aim(m, listing.floor)
             c == apply_clamps(previous, target, sentinel, listing.floor)
             r == PricedRow(listing, m)
  <2>1. target \in 1 .. top /\ target >= listing.floor
    <3> DEFINE quote == list_from_market_buyer_total(m, Policy.buyer_total_undercut_cents)
    <3>1. quote \in 1 .. top
        BY <1>1, ListPriceType, QuoteBelowMarket
    <3> HIDE DEF quote
    <3>2. target = AtLeast(quote, listing.floor)
        BY DEF Aim, quote
    <3> HIDE DEF target
    <3> QED BY <3>1, <3>2 DEF AtLeast
  <2>2. min_allowed(previous) \in Nat /\ min_allowed(previous) <= previous
      BY ClampIsTight
  <2>3. r.previous = previous /\ r.sentinel_clear = sentinel /\ (r.action = "UPDATE" => r.proposed = c)
      BY PricedRowIs
  <2>4. c = AtLeast(IF ~sentinel /\ target < previous THEN AtLeast(target, min_allowed(previous))
                    ELSE target, listing.floor)
      BY DEF apply_clamps
  <2> HIDE DEF target, r, c
  <2>5. c \in 1 .. top
    <3>1. CASE ~sentinel /\ target < previous
      <4>1. previous <= top
          BY <3>1
      <4> HIDE DEF sentinel
      <4> QED BY <2>1, <2>2, <2>4, <3>1, <4>1 DEF AtLeast
    <3>2. CASE sentinel \/ ~(target < previous)
      <4> HIDE DEF sentinel
      <4> QED BY <2>1, <2>4, <3>2 DEF AtLeast
    <3> QED BY <3>1, <3>2
  <2>6. Says(r, previous, top)
      BY <2>3, <2>5 DEF Says
  <2> QED BY <2>6 DEF r
<1>2. \A why : Says(NoUpdate(listing, "SKIP", why), previous, top)
              /\ Says(NoUpdate(listing, "KEEP", why), previous, top)
    BY DEF Says, NoUpdate
<1>3. \/ row \in {NoUpdate(listing, "SKIP", "insufficient_comps"),
                  NoUpdate(listing, "KEEP", "insufficient_comps"),
                  NoUpdate(listing, "SKIP", "wide_spread"),
                  NoUpdate(listing, "SKIP", "missing_market")}
      \/ \E m \in Int : row = PricedRow(listing, m) /\ \E o \in offers : m <= o.price
    BY RowShape
<1> HIDE DEF row
<1>4. ASSUME NEW m \in Int, NEW o \in offers, m <= o.price PROVE m <= top
  <2>1. o.price \in Nat /\ o.price <= top
      BY DEF Priced
  <2> QED BY <1>4, <2>1
<1>5. Says(row, previous, top)
    BY <1>1, <1>2, <1>3, <1>4
<1> QED BY <1>5 DEF row
=============================================================================
