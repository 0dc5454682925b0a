------------------------ MODULE WeeklyDiscountProofs ------------------------
(***************************************************************************)
(* The weekly discount is never below what is due, exact while the orders  *)
(* fit on a page, and never raised by sales, for any orders, page size and *)
(* choice of the page.                                                     *)
(***************************************************************************)
EXTENDS WeeklyDiscount, WellFoundedInduction, TLAPS

-------------------------------------------------------------------------------
(***************************************************************************)
(* Sums                                                                    *)
(***************************************************************************)

\* Induction up to n: S is the set of numbers that have the property.
LEMMA CountUp ==
    ASSUME NEW n \in Nat, NEW S \in SUBSET Nat, 0 \in S,
           \A m \in Nat : m < n /\ m \in S => m + 1 \in S
    PROVE  n \in S
<1> DEFINE R == OpToRel(<, Nat)
           T == (0 .. n) \ S
<1>1. IsWellFoundedOn(R, Nat)
    BY NatLessThanWellFounded
<1>2. \A x, y \in Nat : <<y, x>> \in R <=> y < x
    BY DEF OpToRel
<1> HIDE DEF R
<1> SUFFICES ASSUME n \notin S PROVE FALSE
    OBVIOUS
<1>3. T \subseteq Nat /\ T # {}
    OBVIOUS
<1>4. PICK x \in T : \A y \in T : ~ (<<y, x>> \in R)
    BY <1>1, <1>3, WFMin
<1>5. x \in Nat /\ x # 0 /\ x <= n
    BY <1>4
<1>6. x - 1 \in Nat /\ x - 1 < n /\ x - 1 \in 0 .. n
    BY <1>5
<1>7. x - 1 \in S
  <2>1. <<x - 1, x>> \in R
      BY <1>2, <1>5, <1>6
  <2> QED BY <1>4, <1>6, <2>1
<1>8. (x - 1) + 1 \in S
    BY <1>6, <1>7
<1> QED BY <1>4, <1>5, <1>8

\* What the n-th order adds to the sum t of those before it.
With(amounts, page, n, t) == IF n \in page THEN t + amounts[n] ELSE t

\* The sums of the first 0 to m orders.
Sums(amounts, page, m, t) ==
    t = [n \in 0 .. m |-> IF n = 0 THEN 0 ELSE With(amounts, page, n, t[n - 1])]

\* They can be computed one after another.
LEMMA SumsExist ==
    ASSUME NEW amounts, NEW page, NEW len \in Nat
    PROVE  \E t : Sums(amounts, page, len, t)
<1> DEFINE S == {m \in Nat : \E t : Sums(amounts, page, m, t)}
<1>1. 0 \in S
  <2>1. Sums(amounts, page, 0, [n \in 0 .. 0 |-> 0])
      BY DEF Sums
  <2> QED BY <2>1
<1>2. ASSUME NEW m \in Nat, m \in S PROVE m + 1 \in S
  <2>1. PICK t : Sums(amounts, page, m, t)
      BY <1>2
  <2> DEFINE next == With(amounts, page, m + 1, t[m])
             u == [n \in 0 .. m + 1 |-> IF n = m + 1 THEN next ELSE t[n]]
  <2>2. u[m + 1] = next /\ \A n \in 0 .. m : u[n] = t[n]
      OBVIOUS
  <2>3. u = [n \in 0 .. m + 1 |-> u[n]]
      OBVIOUS
  <2>4. \A n \in 0 .. m : t[n] = IF n = 0 THEN 0 ELSE With(amounts, page, n, t[n - 1])
      BY <2>1 DEF Sums
  <2> HIDE DEF u
  <2>5. ASSUME NEW n \in 0 .. m + 1
        PROVE  u[n] = IF n = 0 THEN 0 ELSE With(amounts, page, n, u[n - 1])
    <3>1. CASE n = m + 1
      <4>1. n # 0 /\ u[n - 1] = t[m]
          BY <2>2, <3>1
      <4> QED BY <2>2, <3>1, <4>1
    <3>2. CASE n # m + 1
      <4>1. n \in 0 .. m /\ (n # 0 => n - 1 \in 0 .. m)
          BY <3>2
      <4>2. u[n] = t[n] /\ (n # 0 => u[n - 1] = t[n - 1])
          BY <2>2, <4>1
      <4> QED BY <2>4, <4>1, <4>2
    <3> QED BY <3>1, <3>2
  <2>6. Sums(amounts, page, m + 1, u)
      BY <2>3, <2>5 DEF Sums
  <2> QED BY <2>6
<1> HIDE DEF S
<1>3. S \in SUBSET Nat
    BY DEF S
<1>4. len \in S
    BY <1>1, <1>2, <1>3, CountUp
<1> QED BY <1>4 DEF S

\* The total of a page, order by order.
LEMMA TotalIs ==
    ASSUME NEW amounts \in Seq(Nat), NEW page
    PROVE  \E t \in [0 .. Len(amounts) -> Nat] :
              /\ Total(amounts, page) = t[Len(amounts)]
              /\ t[0] = 0
              /\ \A n \in 1 .. Len(amounts) : t[n] = With(amounts, page, n, t[n - 1])
<1> DEFINE len == Len(amounts)
           t == CHOOSE u : Sums(amounts, page, len, u)
<1>1. len \in Nat /\ \A n \in 1 .. len : amounts[n] \in Nat
    OBVIOUS
<1>2. Total(amounts, page) = t[len]
    BY DEF Total, Sums, With
<1>3. Sums(amounts, page, len, t)
    BY <1>1, SumsExist
<1> HIDE DEF t, len
<1>4. t[0] = 0 /\ \A n \in 1 .. len : t[n] = With(amounts, page, n, t[n - 1])
    BY <1>1, <1>3 DEF Sums
<1> DEFINE S == {n \in 0 .. len : t[n] \in Nat}
<1>5. ASSUME NEW m \in Nat, m < len, m \in S PROVE m + 1 \in S
  <2>1. m + 1 \in 1 .. len /\ (m + 1) - 1 = m /\ t[m] \in Nat
      BY <1>1, <1>5
  <2>2. t[m + 1] = With(amounts, page, m + 1, t[m])
      BY <1>4, <2>1
  <2>3. t[m + 1] \in Nat
      BY <1>1, <2>1, <2>2 DEF With
  <2> QED BY <2>1, <2>3
<1>6. \A n \in 0 .. len : n \in S
  <2> SUFFICES ASSUME NEW n \in 0 .. len PROVE n \in S
      OBVIOUS
  <2>1. S \in SUBSET Nat /\ 0 \in S /\ n \in Nat
      BY <1>1, <1>4
  <2>2. \A m \in Nat : m < n /\ m \in S => m + 1 \in S
      BY <1>1, <1>5
  <2> HIDE DEF S
  <2> QED BY <2>1, <2>2, CountUp
<1>7. t \in [0 .. len -> Nat]
    BY <1>3, <1>6 DEF Sums
<1> QED BY <1>2, <1>4, <1>7 DEF len

\* A page that misses orders adds up to no more than all of them.
LEMMA PageIsLess ==
    ASSUME NEW amounts \in Seq(Nat), NEW page \in SUBSET DOMAIN amounts
    PROVE  /\ Total(amounts, page) \in Nat /\ Total(amounts, DOMAIN amounts) \in Nat
           /\ Total(amounts, page) <= Total(amounts, DOMAIN amounts)
<1> DEFINE len == Len(amounts)
<1>1. len \in Nat /\ DOMAIN amounts = 1 .. len /\ \A n \in 1 .. len : amounts[n] \in Nat
    OBVIOUS
<1>2. PICK t \in [0 .. len -> Nat] :
          /\ Total(amounts, page) = t[len] /\ t[0] = 0
          /\ \A n \in 1 .. len : t[n] = With(amounts, page, n, t[n - 1])
    BY TotalIs
<1>3. PICK u \in [0 .. len -> Nat] :
          /\ Total(amounts, DOMAIN amounts) = u[len] /\ u[0] = 0
          /\ \A n \in 1 .. len : u[n] = With(amounts, DOMAIN amounts, n, u[n - 1])
    BY TotalIs
<1> HIDE DEF len
<1> DEFINE S == {n \in 0 .. len : t[n] <= u[n]}
<1>4. 0 \in S
    BY <1>1, <1>2, <1>3
<1>5. ASSUME NEW m \in Nat, m < len, m \in S PROVE m + 1 \in S
  <2>1. m + 1 \in 1 .. len /\ (m + 1) - 1 = m /\ m \in 0 .. len /\ m + 1 \in 0 .. len
      BY <1>1, <1>5
  <2>2. /\ t[m + 1] = With(amounts, page, m + 1, t[m])
        /\ u[m + 1] = u[m] + amounts[m + 1]
      BY <1>1, <1>2, <1>3, <2>1 DEF With
  <2>3. t[m] \in Nat /\ u[m] \in Nat /\ amounts[m + 1] \in Nat /\ t[m] <= u[m]
      BY <1>1, <1>5, <2>1
  <2>4. t[m + 1] <= u[m + 1]
      BY <2>2, <2>3 DEF With
  <2> QED BY <2>1, <2>4
<1>6. len \in S
  <2>1. S \in SUBSET Nat
      BY <1>1
  <2> HIDE DEF S
  <2> QED BY <1>1, <1>4, <1>5, <2>1, CountUp
<1> QED BY <1>1, <1>2, <1>3, <1>6

\* A sale only adds to the total.
LEMMA SaleAdds ==
    ASSUME NEW amounts \in Seq(Nat), NEW a \in Nat
    PROVE  LET more == <<a>> \o amounts
           IN  Total(amounts, DOMAIN amounts) <= Total(more, DOMAIN more)
<1> DEFINE len == Len(amounts)
           more == <<a>> \o amounts
<1>1. len \in Nat /\ DOMAIN amounts = 1 .. len /\ \A n \in 1 .. len : amounts[n] \in Nat
    OBVIOUS
<1>2. /\ more \in Seq(Nat) /\ Len(more) = len + 1 /\ DOMAIN more = 1 .. len + 1
      /\ more[1] = a /\ \A n \in 1 .. len : more[n + 1] = amounts[n]
    OBVIOUS
<1>3. PICK t \in [0 .. len -> Nat] :
          /\ Total(amounts, DOMAIN amounts) = t[len] /\ t[0] = 0
          /\ \A n \in 1 .. len : t[n] = With(amounts, DOMAIN amounts, n, t[n - 1])
    BY TotalIs
<1> HIDE DEF more
<1>3a. \E u \in [0 .. Len(more) -> Nat] :
          /\ Total(more, DOMAIN more) = u[Len(more)]
          /\ u[0] = 0
          /\ \A n \in 1 .. Len(more) : u[n] = With(more, DOMAIN more, n, u[n - 1])
  <2>1. more \in Seq(Nat)
      BY <1>2
  <2>2. ASSUME NEW s \in Seq(Nat)
        PROVE  \E u \in [0 .. Len(s) -> Nat] :
                  /\ Total(s, DOMAIN s) = u[Len(s)]
                  /\ u[0] = 0
                  /\ \A n \in 1 .. Len(s) : u[n] = With(s, DOMAIN s, n, u[n - 1])
      BY TotalIs
  <2> QED BY ONLY <2>1, <2>2, Zenon
<1> HIDE DEF len
<1>4. PICK u \in [0 .. len + 1 -> Nat] :
          /\ Total(more, DOMAIN more) = u[len + 1] /\ u[0] = 0
          /\ \A n \in 1 .. len + 1 : u[n] = With(more, DOMAIN more, n, u[n - 1])
    BY <1>2, <1>3a, Zenon
<1> DEFINE S == {n \in 0 .. len : t[n] <= u[n + 1]}
<1>5. 0 \in S
  <2>1. 0 \in 0 .. len /\ 1 \in 0 .. len + 1 /\ u[1] \in Nat
      BY <1>1
  <2> QED BY <1>3, <2>1
<1>6. ASSUME NEW m \in Nat, m < len, m \in S PROVE m + 1 \in S
  <2>1. /\ m + 1 \in 1 .. len /\ (m + 1) - 1 = m /\ m \in 0 .. len /\ m + 1 \in 0 .. len
        /\ m + 2 \in 1 .. len + 1 /\ (m + 2) - 1 = m + 1 /\ m + 1 \in 0 .. len + 1
        /\ (m + 1) + 1 = m + 2
      BY <1>1, <1>6
  <2>2. t[m + 1] = t[m] + amounts[m + 1]
      BY <1>1, <1>3, <2>1 DEF With
  <2>3. u[m + 2] = u[m + 1] + more[m + 2]
      BY <1>2, <1>4, <2>1 DEF With
  <2>4. more[m + 2] = amounts[m + 1] /\ amounts[m + 1] \in Nat
      BY <1>1, <1>2, <2>1
  <2>5. t[m] \in Nat /\ u[m + 1] \in Nat /\ t[m] <= u[m + 1]
      BY <1>6, <2>1
  <2>6. t[m + 1] <= u[m + 2]
      BY <2>2, <2>3, <2>4, <2>5
  <2> QED BY <2>1, <2>6
<1>7. len \in S
  <2>1. S \in SUBSET Nat
      BY <1>1
  <2> HIDE DEF S
  <2> QED BY <1>1, <1>5, <1>6, <2>1, CountUp
<1> QED BY <1>3, <1>4, <1>7 DEF more

-------------------------------------------------------------------------------
(***************************************************************************)
(* The tiers                                                               *)
(***************************************************************************)

\* What the table comes to.
Rate(sales, dow) ==
    IF dow >= 5 /\ sales < 10000 THEN 7
    ELSE IF dow >= 5 /\ sales < 18000 THEN 5
    ELSE IF dow >= 3 /\ sales < 10000 THEN 3
    ELSE 0

\* The tiers that apply, from the first to the last.
LEMMA TiersThatApply ==
    ASSUME NEW sales \in Nat, NEW dow \in Nat
    PROVE  LET hits == {k \in DOMAIN Tiers : Applies(Tiers[k], sales, dow)}
           IN  /\ hits = {k \in 1 .. 3 : \/ k = 1 /\ dow >= 5 /\ sales < 10000
                                         \/ k = 2 /\ dow >= 5 /\ sales < 18000
                                         \/ k = 3 /\ dow >= 3 /\ sales < 10000}
               /\ Tiers[1].pct = 7 /\ Tiers[2].pct = 5 /\ Tiers[3].pct = 3
<1>1. /\ DOMAIN Tiers = 1 .. 3
      /\ Tiers[1] = [min_dow |-> 5, below |-> 10000, pct |-> 7]
      /\ Tiers[2] = [min_dow |-> 5, below |-> 18000, pct |-> 5]
      /\ Tiers[3] = [min_dow |-> 3, below |-> 10000, pct |-> 3]
    BY DEF Tiers
<1>2. \A k \in 1 .. 3 : k = 1 \/ k = 2 \/ k = 3
    OBVIOUS
<1> QED BY <1>1, <1>2 DEF Applies

\* The least and the largest of a set of numbers, when they are known.
LEMMA Extremes ==
    ASSUME NEW S \in SUBSET Nat, NEW x \in S
    PROVE  /\ (\A y \in S : x <= y) => Min(S) = x
           /\ (\A y \in S : x >= y) => Max(S) = x
<1>1. ASSUME \A y \in S : x <= y PROVE Min(S) = x
  <2>1. Min(S) = CHOOSE z \in S : \A y \in S : z <= y
      BY Zenon DEF Min
  <2>2. \A z \in S : (\A y \in S : z <= y) <=> z = x
      BY <1>1
  <2> QED BY <2>1, <2>2
<1>2. ASSUME \A y \in S : x >= y PROVE Max(S) = x
  <2>1. Max(S) = CHOOSE z \in S : \A y \in S : z >= y
      BY Zenon DEF Max
  <2>2. \A z \in S : (\A y \in S : z >= y) <=> z = x
      BY <1>2
  <2> QED BY <2>1, <2>2
<1> QED BY <1>1, <1>2

\* The first tier that applies is the best one that does.
LEMMA FirstIsBest ==
    ASSUME NEW sales \in Nat, NEW dow \in Nat
    PROVE  evaluate_discount(sales, dow) = Rate(sales, dow) /\ Due(sales, dow) = Rate(sales, dow)
<1> DEFINE hits == {k \in DOMAIN Tiers : Applies(Tiers[k], sales, dow)}
           pcts == {Tiers[k].pct : k \in {k \in DOMAIN Tiers : Applies(Tiers[k], sales, dow)}}
<1>1. /\ hits = {k \in 1 .. 3 : \/ k = 1 /\ dow >= 5 /\ sales < 10000
                                \/ k = 2 /\ dow >= 5 /\ sales < 18000
                                \/ k = 3 /\ dow >= 3 /\ sales < 10000}
      /\ Tiers[1].pct = 7 /\ Tiers[2].pct = 5 /\ Tiers[3].pct = 3
    BY TiersThatApply
<1>2. pcts = {Tiers[k].pct : k \in hits}
    OBVIOUS
<1>3. /\ evaluate_discount(sales, dow)
             = IF sales >= 30000 \/ hits = {} THEN 0 ELSE Tiers[Min(hits)].pct
      /\ Due(sales, dow) = IF sales >= 30000 \/ pcts = {} THEN 0 ELSE Max(pcts)
    BY DEF evaluate_discount, Due, TARGET_CENTS
<1> HIDE DEF hits, pcts
<1>4. hits \in SUBSET Nat /\ pcts \in SUBSET Nat
    BY <1>1, <1>2
<1>5. CASE dow >= 5 /\ sales < 10000
  <2>1. hits = {1, 2, 3}
      BY <1>1, <1>5
  <2>2. 1 \in hits /\ \A k \in hits : 1 <= k
      BY <2>1
  <2>3. 7 \in pcts /\ \A pct \in pcts : 7 >= pct
      BY <1>1, <1>2, <2>1
  <2>4. Min(hits) = 1 /\ Max(pcts) = 7
      BY <1>4, <2>2, <2>3, Extremes
  <2> QED BY <1>1, <1>3, <1>5, <2>2, <2>3, <2>4 DEF Rate
<1>6. CASE dow >= 5 /\ ~(sales < 10000) /\ sales < 18000
  <2>1. hits = {2}
      BY <1>1, <1>6
  <2>2. 2 \in hits /\ \A k \in hits : 2 <= k
      BY <2>1
  <2>3. 5 \in pcts /\ \A pct \in pcts : 5 >= pct
      BY <1>1, <1>2, <2>1
  <2>4. Min(hits) = 2 /\ Max(pcts) = 5
      BY <1>4, <2>2, <2>3, Extremes
  <2> QED BY <1>1, <1>3, <1>6, <2>2, <2>3, <2>4 DEF Rate
<1>7. CASE ~(dow >= 5) /\ dow >= 3 /\ sales < 10000
  <2>1. hits = {3}
      BY <1>1, <1>7
  <2>2. 3 \in hits /\ \A k \in hits : 3 <= k
      BY <2>1
  <2>3. 3 \in pcts /\ \A pct \in pcts : 3 >= pct
      BY <1>1, <1>2, <2>1
  <2>4. Min(hits) = 3 /\ Max(pcts) = 3
      BY <1>4, <2>2, <2>3, Extremes
  <2> QED BY <1>1, <1>3, <1>7, <2>2, <2>3, <2>4 DEF Rate
<1>8. CASE /\ ~(dow >= 5 /\ sales < 10000) /\ ~(dow >= 5 /\ sales < 18000)
           /\ ~(dow >= 3 /\ sales < 10000)
  <2>1. hits = {} /\ pcts = {}
      BY <1>1, <1>2, <1>8
  <2> QED BY <1>3, <1>8, <2>1 DEF Rate
<1> QED BY <1>5, <1>6, <1>7, <1>8

\* Sales never raise the rate.
LEMMA RateFalls ==
    ASSUME NEW sales \in Nat, NEW more \in Nat, sales <= more, NEW dow \in Nat
    PROVE  Rate(more, dow) <= Rate(sales, dow)
BY DEF Rate

-------------------------------------------------------------------------------
(***************************************************************************)
(* The invariant                                                           *)
(***************************************************************************)

\* What the orders come to now.
Pending == Total(orders, DOMAIN orders)

WeekTypes ==
    /\ orders \in Seq(Nat) /\ day \in Nat /\ steady \in BOOLEAN
    /\ seen \in [day : Nat, orders : Seq(Nat), failed : BOOLEAN]
    /\ discount \in Nat

\* The discount was computed from some page of the orders that Prepare saw, and
\* from all of them when they fit on one.
FromPage ==
    \E page \in SUBSET DOMAIN seen.orders :
       /\ discount = Rate(Total(seen.orders, page), seen.day)
       /\ Len(seen.orders) <= PageSize => page = DOMAIN seen.orders

\* While nothing but sales happens, it is still that day and the orders have
\* only grown.
OnlySales ==
    ~seen.failed /\ Len(seen.orders) <= PageSize /\ day = seen.day /\ Revenue <= Pending

WeekInv ==
    /\ WeekTypes
    /\ ~seen.failed => FromPage
    /\ steady => OnlySales

\* What these say of the next state.
LEMMA PrimedSums ==
    /\ Pending' = Total(orders', DOMAIN orders')
    /\ Revenue' = Total(seen'.orders, DOMAIN seen'.orders)
    /\ FromPage' <=>
          \E page \in SUBSET DOMAIN seen'.orders :
             /\ discount' = Rate(Total(seen'.orders, page), seen'.day)
             /\ Len(seen'.orders) <= PageSize => page = DOMAIN seen'.orders
<1>1. Pending' = Total(orders', DOMAIN orders')
    BY DEF Pending, Total
<1>2. Revenue' = Total(seen'.orders, DOMAIN seen'.orders)
    BY DEF Revenue, Total
<1>3. FromPage' <=>
          \E page \in SUBSET DOMAIN seen'.orders :
             /\ discount' = Rate(Total(seen'.orders, page), seen'.day)
             /\ Len(seen'.orders) <= PageSize => page = DOMAIN seen'.orders
    BY DEF FromPage, Rate, Total
<1> QED BY <1>1, <1>2, <1>3

LEMMA RateIsNat == \A sales, dow : Rate(sales, dow) \in Nat
BY DEF Rate

LEMMA InitWeek == Init => WeekInv
<1> SUFFICES ASSUME Init PROVE WeekInv
    OBVIOUS
<1>1. seen = [day |-> 1, orders |-> <<>>, failed |-> TRUE] /\ steady = FALSE
    BY DEF Init
<1>2. <<>> \in Seq(Nat)
    OBVIOUS
<1>3. seen \in [day : Nat, orders : Seq(Nat), failed : BOOLEAN] /\ seen.failed
    BY <1>1, <1>2
<1>4. WeekTypes
    BY <1>1, <1>2, <1>3 DEF Init, WeekTypes
<1> QED BY <1>1, <1>3, <1>4 DEF WeekInv

\* What a Prepare that reads the orders computes.
LEMMA PrepareComputes ==
    ASSUME WeekTypes, Prepare
    PROVE  /\ \E page \in SUBSET DOMAIN orders :
                 /\ discount' = Rate(Total(orders, page), day)
                 /\ Len(orders) <= PageSize => page = DOMAIN orders
           /\ seen' = [day |-> day, orders |-> orders, failed |-> FALSE]
           /\ steady' = (Len(orders) <= PageSize)
<1>1. orders \in Seq(Nat) /\ day \in Nat
    BY DEF WeekTypes
<1>2. PICK page \in FirstPages : discount' = evaluate_discount(Total(orders, page), day)
    BY DEF Prepare
<1>3. page \in SUBSET DOMAIN orders /\ (Len(orders) <= PageSize => page = DOMAIN orders)
    BY <1>2 DEF FirstPages, kSubset
<1>4. Total(orders, page) \in Nat
    BY <1>1, <1>3, PageIsLess
<1>5. discount' = Rate(Total(orders, page), day)
    BY <1>1, <1>2, <1>4, FirstIsBest
<1> QED BY <1>3, <1>5 DEF Prepare

LEMMA WeekStep == WeekInv /\ [Next]_vars => WeekInv'
<1> SUFFICES ASSUME WeekInv, [Next]_vars PROVE WeekInv'
    OBVIOUS
<1> USE WeeklyAssumption
<1>0. WeekTypes /\ (~seen.failed => FromPage) /\ (steady => OnlySales)
    BY DEF WeekInv
<1>00. orders \in Seq(Nat) /\ Pending \in Nat /\ Revenue \in Nat
    BY <1>0, PageIsLess DEF WeekTypes, Pending, Revenue
<1>1. CASE Prepare
  <2>1. PICK page \in SUBSET DOMAIN orders :
            /\ discount' = Rate(Total(orders, page), day)
            /\ Len(orders) <= PageSize => page = DOMAIN orders
      BY <1>0, <1>1, PrepareComputes
  <2>2. /\ seen' = [day |-> day, orders |-> orders, failed |-> FALSE]
        /\ steady' = (Len(orders) <= PageSize) /\ UNCHANGED <<orders, day>>
      BY <1>1 DEF Prepare
  <2>3. seen'.orders = orders /\ seen'.day = day /\ seen'.failed = FALSE
      BY <2>2
  <2>4. FromPage'
      BY <2>1, <2>3, PrimedSums
  <2>5. steady' => OnlySales'
    <3>1. Revenue' = Total(orders, DOMAIN orders) /\ Pending' = Total(orders, DOMAIN orders)
        BY <2>2, <2>3, PrimedSums
    <3>2. Revenue' = Pending /\ Pending' = Pending
        BY <3>1 DEF Pending
    <3>3. Revenue' <= Pending'
        BY <1>00, <3>2
    <3>4. day' = seen'.day /\ (steady' => Len(seen'.orders) <= PageSize) /\ ~seen'.failed
        BY <2>2, <2>3
    <3> QED BY <3>3, <3>4 DEF OnlySales
  <2>6. WeekTypes'
      BY <1>0, <2>1, <2>2, RateIsNat DEF WeekTypes
  <2> QED BY <2>4, <2>5, <2>6 DEF WeekInv
<1>2. CASE PrepareWithoutSales
  <2>1. WeekTypes'
      BY <1>0, <1>2 DEF PrepareWithoutSales, WeekTypes
  <2>2. seen'.failed /\ ~steady'
      BY <1>2 DEF PrepareWithoutSales
  <2> QED BY <2>1, <2>2 DEF WeekInv
<1>3. CASE Sale
  <2>1. PICK a \in Amounts : orders' = <<a>> \o orders
      BY <1>3 DEF Sale
  <2>2. UNCHANGED <<day, discount, seen, steady>>
      BY <1>3 DEF Sale
  <2>3. orders' \in Seq(Nat)
      BY <1>00, <2>1
  <2>4. Pending <= Pending'
    <3>1. Total(orders, DOMAIN orders) <= Total(orders', DOMAIN orders')
        BY <1>00, <2>1, SaleAdds
    <3> QED BY <3>1, PrimedSums DEF Pending
  <2>5. Pending' \in Nat
      BY <2>3, PrimedSums, PageIsLess
  <2>6. FromPage' <=> FromPage
      BY <2>2 DEF FromPage, Rate, Total
  <2>7. Revenue' = Revenue
      BY <2>2 DEF Revenue, Total
  <2>8. steady' => OnlySales'
      BY <1>0, <1>00, <2>2, <2>4, <2>5, <2>7 DEF OnlySales
  <2>9. WeekTypes'
      BY <1>0, <2>2, <2>3 DEF WeekTypes
  <2> QED BY <1>0, <2>2, <2>6, <2>8, <2>9 DEF WeekInv
<1>4. CASE Ship
  <2>1. PICK i \in DOMAIN orders : orders' = RemoveAt(orders, i)
      BY <1>4 DEF Ship
  <2>2. ~steady' /\ UNCHANGED <<day, discount, seen>>
      BY <1>4 DEF Ship
  <2>3. orders' \in Seq(Nat)
    <3>1. i \in 1 .. Len(orders) /\ Len(orders) \in Nat
        BY <1>00
    <3>2. SubSeq(orders, 1, i - 1) \in Seq(Nat) /\ SubSeq(orders, i + 1, Len(orders)) \in Seq(Nat)
        BY <1>00, <3>1
    <3> QED BY <2>1, <3>2 DEF RemoveAt
  <2>4. FromPage' <=> FromPage
      BY <2>2 DEF FromPage, Rate, Total
  <2>5. WeekTypes'
      BY <1>0, <1>4, <2>2, <2>3 DEF Ship, WeekTypes
  <2> QED BY <1>0, <2>2, <2>4, <2>5 DEF WeekInv
<1>5. CASE NextDay
  <2>1. steady' = FALSE /\ UNCHANGED <<orders, discount, seen>> /\ day' = (day % 7) + 1
      BY <1>5 DEF NextDay
  <2>2. FromPage' <=> FromPage
      BY <2>1 DEF FromPage, Rate, Total
  <2>3. day' \in Nat
    <3>1. day \in Nat
        BY <1>0 DEF WeekTypes
    <3>2. ASSUME NEW d \in Nat PROVE (d % 7) + 1 \in Nat
        OBVIOUS
    <3> QED BY <2>1, <3>1, <3>2
  <2>4. WeekTypes'
      BY <1>0, <2>1, <2>3 DEF WeekTypes
  <2> QED BY <1>0, <2>1, <2>2, <2>4 DEF WeekInv
<1>6. CASE UNCHANGED vars
  <2>1. UNCHANGED <<orders, day, discount, seen, steady>>
      BY <1>6 DEF vars
  <2>2. (FromPage' <=> FromPage) /\ Revenue' = Revenue /\ Pending' = Pending
      BY <2>1 DEF FromPage, Rate, Total, Revenue, Pending
  <2> QED BY <1>0, <2>1, <2>2 DEF WeekInv, WeekTypes, OnlySales
<1> QED BY <1>1, <1>2, <1>3, <1>4, <1>5, <1>6 DEF Next

LEMMA WeekAlways == Spec => []WeekInv
BY InitWeek, WeekStep, PTL DEF Spec

-------------------------------------------------------------------------------
(***************************************************************************)
(* Theorems                                                                *)
(***************************************************************************)

\* Whatever page of the orders the client reads, and however many there are
\* beyond it, the discount that evaluate_discount's first match grants is never
\* below the best tier for the full revenue.
THEOREM NeverBelow == Spec => []NeverBelowDue
<1>1. ASSUME WeekInv PROVE NeverBelowDue
  <2> SUFFICES ASSUME ~seen.failed PROVE discount >= Due(Revenue, seen.day)
      BY DEF NeverBelowDue
  <2>1. seen.orders \in Seq(Nat) /\ seen.day \in Nat /\ discount \in Nat
      BY <1>1 DEF WeekInv, WeekTypes
  <2>2. PICK page \in SUBSET DOMAIN seen.orders :
            discount = Rate(Total(seen.orders, page), seen.day)
      BY <1>1 DEF WeekInv, FromPage
  <2>3. /\ Total(seen.orders, page) \in Nat /\ Revenue \in Nat
        /\ Total(seen.orders, page) <= Revenue
      BY <2>1, PageIsLess DEF Revenue
  <2>4. Rate(Revenue, seen.day) <= discount
      BY <2>1, <2>2, <2>3, RateFalls
  <2>5. Due(Revenue, seen.day) = Rate(Revenue, seen.day)
      BY <2>1, <2>3, FirstIsBest
  <2> QED BY <2>1, <2>4, <2>5, RateIsNat
<1> QED BY <1>1, WeekAlways, PTL

\* While the pending orders fit on the one page sum_pending_sales_cents reads,
\* the discount is exactly the best tier that applies.
THEOREM OnePageIsExact == Spec => []ExactOnOnePage
<1>1. ASSUME WeekInv PROVE ExactOnOnePage
  <2> SUFFICES ASSUME ~seen.failed, Len(seen.orders) <= PageSize
               PROVE  discount = Due(Revenue, seen.day)
      BY DEF ExactOnOnePage
  <2>1. seen.orders \in Seq(Nat) /\ seen.day \in Nat
      BY <1>1 DEF WeekInv, WeekTypes
  <2>2. discount = Rate(Revenue, seen.day)
      BY <1>1 DEF WeekInv, FromPage, Revenue
  <2>3. Revenue \in Nat
      BY <2>1, PageIsLess DEF Revenue
  <2> QED BY <2>1, <2>2, <2>3, FirstIsBest
<1> QED BY <1>1, WeekAlways, PTL

\* Of two Prepare states of one day with nothing but sales between them, the
\* second never computes a larger discount, so that no price is cut because
\* cards sold.
THEOREM SalesLowerIt == Spec => SalesNeverRaise
<1> DEFINE Step == steady /\ steady' /\ seen' # seen => discount' <= discount
<1>1. ASSUME WeekInv, [Next]_vars PROVE [Step]_vars
  <2> SUFFICES ASSUME steady, steady', seen' # seen PROVE discount' <= discount
      OBVIOUS
  <2>1. WeekTypes /\ FromPage /\ OnlySales
      BY <1>1 DEF WeekInv, OnlySales
  <2>2. Prepare
      BY <1>1 DEF Next, vars, PrepareWithoutSales, Sale, Ship, NextDay
  <2>3. discount' = Rate(Pending, day)
    <3>1. PICK page \in SUBSET DOMAIN orders :
              /\ discount' = Rate(Total(orders, page), day)
              /\ Len(orders) <= PageSize => page = DOMAIN orders
        BY <2>1, <2>2, PrepareComputes
    <3>2. Len(orders) <= PageSize
        BY <2>1, <2>2, PrepareComputes
    <3> QED BY <3>1, <3>2 DEF Pending
  <2>4. discount = Rate(Revenue, day)
      BY <2>1 DEF FromPage, OnlySales, Revenue
  <2>5. Revenue \in Nat /\ Pending \in Nat /\ Revenue <= Pending /\ day \in Nat
      BY <2>1, PageIsLess DEF WeekTypes, Revenue, Pending, OnlySales
  <2> QED BY <2>3, <2>4, <2>5, RateFalls
<1> QED BY <1>1, WeekAlways, PTL DEF Spec, SalesNeverRaise
=============================================================================
