------------------------- MODULE PlanPipelineProofs -------------------------
(***************************************************************************)
(* However an export is cut into chunks, the merged plan is that of the    *)
(* whole catalogue, and is judged as a whole.                              *)
(***************************************************************************)
EXTENDS PlanPipeline, PricingProofs

-------------------------------------------------------------------------------
(***************************************************************************)
(* Numbers and sets                                                        *)
(***************************************************************************)

\* Induction up to n: S is the set of numbers that have the property.
LEMMA CountUp ==
    ASSUME NEW n \in Nat, NEW S \in SUBSET Nat, 0 \in S,
           \A m \in Nat : m < n /\ m \in S => m + 1 \in S
    PROVE  n \in S
<1> SUFFICES ASSUME n \notin S PROVE FALSE
    OBVIOUS
<1> DEFINE T == (0 .. n) \ S
<1>1. T \in SUBSET Nat /\ T # {}
    OBVIOUS
<1>2. PICK x \in T : \A y \in T : x <= y
    BY <1>1, SmallestOf
<1>3. x \in Nat /\ x # 0 /\ x <= n
    BY <1>2
<1>4. x - 1 \in Nat /\ x - 1 < n /\ x - 1 \in 0 .. n
    BY <1>3
<1>5. x - 1 \in S
    BY <1>2, <1>3, <1>4
<1>6. (x - 1) + 1 \in S
    BY <1>4, <1>5
<1> QED BY <1>2, <1>3, <1>6

LEMMA AtLeastOne == ASSUME NEW n \in Int PROVE Max({1, n}) \in Nat \ {0}
<1> DEFINE m == CHOOSE x \in {1, n} : \A y \in {1, n} : x >= y
<1>1. Max({1, n}) = m
    BY Zenon DEF Max
<1>2. \E x \in {1, n} : \A y \in {1, n} : x >= y
    OBVIOUS
<1>3. m \in {1, n} /\ \A y \in {1, n} : m >= y
    BY <1>2
<1> HIDE DEF m
<1> QED BY <1>1, <1>3

LEMMA TheLarger == ASSUME NEW n \in Nat PROVE Max({1, n}) = IF n = 0 THEN 1 ELSE n
<1> DEFINE m == CHOOSE x \in {1, n} : \A y \in {1, n} : x >= y
<1>1. Max({1, n}) = m
    BY Zenon DEF Max
<1>2. \E x \in {1, n} : \A y \in {1, n} : x >= y
    OBVIOUS
<1>3. m \in {1, n} /\ \A y \in {1, n} : m >= y
    BY <1>2
<1> HIDE DEF m
<1> QED BY <1>1, <1>3

LEMMA ProductsGrow ==
    ASSUME NEW a \in Nat, NEW b \in Nat, NEW size \in Nat, a <= b
    PROVE  a * size <= b * size /\ a * size \in Nat /\ b * size \in Nat
<1>1. b - a \in Nat /\ b = a + (b - a)
    OBVIOUS
<1>2. ASSUME NEW d \in Nat PROVE (a + d) * size = a * size + d * size /\ d * size \in Nat
    OBVIOUS
<1>3. b * size = a * size + (b - a) * size /\ (b - a) * size \in Nat
    BY <1>1, <1>2
<1>4. a * size \in Nat
    OBVIOUS
<1> QED BY <1>3, <1>4

\* Sets in a one-to-one relation have the same size.
LEMMA SameSize ==
    ASSUME NEW S, NEW T, IsFiniteSet(S), NEW f \in [S -> T],
           \A x, y \in S : f[x] = f[y] => x = y, \A t \in T : \E x \in S : f[x] = t
    PROVE  IsFiniteSet(T) /\ Cardinality(T) = Cardinality(S)
<1>1. f \in Bijection(S, T)
    BY DEF Bijection, Injection, Surjection, IsInjective
<1> QED BY <1>1, FS_Bijection DEF ExistsBijection

\* The chunks of size keys, enough for len of them, have each key once.
LEMMA SlicesMeetAll ==
    ASSUME NEW len \in Nat, NEW size \in Nat \ {0}, NEW k \in 1 .. len
    PROVE  \E n \in 1 .. (len + size - 1) \div size : (n - 1) * size < k /\ k <= n * size
<1> DEFINE last == (len + size - 1) \div size
<1>1. last \in Nat /\ len <= last * size
  <2>1. ASSUME NEW a \in Nat
        PROVE  a \div size \in Nat /\ a < size * (a \div size) + size
      OBVIOUS
  <2>2. len + size - 1 \in Nat /\ last \in Nat /\ len + size - 1 < size * last + size
      BY <2>1
  <2> HIDE DEF last
  <2>3. size * last = last * size /\ last * size \in Nat
      BY <2>2
  <2> DEFINE product == last * size
  <2>4. product \in Nat /\ len + size - 1 < product + size
      BY <2>2, <2>3
  <2> HIDE DEF product
  <2>5. len <= product
      BY <2>4
  <2> QED BY <2>2, <2>5 DEF product
<1> DEFINE S == {n \in Nat : k <= n * size}
<1>2. S \in SUBSET Nat /\ last \in S
    BY <1>1
<1>3. PICK n \in S : \A m \in S : n <= m
    BY <1>2, SmallestOf
<1>4. n \in Nat /\ k <= n * size /\ n <= last
    BY <1>2, <1>3
<1>5. n # 0
    BY <1>4
<1>6. n - 1 \in Nat /\ n - 1 \notin S
    BY <1>3, <1>4, <1>5
<1>7. (n - 1) * size < k
    BY <1>6
<1>8. n \in 1 .. last
    BY <1>1, <1>4, <1>5
<1> QED BY <1>4, <1>7, <1>8, Zenon

LEMMA SlicesMeetOnce ==
    ASSUME NEW size \in Nat, NEW k \in Nat, NEW n \in Nat, NEW m \in Nat,
           n < m, k <= n * size
    PROVE  ~ ((m - 1) * size < k)
<1>1. n <= m - 1 /\ m - 1 \in Nat
    OBVIOUS
<1>2. n * size <= (m - 1) * size /\ n * size \in Nat /\ (m - 1) * size \in Nat
    BY <1>1, ProductsGrow
<1> QED BY <1>2

-------------------------------------------------------------------------------
(***************************************************************************)
(* The listings due                                                        *)
(***************************************************************************)

LEMMA ListingsAre ==
    ASSUME export \in Exports
    PROVE  /\ DOMAIN export = 1 .. Len(export) /\ Len(export) \in Nat
           /\ mtg_listings \subseteq Priceable /\ Priceable \subseteq DOMAIN export
           /\ IsFiniteSet(Priceable) /\ IsFiniteSet(mtg_listings)
           /\ \A i, j \in DOMAIN export : export[i] = export[j] => i = j
<1>1. export \in Seq(ToSet(export))
    BY PipelineAssumption
<1>2. DOMAIN export = 1 .. Len(export) /\ Len(export) \in Nat
    BY <1>1
<1>3. mtg_listings \subseteq Priceable /\ Priceable \subseteq DOMAIN export
    BY DEF mtg_listings, Priceable
<1>4. IsFiniteSet(Priceable) /\ IsFiniteSet(mtg_listings)
  <2>1. IsFiniteSet(DOMAIN export)
      BY <1>2, FS_Interval
  <2>2. IsFiniteSet(Priceable)
      BY <1>3, <2>1, FS_Subset
  <2> QED BY <1>3, <2>2, FS_Subset
<1>5. ASSUME NEW i \in DOMAIN export, NEW j \in DOMAIN export, export[i] = export[j]
      PROVE  i = j
  <2>1. export[i].id = export[j].id
      BY <1>5
  <2> QED BY <2>1, PipelineAssumption
<1> QED BY <1>2, <1>3, <1>4, <1>5

\* The listings due are those that are sliced into chunks.
LEMMA DueAre == ASSUME export \in Exports PROVE Due = {export[i] : i \in mtg_listings}
<1>1. Due = {export[i] : i \in {i \in DOMAIN export : IsDue(export[i])}}
    BY DEF Due, ToSet
<1>2. \A i \in DOMAIN export :
          IsDue(export[i]) <=> /\ i \in Priceable
                               /\ \/ export[i].game = GameId
                                  \/ \A j \in Priceable : export[j].game # GameId
    BY DEF IsDue, ToSet, Priceable
<1>3. {i \in DOMAIN export : IsDue(export[i])} = mtg_listings
    BY <1>2 DEF mtg_listings, Priceable
<1> QED BY <1>1, <1>3

LEMMA DueCount ==
    ASSUME export \in Exports
    PROVE  Cardinality(Due) = Cardinality(mtg_listings)
<1> DEFINE f == [i \in mtg_listings |-> export[i]]
<1>1. f \in [mtg_listings -> Due] /\ \A l \in Due : \E i \in mtg_listings : f[i] = l
    BY DueAre
<1>2. \A i, j \in mtg_listings : f[i] = f[j] => i = j
    BY ListingsAre
<1> HIDE DEF f
<1> QED BY <1>1, <1>2, ListingsAre, SameSize

Keys == {market_fetch_key(export[i]) : i \in mtg_listings}

\* SetToSeq lists every element of a finite set once.
LEMMA ListsOnce ==
    ASSUME NEW S, IsFiniteSet(S)
    PROVE  LET s == SetToSeq(S)
           IN  /\ Len(s) \in Nat /\ DOMAIN s = 1 .. Len(s)
               /\ \A x \in S : \E k \in 1 .. Len(s) : s[k] = x
               /\ \A k \in 1 .. Len(s) : s[k] \in S
               /\ \A k, m \in 1 .. Len(s) : s[k] = s[m] => k = m
<1> DEFINE n == Cardinality(S)
           IsList(f) == f \in [1 .. n -> S] /\ IsInjective(f)
           s == SetToSeq(S)
<1>1. n \in Nat /\ ExistsBijection(1 .. n, S)
    BY FS_CardinalityType
<1>2. \E f : IsList(f)
    BY <1>1 DEF ExistsBijection, Bijection, Injection
<1>3. IsList(s)
    BY <1>2 DEF SetToSeq
<1>4. s \in Injection(1 .. n, S)
    BY <1>3 DEF Injection
<1>5. Cardinality(1 .. n) = n
    BY <1>1, FS_Interval
<1>6. s \in Surjection(1 .. n, S)
    BY <1>4, <1>5, FS_Injection
<1> HIDE DEF s
<1>7. Len(s) = n /\ DOMAIN s = 1 .. n
    BY <1>1, <1>3
<1>8. \A k, m \in 1 .. n : s[k] = s[m] => k = m
    BY <1>3 DEF IsInjective
<1>9. \A x \in S : \E k \in 1 .. n : s[k] = x
    BY <1>6 DEF Surjection
<1> QED BY <1>1, <1>3, <1>7, <1>8, <1>9 DEF s

-------------------------------------------------------------------------------
(***************************************************************************)
(* The invariant                                                           *)
(***************************************************************************)

\* Every card that is due is looked up in one chunk.
ChunksOK ==
    /\ chunks = [n \in DOMAIN chunks |-> chunks[n]]
    /\ DOMAIN chunks = 1 .. Len(chunks) /\ Len(chunks) \in Nat
    /\ \A key \in Keys : \E n \in DOMAIN chunks : key \in chunks[n]
    /\ \A m, n \in DOMAIN chunks : m # n => chunks[m] \cap chunks[n] = {}

LEMMA SlicesAreOK ==
    ASSUME export \in Exports, chunk_size \in ChunkSizes,
           chunks = slice_fetch_key_chunks(fetch_keys)
    PROVE  ChunksOK
<1> DEFINE keys == fetch_keys
           size == Max({1, chunk_size})
           last == (Len(keys) + size - 1) \div size
<1>1. size \in Nat \ {0}
  <2>1. chunk_size \in Int
      BY PipelineAssumption
  <2> QED BY <2>1, AtLeastOne
<1>2. /\ Len(keys) \in Nat /\ DOMAIN keys = 1 .. Len(keys)
      /\ \A x \in Keys : \E k \in 1 .. Len(keys) : keys[k] = x
      /\ \A k \in 1 .. Len(keys) : keys[k] \in Keys
      /\ \A k, m \in 1 .. Len(keys) : keys[k] = keys[m] => k = m
  <2>1. IsFiniteSet(Keys)
    <3> DEFINE f == [i \in mtg_listings |-> market_fetch_key(export[i])]
    <3>1. f \in Surjection(mtg_listings, Keys)
        BY DEF Surjection, Keys
    <3> HIDE DEF f
    <3> QED BY <3>1, FS_Surjection, ListingsAre
  <2>2. keys = SetToSeq(Keys)
      BY DEF fetch_keys, Keys
  <2> QED BY <2>1, <2>2, ListsOnce
<1>3. chunks = IF keys = <<>> THEN <<{}>> ELSE [n \in 1 .. last |-> Slice(keys, size, n)]
    BY DEF slice_fetch_key_chunks
<1> HIDE DEF keys
<1>4. CASE keys = <<>>
  <2>1. chunks = <<{}>> /\ Keys = {}
      BY <1>2, <1>3, <1>4
  <2>2. DOMAIN chunks = 1 .. 1 /\ Len(chunks) = 1 /\ chunks = [n \in 1 .. 1 |-> chunks[n]]
      BY <2>1
  <2>3. \A m, n \in 1 .. 1 : m = n
      OBVIOUS
  <2> QED BY <2>1, <2>2, <2>3 DEF ChunksOK
<1>5. CASE keys # <<>>
  <2>1. chunks = [n \in 1 .. last |-> Slice(keys, size, n)]
      BY <1>3, <1>5
  <2>2. last \in Nat
    <3>1. ASSUME NEW a \in Nat, NEW b \in Nat \ {0} PROVE a \div b \in Nat
        OBVIOUS
    <3>2. Len(keys) + size - 1 \in Nat
        BY <1>1, <1>2
    <3> QED BY <1>1, <3>1, <3>2
  <2> HIDE DEF size
  <2>3. ASSUME NEW key \in Keys PROVE \E n \in 1 .. last : key \in chunks[n]
    <3>1. PICK k \in 1 .. Len(keys) : keys[k] = key
        BY <1>2
    <3>2. PICK n \in 1 .. last : (n - 1) * size < k /\ k <= n * size
        BY <1>1, <1>2, SlicesMeetAll
    <3>3. key \in Slice(keys, size, n)
        BY <1>2, <3>1, <3>2 DEF Slice
    <3> QED BY <2>1, <3>2, <3>3
  <2>4. ASSUME NEW m \in 1 .. last, NEW n \in 1 .. last, n < m
        PROVE  chunks[m] \cap chunks[n] = {}
    <3> SUFFICES ASSUME NEW key, key \in chunks[m], key \in chunks[n] PROVE FALSE
        OBVIOUS
    <3>1. key \in Slice(keys, size, m) /\ key \in Slice(keys, size, n)
        BY <2>1
    <3>2. PICK k \in 1 .. Len(keys) : key = keys[k] /\ (m - 1) * size < k
        BY <1>2, <3>1 DEF Slice
    <3>3. PICK j \in 1 .. Len(keys) : key = keys[j] /\ j <= n * size
        BY <1>2, <3>1 DEF Slice
    <3>4. j = k
        BY <1>2, <3>2, <3>3
    <3>5. k \in Nat /\ m \in Nat /\ n \in Nat /\ size \in Nat
        BY <1>1, <1>2, <2>2
    <3> QED BY <2>4, <3>2, <3>3, <3>4, <3>5, SlicesMeetOnce
  <2>5. ASSUME NEW m \in 1 .. last, NEW n \in 1 .. last, m # n
        PROVE  chunks[m] \cap chunks[n] = {}
    <3>1. m < n \/ n < m
        BY <2>2, <2>5
    <3> QED BY <2>4, <3>1
  <2> HIDE DEF last
  <2>6. DOMAIN chunks = 1 .. last /\ Len(chunks) = last
      BY <2>1, <2>2
  <2> QED BY <2>1, <2>2, <2>3, <2>5, <2>6 DEF ChunksOK
<1> QED BY <1>4, <1>5

\* The row of a listing, for the seller and the discount that Prepare found.
RowFor(seller, pct, listing, offers) ==
    LET row == price_listing([id |-> listing.id, group |-> <<listing.variant, listing.bucket>>,
                              floor |-> listing.floor, price |-> listing.price],
                             offers, pct, seller)
    IN  [id |-> listing.id, copies |-> Copies(listing), previous |-> listing.price,
         action |-> row.action, why |-> row.why, market |-> row.market,
         proposed |-> row.proposed, sentinel_clear |-> row.sentinel_clear]

\* A chunk plan is that of its listings on one market for each card.
PlannedFor(plan, chunk, listings, seller, pct) ==
    \E market \in [chunk -> UNION {Offers(key) : key \in chunk}] :
       /\ \A key \in chunk : market[key] \in Offers(key)
       /\ plan = [i \in InChunk(chunk) |->
                     RowFor(seller, pct, listings[i], market[market_fetch_key(listings[i])])]

\* Chunks are planned in turn, for the seller and the discount found at first.
Planned ==
    /\ ChunksOK
    /\ plans = [n \in 1 .. Len(plans) |-> plans[n]]
    /\ Len(plans) \in Nat /\ Len(plans) <= Len(chunks)
    /\ owner = owner_user_id(mtg_listings)
    /\ \A n \in 1 .. Len(plans) : PlannedFor(plans[n], chunks[n], export, owner, discount)

\* The merge joins all chunk plans and judges the whole.
Judged(parts) ==
    /\ Len(parts) = Len(chunks)
    /\ result.rows = Joined(parts)
    /\ result.summary = merge_plan_summaries([n \in DOMAIN parts |-> summarize_plan_rows(parts[n])])
    /\ result.kpis = compute_plan_kpis(Joined(parts))
    /\ result.sentinel_remaining = count_sentinel_remaining(Joined(parts))
    /\ result.cards = SumFunction([p \in DOMAIN Joined(parts) |-> Joined(parts)[p].copies])
    /\ result.safety_ok =>
          LET proposed == result.summary["price_updates_proposed"]
              count == Cardinality(Priceable)
          IN  /\ proposed <= MaxProposed
              /\ count > 0 /\ MaxProposedShare < 1000 => 1000 * proposed <= MaxProposedShare * count

PipelineInv ==
    /\ export \in Exports /\ chunk_size \in ChunkSizes /\ discount \in Discounts
    /\ stage \in {"prepare", "plan", "done", "failed"}
    /\ stage = "prepare" => plans = <<>>
    /\ stage \in {"plan", "done"} => Planned
    /\ stage = "done" => Judged(plans)

-------------------------------------------------------------------------------
(***************************************************************************)
(* The steps                                                               *)
(***************************************************************************)

LEMMA Appends ==
    ASSUME NEW s, Len(s) \in Nat, s = [n \in 1 .. Len(s) |-> s[n]], NEW e
    PROVE  LET t == Append(s, e)
           IN  /\ Len(t) = Len(s) + 1 /\ t = [n \in 1 .. Len(t) |-> t[n]]
               /\ \A n \in 1 .. Len(s) : t[n] = s[n]
               /\ t[Len(s) + 1] = e
<1> DEFINE S == {s[n] : n \in 1 .. Len(s)} \cup {e}
<1>1. s \in [1 .. Len(s) -> S]
    OBVIOUS
<1>2. s \in Seq(S) /\ e \in S
    BY <1>1
<1> HIDE DEF S
<1>3. Append(s, e) \in Seq(S) /\ Len(Append(s, e)) = Len(s) + 1
    BY <1>2
<1>4. \A n \in 1 .. Len(s) : Append(s, e)[n] = s[n]
    BY <1>2
<1>5. Append(s, e)[Len(s) + 1] = e
    BY <1>2
<1> DEFINE t == Append(s, e)
<1>6. t = [n \in 1 .. Len(t) |-> t[n]]
  <2> HIDE DEF t
  <2>1. t \in Seq(S)
      BY <1>3 DEF t
  <2> QED BY <2>1
<1> QED BY <1>3, <1>4, <1>5, <1>6

LEMMA InitPipeline == Init => PipelineInv
BY DEF Init, PipelineInv

LEMMA PrepareStep == ASSUME PipelineInv, Prepare PROVE PipelineInv'
<1>1. /\ stage = "prepare" /\ stage' = "plan" /\ plans = <<>>
      /\ UNCHANGED <<export, chunk_size, discount, plans, result>>
    BY DEF Prepare, PipelineInv
<1>2. ChunksOK'
  <2>1. (export \in Exports)' /\ (chunk_size \in ChunkSizes)'
      BY <1>1 DEF PipelineInv
  <2>2. chunks' = slice_fetch_key_chunks(fetch_keys)
      BY DEF Prepare
  <2>3. fetch_keys' = fetch_keys
      BY <1>1 DEF fetch_keys, mtg_listings, Priceable, PriceableAttrsOk, market_fetch_key
  <2>4. slice_fetch_key_chunks(fetch_keys)' = slice_fetch_key_chunks(fetch_keys)
      BY <1>1, <2>3 DEF slice_fetch_key_chunks, Slice
  <2>5. (chunks = slice_fetch_key_chunks(fetch_keys))'
      BY <2>2, <2>4
  <2> QED BY <2>1, <2>5, SlicesAreOK, PTL
<1>3. owner' = owner_user_id(mtg_listings)'
    BY <1>1 DEF Prepare, owner_user_id, mtg_listings, Priceable, PriceableAttrsOk
<1>4. Len(plans') = 0 /\ plans' = [n \in 1 .. Len(plans') |-> plans'[n]]
    BY <1>1
<1>5. Len(plans') <= Len(chunks')
    BY <1>2, <1>4 DEF ChunksOK
<1>6. Planned'
    BY <1>2, <1>3, <1>4, <1>5 DEF Planned
<1> QED BY <1>1, <1>6 DEF PipelineInv

\* The plans made stay what they were made for.
LEMMA PlannedStays ==
    ASSUME UNCHANGED <<export, discount, owner>>, NEW plan, NEW chunk,
           PlannedFor(plan, chunk, export, owner, discount)
    PROVE  PlannedFor(plan, chunk, export, owner, discount)'
BY DEF PlannedFor, InChunk, mtg_listings, Priceable, PriceableAttrsOk, market_fetch_key

LEMMA ChunksStay ==
    ASSUME UNCHANGED <<export, chunks>>
    PROVE  ChunksOK' = ChunksOK /\ (owner_user_id(mtg_listings)' = owner_user_id(mtg_listings))
<1>1. mtg_listings' = mtg_listings
    BY DEF mtg_listings, Priceable, PriceableAttrsOk
<1>2. Keys' = Keys
    BY <1>1 DEF Keys, market_fetch_key
<1> QED BY <1>1, <1>2 DEF ChunksOK, owner_user_id

LEMMA PlanChunkStep == ASSUME PipelineInv, PlanChunk PROVE PipelineInv'
<1>1. /\ stage = "plan" /\ Len(plans) < Len(chunks)
      /\ UNCHANGED <<export, chunk_size, discount, stage, chunks, owner, result>>
    BY DEF PlanChunk
<1>2. Planned
    BY <1>1 DEF PipelineInv
<1> DEFINE n == Len(plans)
           chunk == chunks[n + 1]
<1>3. PICK plan : /\ plans' = Append(plans, plan)
                  /\ PlannedFor(plan, chunk, export, owner, discount)
  <2>1. PICK market \in [chunk -> UNION {Offers(key) : key \in chunk}] :
            /\ \A key \in chunk : market[key] \in Offers(key)
            /\ plans' = Append(plans, [i \in InChunk(chunk) |->
                                 Row(export[i], market[market_fetch_key(export[i])])])
      BY DEF PlanChunk
  <2> DEFINE plan == [i \in InChunk(chunk) |->
                         Row(export[i], market[market_fetch_key(export[i])])]
  <2>2. \A listing, offers : Row(listing, offers) = RowFor(owner, discount, listing, offers)
      BY DEF Row, RowFor
  <2>3. plan = [i \in InChunk(chunk) |->
                   RowFor(owner, discount, export[i], market[market_fetch_key(export[i])])]
      BY <2>2
  <2>4. PlannedFor(plan, chunk, export, owner, discount)
      BY <2>1, <2>3 DEF PlannedFor
  <2> QED BY <2>1, <2>4
<1>4. /\ Len(plans') = n + 1 /\ plans' = [m \in 1 .. Len(plans') |-> plans'[m]]
      /\ \A m \in 1 .. n : plans'[m] = plans[m]
      /\ plans'[n + 1] = plan /\ n \in Nat
    BY <1>2, <1>3, Appends DEF Planned
<1>5. ASSUME NEW m \in 1 .. n + 1
      PROVE  PlannedFor(plans[m], chunks[m], export, owner, discount)'
  <2> DEFINE made == plans'[m]
             cut == chunks[m]
  <2>1. PlannedFor(made, cut, export, owner, discount)
    <3>1. CASE m = n + 1
        BY <1>3, <1>4, <3>1
    <3>2. CASE m # n + 1
      <4>1. m \in 1 .. n
          BY <1>4, <3>2
      <4> QED BY <1>2, <1>4, <4>1 DEF Planned
    <3> QED BY <3>1, <3>2
  <2>2. PICK p, c : p = plans'[m] /\ c = chunks[m]
      OBVIOUS
  <2>3. PlannedFor(p, c, export, owner, discount)'
      BY <1>1, <2>1, <2>2, PlannedStays
  <2>4. p = plans'[m] /\ c = chunks'[m]
      BY <1>1, <2>2
  <2> QED BY <2>3, <2>4 DEF PlannedFor
<1>6. ChunksOK' /\ owner' = owner_user_id(mtg_listings)' /\ Len(chunks) \in Nat
    BY <1>1, <1>2, ChunksStay DEF Planned, ChunksOK
<1>7. Len(plans') \in Nat /\ Len(plans') <= Len(chunks')
    BY <1>1, <1>4, <1>6
<1>8. Planned'
    BY <1>4, <1>5, <1>6, <1>7 DEF Planned
<1> QED BY <1>1, <1>8 DEF PipelineInv

LEMMA PlannedKept ==
    ASSUME Planned, UNCHANGED <<export, discount, chunks, owner, plans>>
    PROVE  Planned'
<1>1. ChunksOK' /\ owner' = owner_user_id(mtg_listings)'
    BY ChunksStay DEF Planned
<1>2. ASSUME NEW n \in 1 .. Len(plans)
      PROVE  PlannedFor(plans[n], chunks[n], export, owner, discount)'
  <2>1. PICK plan, chunk : plan = plans[n] /\ chunk = chunks[n]
      OBVIOUS
  <2>2. PlannedFor(plan, chunk, export, owner, discount)
      BY <2>1 DEF Planned
  <2>3. PlannedFor(plan, chunk, export, owner, discount)'
      BY <2>2, PlannedStays
  <2>4. plan = plans'[n] /\ chunk = chunks'[n]
      BY <2>1
  <2> QED BY <2>3, <2>4 DEF PlannedFor
<1> QED BY <1>1, <1>2 DEF Planned

LEMMA MergeStep == ASSUME PipelineInv, Merge PROVE PipelineInv'
<1> DEFINE summary == merge_plan_summaries([n \in DOMAIN plans |-> summarize_plan_rows(plans[n])])
           ok == safety_check_plan(Joined(plans), summary, Cardinality(Priceable))
<1>1. /\ stage = "plan" /\ stage' = "done" /\ Len(plans) = Len(chunks)
      /\ UNCHANGED <<export, chunk_size, discount, chunks, owner, plans>>
    BY DEF Merge
<1>2. /\ result'.rows = Joined(plans) /\ result'.summary = summary /\ result'.safety_ok = ok
      /\ result'.kpis = compute_plan_kpis(Joined(plans))
      /\ result'.sentinel_remaining = count_sentinel_remaining(Joined(plans))
      /\ result'.cards = SumFunction([p \in DOMAIN Joined(plans) |-> Joined(plans)[p].copies])
    BY DEF Merge
<1>3. ok => LET proposed == summary["price_updates_proposed"]
                count == Cardinality(Priceable)
            IN  /\ proposed <= MaxProposed
                /\ count > 0 /\ MaxProposedShare < 1000 =>
                      1000 * proposed <= MaxProposedShare * count
    BY DEF safety_check_plan
<1>4. PICK parts : parts = plans
    OBVIOUS
<1>5. Priceable' = Priceable
    BY <1>1 DEF Priceable, PriceableAttrsOk
<1>6. Judged(parts)'
  <2>1. result'.rows = Joined(parts) /\ Len(parts) = Len(chunks')
      BY <1>1, <1>2, <1>4
  <2>2. result'.summary
            = merge_plan_summaries([n \in DOMAIN parts |-> summarize_plan_rows(parts[n])])
      BY <1>2, <1>4
  <2>3. result'.safety_ok =>
            LET proposed == result'.summary["price_updates_proposed"]
                count == Cardinality(Priceable')
            IN  /\ proposed <= MaxProposed
                /\ count > 0 /\ MaxProposedShare < 1000 =>
                      1000 * proposed <= MaxProposedShare * count
      BY <1>2, <1>3, <1>5
  <2>4. /\ result'.kpis = compute_plan_kpis(Joined(parts))
        /\ result'.sentinel_remaining = count_sentinel_remaining(Joined(parts))
        /\ result'.cards = SumFunction([p \in DOMAIN Joined(parts) |-> Joined(parts)[p].copies])
      BY <1>2, <1>4
  <2> QED BY <2>1, <2>2, <2>3, <2>4 DEF Judged
<1>7. Judged(plans)'
  <2>1. parts = plans'
      BY <1>1, <1>4
  <2> QED BY <1>6, <2>1 DEF Judged
<1>8. Planned'
    BY <1>1, PlannedKept DEF PipelineInv
<1> QED BY <1>1, <1>7, <1>8 DEF PipelineInv

LEMMA PipelineStep == PipelineInv /\ [Next]_vars => PipelineInv'
<1> SUFFICES ASSUME PipelineInv, [Next]_vars PROVE PipelineInv'
    OBVIOUS
<1>1. CASE Prepare
    BY <1>1, PrepareStep
<1>2. CASE ExportValidationFailed
    BY <1>2 DEF ExportValidationFailed, PipelineInv
<1>3. CASE PlanChunk
    BY <1>3, PlanChunkStep
<1>4. CASE Merge
    BY <1>4, MergeStep
<1>5. CASE UNCHANGED vars
  <2>1. UNCHANGED <<export, chunk_size, discount, stage, chunks, owner, plans, result>>
      BY <1>5 DEF vars
  <2>2. Planned => Planned'
      BY <2>1, PlannedKept
  <2>3. Priceable' = Priceable
      BY <2>1 DEF Priceable, PriceableAttrsOk
  <2>4. PICK parts : parts = plans
      OBVIOUS
  <2>5. Judged(parts) => Judged(parts)'
      BY <2>1, <2>3 DEF Judged
  <2>6. Judged(plans) => Judged(plans)'
      BY <2>1, <2>4, <2>5 DEF Judged
  <2> QED BY <2>1, <2>2, <2>6 DEF PipelineInv
<1> QED BY <1>1, <1>2, <1>3, <1>4, <1>5 DEF Next, Ended

LEMMA PipelineAlways == Spec => []PipelineInv
BY InitPipeline, PipelineStep, PTL DEF Spec

-------------------------------------------------------------------------------
(***************************************************************************)
(* The whole catalogue                                                     *)
(***************************************************************************)

\* Each listing due has one row in the merged plan, priced on a market of its
\* card's that is the same for all its listings.
LEMMA RowsAre ==
    ASSUME PipelineInv, stage = "done"
    PROVE  /\ DOMAIN result.rows
                = UNION {{n} \X DOMAIN plans[n] : n \in DOMAIN plans}
           /\ DOMAIN plans = DOMAIN chunks
           /\ \A n \in DOMAIN plans : DOMAIN plans[n] = InChunk(chunks[n])
           /\ \A n \in DOMAIN plans : \A i \in DOMAIN plans[n] :
                 <<n, i>> \in DOMAIN result.rows /\ result.rows[<<n, i>>] = plans[n][i]
<1>1. Planned /\ Judged(plans)
    BY DEF PipelineInv
<1>2. DOMAIN plans = 1 .. Len(plans) /\ DOMAIN chunks = 1 .. Len(chunks) /\ Len(plans) = Len(chunks)
    BY <1>1 DEF Planned, Judged, ChunksOK
<1>3. result.rows
        = [p \in UNION {{n} \X DOMAIN plans[n] : n \in DOMAIN plans} |-> plans[p[1]][p[2]]]
    BY <1>1 DEF Judged, Joined
<1>4. \A n \in DOMAIN plans : DOMAIN plans[n] = InChunk(chunks[n])
    BY <1>1, <1>2 DEF Planned, PlannedFor
<1>5. ASSUME NEW n \in DOMAIN plans, NEW i \in DOMAIN plans[n]
      PROVE  <<n, i>> \in DOMAIN result.rows /\ result.rows[<<n, i>>] = plans[n][i]
    BY <1>3
<1> QED BY <1>2, <1>3, <1>4, <1>5

LEMMA RowCount ==
    ASSUME PipelineInv, stage = "done"
    PROVE  /\ IsFiniteSet(DOMAIN result.rows)
           /\ Cardinality(DOMAIN result.rows) = Cardinality(mtg_listings)
<1>1. Planned /\ export \in Exports
    BY DEF PipelineInv
<1>2. ChunksOK
    BY <1>1 DEF Planned
<1> DEFINE Place(i) == CHOOSE n \in DOMAIN chunks : market_fetch_key(export[i]) \in chunks[n]
           f == [i \in mtg_listings |-> <<Place(i), i>>]
<1>3. ASSUME NEW i \in mtg_listings
      PROVE  Place(i) \in DOMAIN chunks /\ market_fetch_key(export[i]) \in chunks[Place(i)]
    BY <1>2 DEF ChunksOK, Keys
<1>4. \A i \in mtg_listings : f[i] \in DOMAIN result.rows
  <2> SUFFICES ASSUME NEW i \in mtg_listings PROVE <<Place(i), i>> \in DOMAIN result.rows
      OBVIOUS
  <2>1. Place(i) \in DOMAIN plans /\ i \in DOMAIN plans[Place(i)]
      BY <1>3, RowsAre DEF InChunk
  <2> QED BY <2>1, RowsAre
<1>5. ASSUME NEW p \in DOMAIN result.rows PROVE \E i \in mtg_listings : f[i] = p
  <2>1. PICK n \in DOMAIN plans : \E i \in DOMAIN plans[n] : p = <<n, i>>
      BY RowsAre
  <2> PICK i \in DOMAIN plans[n] : p = <<n, i>>
      BY <2>1
  <2>2. n \in DOMAIN chunks /\ i \in mtg_listings /\ market_fetch_key(export[i]) \in chunks[n]
      BY <2>1, RowsAre DEF InChunk
  <2>3. Place(i) = n
      BY <1>2, <1>3, <2>2 DEF ChunksOK
  <2> QED BY <2>1, <2>2, <2>3
<1>6. f \in [mtg_listings -> DOMAIN result.rows] /\ \A i, j \in mtg_listings : f[i] = f[j] => i = j
    BY <1>4
<1> HIDE DEF f
<1> QED BY <1>1, <1>5, <1>6, ListingsAre, SameSize

\* All listings of a card have the rows of one market.
LEMMA CardRows ==
    ASSUME PipelineInv, stage = "done", NEW key \in Keys
    PROVE  \E offers \in Offers(key) : \A i \in mtg_listings :
              market_fetch_key(export[i]) = key =>
                  RowFor(owner, discount, export[i], offers) \in Range(result.rows)
<1>1. Planned
    BY DEF PipelineInv
<1>2. PICK n \in DOMAIN chunks : key \in chunks[n]
    BY <1>1 DEF Planned, ChunksOK
<1>3. n \in DOMAIN plans
    BY RowsAre
<1>4. n \in 1 .. Len(plans)
    BY <1>1, <1>3 DEF Planned
<1>5. PICK market \in [chunks[n] -> UNION {Offers(k) : k \in chunks[n]}] :
          /\ \A k \in chunks[n] : market[k] \in Offers(k)
          /\ plans[n] = [i \in InChunk(chunks[n]) |->
                RowFor(owner, discount, export[i], market[market_fetch_key(export[i])])]
    BY <1>1, <1>4 DEF Planned, PlannedFor
<1>6. ASSUME NEW i \in mtg_listings, market_fetch_key(export[i]) = key
      PROVE  RowFor(owner, discount, export[i], market[key]) \in Range(result.rows)
  <2>1. i \in InChunk(chunks[n])
      BY <1>2, <1>6 DEF InChunk
  <2>2. plans[n][i] = RowFor(owner, discount, export[i], market[key]) /\ i \in DOMAIN plans[n]
      BY <1>5, <1>6, <2>1
  <2>3. <<n, i>> \in DOMAIN result.rows /\ result.rows[<<n, i>>] = plans[n][i]
      BY <1>3, <2>2, RowsAre
  <2> QED BY <2>2, <2>3 DEF Range
<1> QED BY <1>2, <1>5, <1>6

\* The same, for the listings due instead of their places.
LEMMA CardIsPricedOnce ==
    ASSUME PipelineInv, stage = "done", NEW l \in Due
    PROVE  \E offers \in Offers(<<l.blueprint, l.variant>>) : \A other \in Due :
              <<other.blueprint, other.variant>> = <<l.blueprint, l.variant>> =>
                  Row(other, offers) \in Range(result.rows)
<1> DEFINE key == <<l.blueprint, l.variant>>
<1>1. export \in Exports /\ Due = {export[i] : i \in mtg_listings}
    BY DueAre DEF PipelineInv
<1>2. key \in Keys
    BY <1>1 DEF Keys, market_fetch_key
<1>3. PICK offers \in Offers(key) : \A i \in mtg_listings :
          market_fetch_key(export[i]) = key =>
              RowFor(owner, discount, export[i], offers) \in Range(result.rows)
    BY <1>2, CardRows
<1>4. ASSUME NEW other \in Due, <<other.blueprint, other.variant>> = key
      PROVE  Row(other, offers) \in Range(result.rows)
  <2>1. PICK i \in mtg_listings : other = export[i]
      BY <1>1
  <2>2. RowFor(owner, discount, export[i], offers) \in Range(result.rows)
      BY <1>3, <1>4, <2>1 DEF market_fetch_key
  <2>3. Row(other, offers) = RowFor(owner, discount, export[i], offers)
      BY <2>1 DEF Row, RowFor
  <2> QED BY <2>2, <2>3
<1> QED BY <1>3, <1>4

\* For any export, chunk size, discount and market, the merged plan is that of
\* the whole catalogue: a row for each listing due and no other, all listings of
\* one card priced on one market (chunk planning and its merge).
THEOREM WholeCatalogue == Spec => []PlanIsThePricedCatalogue
<1>1. PipelineInv => PlanIsThePricedCatalogue
  <2> SUFFICES ASSUME PipelineInv, stage = "done"
               PROVE  PlanIsThePricedCatalogue
      BY DEF PlanIsThePricedCatalogue
  <2>1. Cardinality(DOMAIN result.rows) = Cardinality(Due)
      BY RowCount, DueCount DEF PipelineInv
  <2>2. ASSUME NEW card \in {<<l.blueprint, l.variant>> : l \in Due}
        PROVE  \E offers \in Offers(card) : \A l \in Due :
                  <<l.blueprint, l.variant>> = card => Row(l, offers) \in Range(result.rows)
      BY CardIsPricedOnce
  <2> QED BY <2>1, <2>2 DEF PlanIsThePricedCatalogue
<1> QED BY <1>1, PipelineAlways, PTL

-------------------------------------------------------------------------------
(***************************************************************************)
(* The seller's own listings                                               *)
(***************************************************************************)

\* Offers of the owner's do not change the row of any listing.
LEMMA OwnOffersIgnored ==
    ASSUME NEW listing, NEW offers
    PROVE  Row(listing, {o \in offers : o.seller # owner}) = Row(listing, offers)
<1> DEFINE others == {o \in offers : o.seller # owner}
           input == [id |-> listing.id, group |-> <<listing.variant, listing.bucket>>,
                     floor |-> listing.floor, price |-> listing.price]
<1> HIDE DEF input
<1>1. {o \in others : IsComparable(o, input, owner)} = {o \in offers : IsComparable(o, input, owner)}
    BY DEF IsComparable
<1>2. comparable_prices(others, input, owner) = comparable_prices(offers, input, owner)
    BY <1>1 DEF comparable_prices
<1>3. price_listing(input, others, discount, owner) = price_listing(input, offers, discount, owner)
    BY <1>2 DEF price_listing
<1> QED BY <1>3 DEF Row, input

\* Whoever the listings due name, if anyone, is the owner found for every chunk.
LEMMA OwnerIsSeller ==
    ASSUME export \in Exports, owner = owner_user_id(mtg_listings),
           NEW l \in Due, l.user # None
    PROVE  owner = l.user
<1> DEFINE named == {i \in mtg_listings : export[i].user # None}
<1>1. PICK i \in mtg_listings : l = export[i]
    BY DueAre
<1>2. i \in named /\ named \in SUBSET Nat
    BY <1>1, ListingsAre
<1>3. PICK first \in named : \A k \in named : first <= k
    BY <1>2, SmallestOf
<1>4. Min(named) \in named
  <2>1. Min(named) = CHOOSE x \in named : \A y \in named : x <= y
      BY DEF Min
  <2> HIDE DEF named, Min
  <2> QED BY <1>3, <2>1
<1>5. owner = export[Min(named)].user
    BY <1>2 DEF owner_user_id
<1>6. i \in DOMAIN export /\ Min(named) \in DOMAIN export /\ export[Min(named)].user # None
    BY <1>1, <1>4, ListingsAre
<1> QED BY <1>1, <1>5, <1>6, OneSellerAssumption

\* The seller's other listings of a card are no competitors of any of its rows,
\* whichever chunk they are in and whichever listing names the seller.
THEOREM OwnListingsIgnored == Spec => []OwnListingsNeverCompete
<1>1. PipelineInv => OwnListingsNeverCompete
  <2> SUFFICES ASSUME PipelineInv, stage = "done", NEW seller \in {l.user : l \in Due} \ {None}, NEW l \in Due
               PROVE  \E offers \in Offers(market_fetch_key(l)) :
                         Row(l, {o \in offers : o.seller # seller}) \in Range(result.rows)
      BY DEF OwnListingsNeverCompete
  <2>1. owner = owner_user_id(mtg_listings) /\ export \in Exports
      BY DEF PipelineInv, Planned
  <2>2. seller = owner
      BY <2>1, OwnerIsSeller
  <2>3. PICK offers \in Offers(<<l.blueprint, l.variant>>) : Row(l, offers) \in Range(result.rows)
      BY CardIsPricedOnce
  <2>4. Row(l, {o \in offers : o.seller # seller}) \in Range(result.rows)
      BY <2>2, <2>3, OwnOffersIgnored
  <2> QED BY <2>3, <2>4 DEF market_fetch_key
<1> QED BY <1>1, PipelineAlways, PTL

-------------------------------------------------------------------------------
(***************************************************************************)
(* The summary                                                             *)
(***************************************************************************)

\* The counters after the first 0 to m chunk summaries.
Merged(parts, m, t) ==
    t = [n \in 0 .. m |->
            [c \in Counters |-> IF n = 0 THEN 0 ELSE t[n - 1][c] + parts[n][c]]]

\* They can be computed one after another.
LEMMA MergedExist ==
    ASSUME NEW parts, NEW len \in Nat
    PROVE  \E t : Merged(parts, len, t)
<1> DEFINE S == {m \in Nat : \E t : Merged(parts, m, t)}
           First(t, n) == [c \in Counters |-> IF n = 0 THEN 0 ELSE t[n - 1][c] + parts[n][c]]
<1>1. 0 \in S
  <2>1. Merged(parts, 0, [n \in 0 .. 0 |-> [c \in Counters |-> 0]])
      BY DEF Merged
  <2> QED BY <2>1
<1>2. ASSUME NEW m \in Nat, m \in S PROVE m + 1 \in S
  <2>1. PICK t : Merged(parts, m, t)
      BY <1>2
  <2> DEFINE next == [c \in Counters |-> t[m][c] + parts[m + 1][c]]
             u == [n \in 0 .. m + 1 |-> IF n = m + 1 THEN next ELSE t[n]]
  <2>2. u[m + 1] = next /\ \A n \in 0 .. m : u[n] = t[n]
      OBVIOUS
  <2>3. u = [n \in 0 .. m + 1 |-> u[n]]
      OBVIOUS
  <2>4. \A n \in 0 .. m : t[n] = First(t, n)
      BY <2>1 DEF Merged
  <2> HIDE DEF u
  <2>5. ASSUME NEW n \in 0 .. m + 1 PROVE u[n] = First(u, n)
    <3>1. CASE n = m + 1
      <4>1. n # 0 /\ n - 1 = m /\ u[m] = t[m]
          BY <2>2, <3>1
      <4> QED BY <2>2, <3>1, <4>1
    <3>2. CASE n # m + 1
      <4>1. n \in 0 .. m /\ (n # 0 => n - 1 \in 0 .. m)
          BY <3>2
      <4>2. u[n] = t[n] /\ (n # 0 => u[n - 1] = t[n - 1])
          BY <2>2, <4>1
      <4> QED BY <2>4, <4>1, <4>2
    <3> QED BY <3>1, <3>2
  <2>6. Merged(parts, m + 1, u)
      BY <2>3, <2>5 DEF Merged
  <2> QED BY <2>6
<1> HIDE DEF S
<1>3. S \in SUBSET Nat
    BY DEF S
<1>4. len \in S
    BY <1>1, <1>2, <1>3, CountUp
<1> QED BY <1>4 DEF S

\* The merged counters are those after the last chunk.
LEMMA MergedAre ==
    ASSUME NEW parts, Len(parts) \in Nat
    PROVE  \E t :
              /\ merge_plan_summaries(parts) = t[Len(parts)]
              /\ \A c \in Counters : t[0][c] = 0
              /\ \A n \in 1 .. Len(parts) : \A c \in Counters :
                    t[n][c] = t[n - 1][c] + parts[n][c]
<1> DEFINE len == Len(parts)
           t == CHOOSE u : Merged(parts, len, u)
<1>1. merge_plan_summaries(parts) = t[len]
    BY DEF merge_plan_summaries, Merged
<1>2. Merged(parts, len, t)
    BY MergedExist
<1> HIDE DEF t
<1>3. \A n \in 0 .. len :
          t[n] = [c \in Counters |-> IF n = 0 THEN 0 ELSE t[n - 1][c] + parts[n][c]]
    BY <1>2 DEF Merged
<1>4. \A c \in Counters : t[0][c] = 0
  <2>1. 0 \in 0 .. len
      OBVIOUS
  <2>2. t[0] = [c \in Counters |-> 0]
      BY <1>3, <2>1
  <2> QED BY <2>2
<1>5. ASSUME NEW n \in 1 .. len, NEW c \in Counters
      PROVE  t[n][c] = t[n - 1][c] + parts[n][c]
  <2>1. n # 0 /\ n \in 0 .. len
      OBVIOUS
  <2> QED BY <1>3, <2>1
<1> QED BY <1>1, <1>4, <1>5

\* The rows of the plan, and of its first m chunks, that counter c counts.
Counted(c) == {p \in DOMAIN result.rows : c \in CountedBy(result.rows[p])}
CountedUpTo(m, c) == {p \in Counted(c) : p[1] <= m}

\* The places in chunk n of its rows that counter c counts.
CountedIn(n, c) == {i \in DOMAIN plans[n] : c \in CountedBy(plans[n][i])}

LEMMA NextChunkCounted ==
    ASSUME PipelineInv, stage = "done", NEW m \in Nat, m < Len(plans), NEW c
    PROVE  /\ IsFiniteSet(CountedUpTo(m, c))
           /\ Cardinality(CountedUpTo(m + 1, c))
                = Cardinality(CountedUpTo(m, c)) + Cardinality(CountedIn(m + 1, c))
<1>1. Planned
    BY DEF PipelineInv
<1>2. DOMAIN plans = 1 .. Len(plans) /\ Len(plans) \in Nat /\ m + 1 \in DOMAIN plans
    BY <1>1 DEF Planned
<1> DEFINE new == {m + 1} \X CountedIn(m + 1, c)
           f == [i \in CountedIn(m + 1, c) |-> <<m + 1, i>>]
<1>3. \A p \in DOMAIN result.rows :
          \E n \in DOMAIN plans : \E i \in DOMAIN plans[n] :
             p = <<n, i>> /\ result.rows[p] = plans[n][i]
  <2> SUFFICES ASSUME NEW p \in DOMAIN result.rows
               PROVE  \E n \in DOMAIN plans : \E i \in DOMAIN plans[n] :
                         p = <<n, i>> /\ result.rows[p] = plans[n][i]
      OBVIOUS
  <2>1. PICK n \in DOMAIN plans : \E i \in DOMAIN plans[n] : p = <<n, i>>
      BY RowsAre
  <2>2. PICK i \in DOMAIN plans[n] : p = <<n, i>>
      BY <2>1
  <2> QED BY <2>1, <2>2, RowsAre
<1>4. CountedUpTo(m + 1, c) = CountedUpTo(m, c) \cup new
  <2>1. ASSUME NEW p \in CountedUpTo(m + 1, c) PROVE p \in CountedUpTo(m, c) \cup new
    <3>1. p \in DOMAIN result.rows /\ c \in CountedBy(result.rows[p]) /\ p[1] <= m + 1
        BY DEF CountedUpTo, Counted
    <3>2. PICK n \in DOMAIN plans : \E i \in DOMAIN plans[n] :
              p = <<n, i>> /\ result.rows[p] = plans[n][i]
        BY <1>3, <3>1
    <3>3. PICK i \in DOMAIN plans[n] : p = <<n, i>> /\ result.rows[p] = plans[n][i]
        BY <3>2
    <3>4. n \in Nat /\ n <= m + 1 /\ p[1] = n
        BY <1>2, <3>1, <3>3
    <3>5. CASE n = m + 1
        BY <3>1, <3>3, <3>5 DEF CountedIn
    <3>6. CASE n # m + 1
      <4>1. p[1] <= m
          BY <3>4, <3>6
      <4> QED BY <3>1, <4>1 DEF CountedUpTo, Counted
    <3> QED BY <3>5, <3>6
  <2>2. ASSUME NEW p \in CountedUpTo(m, c) PROVE p \in CountedUpTo(m + 1, c)
    <3>1. PICK n \in DOMAIN plans : \E i \in DOMAIN plans[n] :
              p = <<n, i>> /\ result.rows[p] = plans[n][i]
        BY <1>3 DEF CountedUpTo, Counted
    <3>2. p[1] = n /\ n \in Nat
        BY <1>2, <3>1
    <3>3. p[1] <= m + 1
        BY <3>2 DEF CountedUpTo
    <3> QED BY <3>3 DEF CountedUpTo
  <2>3. ASSUME NEW p \in new PROVE p \in CountedUpTo(m + 1, c)
    <3>1. PICK i \in CountedIn(m + 1, c) : p = <<m + 1, i>>
        OBVIOUS
    <3>2. i \in DOMAIN plans[m + 1] /\ c \in CountedBy(plans[m + 1][i])
        BY DEF CountedIn
    <3>3. p \in DOMAIN result.rows /\ result.rows[p] = plans[m + 1][i]
        BY <1>2, <3>1, <3>2, RowsAre
    <3>4. p[1] = m + 1 /\ m + 1 <= m + 1
        BY <3>1
    <3> QED BY <3>2, <3>3, <3>4 DEF CountedUpTo, Counted
  <2> QED BY <2>1, <2>2, <2>3
<1>5. CountedUpTo(m, c) \cap new = {}
  <2> SUFFICES ASSUME NEW p, p \in CountedUpTo(m, c), p \in new PROVE FALSE
      OBVIOUS
  <2>1. p[1] <= m /\ p[1] = m + 1
      BY DEF CountedUpTo
  <2> QED BY <2>1
<1>6. \A k : IsFiniteSet(CountedUpTo(k, c))
  <2> SUFFICES ASSUME NEW k PROVE IsFiniteSet(CountedUpTo(k, c))
      OBVIOUS
  <2>1. CountedUpTo(k, c) \subseteq DOMAIN result.rows
      BY DEF CountedUpTo, Counted
  <2> QED BY <2>1, RowCount, FS_Subset
<1>7. IsFiniteSet(CountedIn(m + 1, c))
  <2>1. CountedIn(m + 1, c) \subseteq mtg_listings
      BY <1>2, RowsAre DEF CountedIn, InChunk
  <2> QED BY <2>1, ListingsAre, FS_Subset DEF PipelineInv
<1>8. IsFiniteSet(new) /\ Cardinality(new) = Cardinality(CountedIn(m + 1, c))
  <2>1. /\ f \in [CountedIn(m + 1, c) -> new]
        /\ \A x, y \in CountedIn(m + 1, c) : f[x] = f[y] => x = y
        /\ \A p \in new : \E x \in CountedIn(m + 1, c) : f[x] = p
      OBVIOUS
  <2> HIDE DEF f, new
  <2> QED BY <1>7, <2>1, SameSize, ZenonT(20)
<1> HIDE DEF new
<1>9. Cardinality(CountedUpTo(m + 1, c))
        = Cardinality(CountedUpTo(m, c)) + Cardinality(new)
          - Cardinality(CountedUpTo(m, c) \cap new)
    BY <1>4, <1>6, <1>8, FS_Union
<1>10. Cardinality(CountedUpTo(m, c)) \in Nat /\ Cardinality(new) \in Nat
    BY <1>6, <1>8, FS_CardinalityType
<1>11. Cardinality(CountedUpTo(m, c) \cap new) = 0
    BY <1>5, FS_EmptySet
<1> QED BY <1>6, <1>8, <1>9, <1>10, <1>11

\* The merged summary counts each row that adds to a counter once.
LEMMA SummaryCounts ==
    ASSUME PipelineInv, stage = "done", NEW c \in Counters
    PROVE  result.summary[c] = Cardinality(Counted(c))
<1> DEFINE parts == [n \in DOMAIN plans |-> summarize_plan_rows(plans[n])]
           len == Len(plans)
<1>1. Planned /\ result.summary = merge_plan_summaries(parts)
    BY DEF PipelineInv, Judged
<1>2. DOMAIN plans = 1 .. len /\ len \in Nat
    BY <1>1 DEF Planned
<1>3. Len(parts) = len
    BY <1>2
<1>4. \A n \in 1 .. len : parts[n][c] = Cardinality(CountedIn(n, c))
    BY <1>2 DEF summarize_plan_rows, CountedIn
<1> HIDE DEF parts, len
<1>5. PICK t :
          /\ merge_plan_summaries(parts) = t[len]
          /\ \A k \in Counters : t[0][k] = 0
          /\ \A n \in 1 .. len : \A k \in Counters : t[n][k] = t[n - 1][k] + parts[n][k]
  <2>1. Len(parts) \in Nat
      BY <1>2, <1>3
  <2>2. PICK t :
            /\ merge_plan_summaries(parts) = t[Len(parts)]
            /\ \A k \in Counters : t[0][k] = 0
            /\ \A n \in 1 .. Len(parts) : \A k \in Counters : t[n][k] = t[n - 1][k] + parts[n][k]
      BY <2>1, MergedAre, Zenon
  <2> QED BY <1>3, <2>2, Zenon
<1> DEFINE S == {m \in Nat : t[m][c] = Cardinality(CountedUpTo(m, c))}
<1>6. 0 \in S
  <2>1. CountedUpTo(0, c) = {}
    <3> SUFFICES ASSUME NEW p \in CountedUpTo(0, c) PROVE FALSE
        OBVIOUS
    <3>1. p \in DOMAIN result.rows /\ p[1] <= 0
        BY DEF CountedUpTo, Counted
    <3>2. PICK n \in DOMAIN plans : \E i \in DOMAIN plans[n] : p = <<n, i>>
        BY <3>1, RowsAre
    <3>3. p[1] \in 1 .. len
        BY <1>2, <3>2
    <3> QED BY <1>2, <3>1, <3>3
  <2> QED BY <1>5, <2>1, FS_EmptySet
<1>7. ASSUME NEW m \in Nat, m < len, m \in S PROVE m + 1 \in S
  <2>1. m + 1 \in 1 .. len /\ (m + 1) - 1 = m
      BY <1>2, <1>7
  <2>2. t[m + 1][c] = t[m][c] + Cardinality(CountedIn(m + 1, c))
      BY <1>4, <1>5, <2>1
  <2>3. t[m][c] = Cardinality(CountedUpTo(m, c))
      BY <1>7
  <2>4. Cardinality(CountedUpTo(m + 1, c))
          = Cardinality(CountedUpTo(m, c)) + Cardinality(CountedIn(m + 1, c))
      BY <1>7, NextChunkCounted DEF len
  <2> QED BY <2>2, <2>3, <2>4
<1>8. len \in S
  <2>1. S \in SUBSET Nat
      OBVIOUS
  <2> HIDE DEF S
  <2> QED BY <1>2, <1>6, <1>7, <2>1, CountUp
<1>9. CountedUpTo(len, c) = Counted(c)
  <2> SUFFICES ASSUME NEW p \in Counted(c) PROVE p[1] <= len
      BY DEF CountedUpTo
  <2>1. PICK n \in DOMAIN plans : \E i \in DOMAIN plans[n] : p = <<n, i>>
      BY RowsAre DEF Counted
  <2>2. p[1] \in 1 .. len
      BY <1>2, <2>1
  <2> QED BY <1>2, <2>2
<1> QED BY <1>1, <1>5, <1>8, <1>9

\* Why a row leaves its listing alone: all but one of these have a counter.
Reasons == {"no_change", "dead_band", "insufficient_comps", "wide_spread", "missing_market"}

LEMMA RowsHaveReasons ==
    ASSUME NEW seller, NEW pct, NEW listing, NEW offers
    PROVE  LET row == RowFor(seller, pct, listing, offers)
           IN  row.action = "UPDATE" \/ row.why \in Reasons
<1> DEFINE Fine(row) == row.action = "UPDATE" \/ row.why \in Reasons
<1>1. ASSUME NEW input, NEW action, NEW why \in Reasons
      PROVE  Fine(NoUpdate(input, action, why))
    BY DEF NoUpdate
<1>2. ASSUME NEW input, NEW market PROVE Fine(PricedRow(input, market))
    BY DEF PricedRow, Reasons
<1>3. ASSUME NEW input PROVE Fine(price_listing(input, offers, pct, seller))
    BY <1>1, <1>2 DEF price_listing, Reasons
<1> QED BY <1>3 DEF RowFor

LEMMA PlannedHaveReasons ==
    ASSUME PipelineInv, stage = "done", NEW p \in DOMAIN result.rows
    PROVE  result.rows[p].action = "UPDATE" \/ result.rows[p].why \in Reasons
<1>1. Planned
    BY DEF PipelineInv
<1>2. PICK n \in DOMAIN plans : \E i \in DOMAIN plans[n] : p = <<n, i>>
    BY RowsAre
<1>3. PICK i \in DOMAIN plans[n] : p = <<n, i>>
    BY <1>2
<1>4. n \in 1 .. Len(plans)
    BY <1>1 DEF Planned
<1>5. \E offers : plans[n][i] = RowFor(owner, discount, export[i], offers)
    BY <1>1, <1>3, <1>4 DEF Planned, PlannedFor
<1>6. plans[n][i].action = "UPDATE" \/ plans[n][i].why \in Reasons
    BY <1>5, RowsHaveReasons
<1> QED BY <1>3, <1>6, RowsAre

\* Two sets that do not meet have their sizes' sum.
LEMMA SizesAdd ==
    ASSUME NEW S, NEW T, IsFiniteSet(S), IsFiniteSet(T), S \cap T = {}
    PROVE  /\ IsFiniteSet(S \cup T)
           /\ Cardinality(S \cup T) = Cardinality(S) + Cardinality(T)
           /\ Cardinality(S) \in Nat /\ Cardinality(T) \in Nat
<1>1. IsFiniteSet(S \cup T)
      /\ Cardinality(S \cup T) = Cardinality(S) + Cardinality(T) - Cardinality(S \cap T)
    BY FS_Union
<1>2. Cardinality(S \cap T) = 0
    BY FS_EmptySet
<1>3. Cardinality(S) \in Nat /\ Cardinality(T) \in Nat
    BY FS_CardinalityType
<1> QED BY <1>1, <1>2, <1>3

\* The whole plan is counted, each row once, and the gate that found it safe
\* judged the number of updates in all of it (merging and safety_check_plan).
THEOREM WholePlanIsGated == Spec => []GateSeesWholePlan
<1>1. PipelineInv => GateSeesWholePlan
  <2> SUFFICES ASSUME PipelineInv, stage = "done" PROVE GateSeesWholePlan
      BY DEF GateSeesWholePlan
  <2> DEFINE rows == result.rows
             places == DOMAIN rows
             updates == {i \in places : rows[i].action = "UPDATE"}
             In(c) == Counted(c)
  <2>1. \A c \in Counters : result.summary[c] = Cardinality(Counted(c))
      BY SummaryCounts
  <2>2. IsFiniteSet(places) /\ Cardinality(places) = Cardinality(mtg_listings)
      BY RowCount
  <2>3. \A p \in places : rows[p].action = "UPDATE" \/ rows[p].why \in Reasons
      BY PlannedHaveReasons
  <2>4. Counted("cards_processed") = places
      BY DEF Counted, CountedBy
  <2>5. Counted("price_updates_proposed") = updates
      BY <2>3 DEF Counted, CountedBy, Counters, Reasons
  <2>6. \A c \in {"no_change", "dead_band", "insufficient_comps", "wide_spread"} :
            Counted(c) = {p \in places : rows[p].action # "UPDATE" /\ rows[p].why = c}
      BY DEF Counted, CountedBy, Counters
  <2>7. Counted("skipped_other")
          = {p \in places : rows[p].action # "UPDATE" /\ rows[p].why = "missing_market"}
      BY <2>3 DEF Counted, CountedBy, Counters, Reasons
  <2>8. \A c : IsFiniteSet(Counted(c))
    <3>1. \A c : Counted(c) \subseteq places
        BY DEF Counted
    <3> QED BY <2>2, <3>1, FS_Subset
  <2> DEFINE Sum == Cardinality(Counted("price_updates_proposed"))
                    + Cardinality(Counted("no_change")) + Cardinality(Counted("dead_band"))
                    + Cardinality(Counted("insufficient_comps"))
                    + Cardinality(Counted("wide_spread")) + Cardinality(Counted("skipped_other"))
             A1 == Counted("price_updates_proposed")
             A2 == Counted("no_change")
             A3 == Counted("dead_band")
             A4 == Counted("insufficient_comps")
             A5 == Counted("wide_spread")
             A6 == Counted("skipped_other")
  <2>9. places = ((((A1 \cup A2) \cup A3) \cup A4) \cup A5) \cup A6
      BY <2>3, <2>5, <2>6, <2>7 DEF Reasons
  <2>10. /\ A1 \cap A2 = {} /\ (A1 \cup A2) \cap A3 = {} /\ ((A1 \cup A2) \cup A3) \cap A4 = {}
         /\ (((A1 \cup A2) \cup A3) \cup A4) \cap A5 = {}
         /\ ((((A1 \cup A2) \cup A3) \cup A4) \cup A5) \cap A6 = {}
      BY <2>5, <2>6, <2>7
  <2>11. Cardinality(places) = Sum
    <3>1. /\ IsFiniteSet(A1) /\ IsFiniteSet(A2) /\ IsFiniteSet(A3)
          /\ IsFiniteSet(A4) /\ IsFiniteSet(A5) /\ IsFiniteSet(A6)
        BY <2>8
    <3> HIDE DEF A1, A2, A3, A4, A5, A6
    <3> DEFINE B2 == A1 \cup A2
               B3 == B2 \cup A3
               B4 == B3 \cup A4
               B5 == B4 \cup A5
    <3>2. IsFiniteSet(B2) /\ Cardinality(B2) = Cardinality(A1) + Cardinality(A2)
        BY <2>10, <3>1, SizesAdd
    <3>3. IsFiniteSet(B3) /\ Cardinality(B3) = Cardinality(B2) + Cardinality(A3)
        BY <2>10, <3>1, <3>2, SizesAdd
    <3>4. IsFiniteSet(B4) /\ Cardinality(B4) = Cardinality(B3) + Cardinality(A4)
        BY <2>10, <3>1, <3>3, SizesAdd
    <3>5. IsFiniteSet(B5) /\ Cardinality(B5) = Cardinality(B4) + Cardinality(A5)
        BY <2>10, <3>1, <3>4, SizesAdd
    <3>6. Cardinality(places) = Cardinality(B5) + Cardinality(A6)
        BY <2>9, <2>10, <3>1, <3>5, SizesAdd
    <3>7. Cardinality(places) = Cardinality(A1) + Cardinality(A2) + Cardinality(A3)
                                  + Cardinality(A4) + Cardinality(A5) + Cardinality(A6)
        BY <3>2, <3>3, <3>4, <3>5, <3>6
    <3> QED BY <3>7 DEF A1, A2, A3, A4, A5, A6
  <2>12. /\ result.summary["cards_processed"] = Cardinality(places)
         /\ result.summary["price_updates_proposed"] = Cardinality(updates)
         /\ Sum = result.summary["price_updates_proposed"] + result.summary["no_change"]
                    + result.summary["dead_band"] + result.summary["insufficient_comps"]
                    + result.summary["wide_spread"] + result.summary["skipped_other"]
      BY <2>1, <2>4, <2>5 DEF Counters
  <2>13. ASSUME result.safety_ok
         PROVE  /\ Cardinality(updates) <= MaxProposed
                /\ 1000 * Cardinality(updates) <= MaxProposedShare * Cardinality(Priceable)
    <3> DEFINE proposed == Cardinality(updates)
               count == Cardinality(Priceable)
    <3>1. /\ proposed <= MaxProposed
          /\ count > 0 /\ MaxProposedShare < 1000 => 1000 * proposed <= MaxProposedShare * count
        BY <2>12, <2>13 DEF PipelineInv, Judged
    <3>2. proposed \in Nat /\ count \in Nat /\ proposed <= count
      <4>1. proposed <= Cardinality(places) /\ proposed \in Nat /\ Cardinality(places) \in Nat
          BY <2>2, FS_Subset, FS_CardinalityType
      <4>2. Cardinality(mtg_listings) <= count /\ count \in Nat /\ Cardinality(mtg_listings) \in Nat
          BY ListingsAre, FS_Subset, FS_CardinalityType DEF PipelineInv
      <4> HIDE DEF proposed, count
      <4> QED BY <2>2, <4>1, <4>2
    <3>3. MaxProposedShare \in Nat
        BY PipelineAssumption
    <3> HIDE DEF proposed, count
    <3>4. CASE MaxProposedShare >= 1000
      <4>1. 1000 * count <= MaxProposedShare * count /\ MaxProposedShare * count \in Nat
          BY <3>2, <3>3, <3>4, ProductsGrow
      <4>2. 1000 * proposed <= 1000 * count /\ 1000 * proposed \in Nat /\ 1000 * count \in Nat
          BY <3>2
      <4> DEFINE share == MaxProposedShare * count
      <4>3. share \in Nat /\ 1000 * count <= share
          BY <4>1
      <4> HIDE DEF share
      <4>4. 1000 * proposed <= share
          BY <3>2, <4>2, <4>3
      <4> QED BY <3>1, <4>4 DEF share, proposed, count
    <3>5. CASE count = 0
      <4>1. proposed = 0 /\ 1000 * proposed = 0 /\ MaxProposedShare * count = 0
          BY <3>2, <3>3, <3>5
      <4> QED BY <3>1, <4>1 DEF proposed, count
    <3>6. CASE MaxProposedShare < 1000 /\ count > 0
        BY <3>1, <3>6 DEF proposed, count
    <3> QED BY <3>2, <3>3, <3>4, <3>5, <3>6
  <2> QED BY <2>11, <2>12, <2>13 DEF GateSeesWholePlan
<1> QED BY <1>1, PipelineAlways, PTL
-------------------------------------------------------------------------------
(***************************************************************************)
(* Sums                                                                    *)
(***************************************************************************)

Pick(T) == CHOOSE x \in T : TRUE
Smaller(T) == T \ {Pick(T)}

\* What the sum of v over T is, when t has the sums over smaller sets.
SumBy(v, t, T) == IF T = {} THEN 0 ELSE v[Pick(T)] + t[Smaller(T)]

\* t has the sums of v over the subsets of S.
HasSums(t, v, S) == \A T \in SUBSET S : t[T] = SumBy(v, t, T)

Upto(S, n) == {T \in SUBSET S : Cardinality(T) <= n}

LEMMA PickedOut ==
    ASSUME NEW S, IsFiniteSet(S), NEW T \in SUBSET S, T # {}
    PROVE  /\ Pick(T) \in T /\ Smaller(T) \in SUBSET S
           /\ Cardinality(T) \in Nat /\ Cardinality(Smaller(T)) \in Nat
           /\ Cardinality(T) = Cardinality(Smaller(T)) + 1
<1>1. Pick(T) \in T
    BY DEF Pick
<1>2. IsFiniteSet(T)
    BY FS_Subset
<1>3. Cardinality(T \ {Pick(T)}) = Cardinality(T) - 1 /\ IsFiniteSet(T \ {Pick(T)})
    BY <1>1, <1>2, FS_RemoveElement
<1>4. Cardinality(T) \in Nat /\ Cardinality(T \ {Pick(T)}) \in Nat
    BY <1>2, <1>3, FS_CardinalityType
<1> QED BY <1>1, <1>3, <1>4 DEF Smaller

\* The sums over all subsets can be computed from the smaller to the larger.
LEMMA SumsExist ==
    ASSUME NEW v, NEW S, IsFiniteSet(S)
    PROVE  \E t : t = [T \in SUBSET S |-> SumBy(v, t, T)]
<1> DEFINE Done(n) == \E t : t = [T \in Upto(S, n) |-> SumBy(v, t, T)]
           N == {n \in Nat : Done(n)}
<1>1. ASSUME NEW T \in SUBSET S PROVE Cardinality(T) \in Nat /\ Cardinality(T) <= Cardinality(S)
    BY FS_Subset, FS_CardinalityType
<1>2. Cardinality(S) \in Nat
    BY FS_CardinalityType
<1>3. Done(0)
  <2> DEFINE t == [T \in Upto(S, 0) |-> 0]
  <2>1. \A T \in Upto(S, 0) : T = {}
    <3> SUFFICES ASSUME NEW T \in Upto(S, 0) PROVE T = {}
        OBVIOUS
    <3>1. T \in SUBSET S /\ Cardinality(T) = 0
        BY <1>1 DEF Upto
    <3>2. IsFiniteSet(T)
        BY <3>1, FS_Subset
    <3> QED BY <3>1, <3>2, FS_EmptySet
  <2>2. t = [T \in Upto(S, 0) |-> SumBy(v, t, T)]
      BY <2>1 DEF SumBy
  <2> QED BY <2>2
<1>4. ASSUME NEW n \in Nat, Done(n) PROVE Done(n + 1)
  <2>1. PICK t : t = [T \in Upto(S, n) |-> SumBy(v, t, T)]
      BY <1>4
  <2> DEFINE u == [T \in Upto(S, n + 1) |-> SumBy(v, t, T)]
  <2>2. \A T \in Upto(S, n) : t[T] = SumBy(v, t, T)
      BY <2>1
  <2>3. \A T \in Upto(S, n + 1) : u[T] = SumBy(v, t, T)
      OBVIOUS
  <2>4. \A T \in Upto(S, n) : T \in Upto(S, n + 1)
    <3> SUFFICES ASSUME NEW T \in Upto(S, n) PROVE T \in Upto(S, n + 1)
        OBVIOUS
    <3>1. T \in SUBSET S /\ Cardinality(T) <= n /\ Cardinality(T) \in Nat
        BY <1>1 DEF Upto
    <3> QED BY <3>1 DEF Upto
  <2> HIDE DEF u
  <2>5. \A T \in Upto(S, n) : u[T] = t[T]
      BY <2>2, <2>3, <2>4
  <2>6. ASSUME NEW T \in Upto(S, n + 1) PROVE SumBy(v, t, T) = SumBy(v, u, T)
    <3>1. CASE T = {}
        BY <3>1 DEF SumBy
    <3>2. CASE T # {}
      <4>1. T \in SUBSET S /\ Cardinality(T) <= n + 1
          BY DEF Upto
      <4>2. Smaller(T) \in SUBSET S /\ Cardinality(Smaller(T)) <= n
          BY <3>2, <4>1, PickedOut
      <4>3. Smaller(T) \in Upto(S, n)
          BY <4>2 DEF Upto
      <4> QED BY <2>5, <4>3 DEF SumBy
    <3> QED BY <3>1, <3>2
  <2>7. u = [T \in Upto(S, n + 1) |-> SumBy(v, u, T)]
      BY <2>6 DEF u
  <2> QED BY <2>7
<1> HIDE DEF Done
<1>5. Cardinality(S) \in N
  <2>1. N \in SUBSET Nat /\ 0 \in N /\ \A m \in Nat : m < Cardinality(S) /\ m \in N => m + 1 \in N
      BY <1>3, <1>4
  <2> HIDE DEF N
  <2> QED BY <1>2, <2>1, CountUp
<1>6. Upto(S, Cardinality(S)) = SUBSET S
    BY <1>1 DEF Upto
<1> QED BY <1>5, <1>6 DEF Done

\* Sums over subsets of two sets are the same function of the subset.
LEMMA SumsAgree ==
    ASSUME NEW v, NEW S, IsFiniteSet(S), NEW A \in SUBSET S,
           NEW t, HasSums(t, v, S), NEW u, HasSums(u, v, A)
    PROVE  \A T \in SUBSET A : u[T] = t[T]
<1> DEFINE Agree(n) == \A T \in SUBSET A : Cardinality(T) <= n => u[T] = t[T]
           N == {n \in Nat : Agree(n)}
<1>1. IsFiniteSet(A)
    BY FS_Subset
<1>2. \A T \in SUBSET A : u[T] = SumBy(v, u, T) /\ t[T] = SumBy(v, t, T)
    BY DEF HasSums
<1>3. \A T \in SUBSET A : IsFiniteSet(T) /\ Cardinality(T) \in Nat /\ (Cardinality(T) = 0 => T = {})
    BY <1>1, FS_Subset, FS_CardinalityType, FS_EmptySet
<1>4. Agree(0)
  <2> SUFFICES ASSUME NEW T \in SUBSET A, Cardinality(T) <= 0 PROVE u[T] = t[T]
      OBVIOUS
  <2>1. T = {}
      BY <1>3
  <2> QED BY <1>2, <2>1 DEF SumBy
<1>5. ASSUME NEW n \in Nat, Agree(n) PROVE Agree(n + 1)
  <2> SUFFICES ASSUME NEW T \in SUBSET A, Cardinality(T) <= n + 1 PROVE u[T] = t[T]
      OBVIOUS
  <2>1. CASE T = {}
      BY <1>2, <2>1 DEF SumBy
  <2>2. CASE T # {}
    <3>1. Smaller(T) \in SUBSET A /\ Cardinality(Smaller(T)) <= n
        BY <1>1, <2>2, PickedOut
    <3>2. u[Smaller(T)] = t[Smaller(T)]
        BY <1>5, <3>1
    <3> QED BY <1>2, <3>2 DEF SumBy
  <2> QED BY <2>1, <2>2
<1> HIDE DEF Agree
<1>6. ASSUME NEW T \in SUBSET A PROVE Agree(Cardinality(T))
  <2>1. Cardinality(T) \in Nat
      BY <1>3
  <2>2. N \in SUBSET Nat /\ 0 \in N /\ \A m \in Nat : m < Cardinality(T) /\ m \in N => m + 1 \in N
      BY <1>4, <1>5
  <2> HIDE DEF N
  <2>3. Cardinality(T) \in N
      BY <2>1, <2>2, CountUp
  <2> QED BY <2>3 DEF N
<1>7. ASSUME NEW T \in SUBSET A PROVE u[T] = t[T]
  <2>1. Agree(Cardinality(T)) /\ Cardinality(T) <= Cardinality(T)
      BY <1>3, <1>6
  <2> QED BY <2>1 DEF Agree
<1> QED BY <1>7

\* The sum is the picked value and the sum of the others.
LEMMA SumPicked ==
    ASSUME NEW v, NEW S, IsFiniteSet(S)
    PROVE  /\ SumFunctionOnSet(v, {}) = 0
           /\ \A T \in SUBSET S : T # {} =>
                 SumFunctionOnSet(v, T) = v[Pick(T)] + SumFunctionOnSet(v, Smaller(T))
<1> DEFINE Sums(A) == CHOOSE t : t = [T \in SUBSET A |-> SumBy(v, t, T)]
<1>1. \A A : SumFunctionOnSet(v, A) = Sums(A)[A]
    BY DEF SumFunctionOnSet, FoldFunctionOnSet, MapThenFoldSet, SumBy, Pick, Smaller
<1>2. ASSUME NEW A, IsFiniteSet(A) PROVE Sums(A) = [T \in SUBSET A |-> SumBy(v, Sums(A), T)]
    BY <1>2, SumsExist
<1> HIDE DEF Sums
<1>3. ASSUME NEW T \in SUBSET S PROVE IsFiniteSet(T) /\ Sums(T)[T] = Sums(S)[T]
  <2>1. IsFiniteSet(T)
      BY FS_Subset
  <2> DEFINE one == Sums(T)
             all == Sums(S)
  <2>2. HasSums(one, v, T) /\ HasSums(all, v, S)
      BY <1>2, <2>1 DEF HasSums
  <2> HIDE DEF one, all
  <2>3. \A U \in SUBSET T : one[U] = all[U]
      BY <2>2, SumsAgree
  <2>4. one[T] = all[T]
      BY <2>3
  <2> QED BY <2>1, <2>4 DEF one, all
<1>4. ASSUME NEW T \in SUBSET S PROVE Sums(S)[T] = SumBy(v, Sums(S), T)
    BY <1>2
<1>5. SumFunctionOnSet(v, {}) = 0
    BY <1>1, <1>3, <1>4 DEF SumBy
<1>6. ASSUME NEW T \in SUBSET S, T # {}
      PROVE  SumFunctionOnSet(v, T) = v[Pick(T)] + SumFunctionOnSet(v, Smaller(T))
  <2>1. Smaller(T) \in SUBSET S
      BY <1>6, PickedOut
  <2> QED BY <1>1, <1>3, <1>4, <1>6, <2>1 DEF SumBy
<1> QED BY <1>5, <1>6

\* Induction over the subsets of S: P is the set of those with the property.
LEMMA OneByOne ==
    ASSUME NEW S, IsFiniteSet(S), NEW P,
           \A T \in SUBSET S : (\A x \in T : T \ {x} \in P) => T \in P
    PROVE  S \in P
<1> DEFINE Good(n) == \A T \in SUBSET S : Cardinality(T) <= n => T \in P
           N == {n \in Nat : Good(n)}
<1>1. \A T \in SUBSET S : IsFiniteSet(T) /\ Cardinality(T) \in Nat /\ (Cardinality(T) = 0 => T = {})
    BY FS_Subset, FS_CardinalityType, FS_EmptySet
<1>2. Good(0)
  <2> SUFFICES ASSUME NEW T \in SUBSET S, Cardinality(T) <= 0 PROVE T \in P
      OBVIOUS
  <2>1. T = {}
      BY <1>1
  <2> QED BY <2>1
<1>3. ASSUME NEW n \in Nat, Good(n) PROVE Good(n + 1)
  <2> SUFFICES ASSUME NEW T \in SUBSET S, Cardinality(T) <= n + 1 PROVE T \in P
      OBVIOUS
  <2>1. ASSUME NEW x \in T PROVE T \ {x} \in P
    <3>1. Cardinality(T \ {x}) = Cardinality(T) - 1
        BY <1>1, FS_RemoveElement
    <3>2. T \ {x} \in SUBSET S /\ Cardinality(T) \in Nat
        BY <1>1
    <3>3. Cardinality(T \ {x}) <= n
        BY <3>1, <3>2
    <3> QED BY <1>3, <3>2, <3>3
  <2> QED BY <2>1
<1> HIDE DEF Good
<1>4. Cardinality(S) \in Nat
    BY <1>1
<1>5. N \in SUBSET Nat /\ 0 \in N /\ \A m \in Nat : m < Cardinality(S) /\ m \in N => m + 1 \in N
    BY <1>2, <1>3
<1> HIDE DEF N
<1>6. Cardinality(S) \in N
    BY <1>4, <1>5, CountUp
<1>7. Good(Cardinality(S)) /\ Cardinality(S) <= Cardinality(S)
    BY <1>4, <1>6 DEF N
<1> QED BY <1>7 DEF Good

\* Any value can be taken out of a sum first.
LEMMA SumTakeOut ==
    ASSUME NEW v, NEW S, IsFiniteSet(S), \A x \in S : v[x] \in Nat
    PROVE  /\ SumFunctionOnSet(v, {}) = 0
           /\ SumFunctionOnSet(v, S) \in Nat
           /\ \A x \in S : /\ SumFunctionOnSet(v, S \ {x}) \in Nat
                           /\ SumFunctionOnSet(v, S) = v[x] + SumFunctionOnSet(v, S \ {x})
<1> DEFINE Sum(T) == SumFunctionOnSet(v, T)
           Good(T) == /\ Sum(T) \in Nat
                      /\ \A x \in T : Sum(T \ {x}) \in Nat /\ Sum(T) = v[x] + Sum(T \ {x})
           Goods == {T \in SUBSET S : Good(T)}
<1>1. Sum({}) = 0 /\ \A T \in SUBSET S : T # {} => Sum(T) = v[Pick(T)] + Sum(T \ {Pick(T)})
    BY SumPicked DEF Smaller
<1> HIDE DEF Sum
<1>2. ASSUME NEW T \in SUBSET S, \A x \in T : Good(T \ {x}) PROVE Good(T)
  <2> DEFINE y == Pick(T)
  <2>1. CASE T = {}
      BY <1>1, <2>1
  <2>2. CASE T # {}
    <3>1. y \in T /\ y \in S /\ v[y] \in Nat
        BY <2>2 DEF Pick
    <3>2. Sum(T) = v[y] + Sum(T \ {y}) /\ Sum(T \ {y}) \in Nat
        BY <1>1, <1>2, <2>2, <3>1
    <3> HIDE DEF y
    <3>3. ASSUME NEW x \in T, x # y PROVE Sum(T) = v[x] + Sum(T \ {x})
      <4> DEFINE rest == T \ {x, y}
      <4>1. (T \ {y}) \ {x} = rest /\ (T \ {x}) \ {y} = rest
          OBVIOUS
      <4>2. Sum(T \ {y}) = v[x] + Sum(rest) /\ Sum(rest) \in Nat
          BY <1>2, <3>1, <3>3, <4>1
      <4>3. Sum(T \ {x}) = v[y] + Sum(rest)
          BY <1>2, <3>1, <3>3, <4>1
      <4>4. v[x] \in Nat
          OBVIOUS
      <4> HIDE DEF rest, Good
      <4> QED BY <3>1, <3>2, <4>2, <4>3, <4>4
    <3>4. \A x \in T : Sum(T \ {x}) \in Nat
        BY <1>2
    <3>5. Sum(T) \in Nat
        BY <3>1, <3>2
    <3> QED BY <3>2, <3>3, <3>4, <3>5
  <2> QED BY <2>1, <2>2
<1> HIDE DEF Good
<1>3. S \in Goods
  <2>1. \A T \in SUBSET S : (\A x \in T : T \ {x} \in Goods) => T \in Goods
      BY <1>2
  <2> HIDE DEF Goods
  <2> QED BY <2>1, OneByOne
<1> QED BY <1>1, <1>3 DEF Good, Sum

\* Each value of one sum has its own, no smaller, in the other.
LEMMA SumAtMost ==
    ASSUME NEW v, NEW S, IsFiniteSet(S), \A x \in S : v[x] \in Nat,
           NEW w, NEW T, IsFiniteSet(T), \A y \in T : w[y] \in Nat,
           NEW f,
           \A x \in S : v[x] > 0 => f[x] \in T /\ v[x] <= w[f[x]],
           \A x, y \in S : v[x] > 0 /\ v[y] > 0 /\ f[x] = f[y] => x = y
    PROVE  SumFunctionOnSet(v, S) <= SumFunctionOnSet(w, T)
<1> DEFINE SumV(A) == SumFunctionOnSet(v, A)
           SumW(B) == SumFunctionOnSet(w, B)
           Good(A) == \A B \in SUBSET T : (\A x \in A : v[x] > 0 => f[x] \in B) => SumV(A) <= SumW(B)
           Goods == {A \in SUBSET S : Good(A)}
<1>1. ASSUME NEW A \in SUBSET S
      PROVE  /\ SumV({}) = 0 /\ SumV(A) \in Nat
             /\ \A x \in A : SumV(A \ {x}) \in Nat /\ SumV(A) = v[x] + SumV(A \ {x})
  <2>1. IsFiniteSet(A) /\ \A x \in A : v[x] \in Nat
      BY FS_Subset
  <2> QED BY <2>1, SumTakeOut
<1>2. ASSUME NEW B \in SUBSET T
      PROVE  /\ SumW(B) \in Nat
             /\ \A y \in B : SumW(B \ {y}) \in Nat /\ SumW(B) = w[y] + SumW(B \ {y})
  <2>1. IsFiniteSet(B) /\ \A y \in B : w[y] \in Nat
      BY FS_Subset
  <2> QED BY <2>1, SumTakeOut
<1> HIDE DEF SumV, SumW
<1>3. ASSUME NEW A \in SUBSET S, \A x \in A : Good(A \ {x}) PROVE Good(A)
  <2> SUFFICES ASSUME NEW B \in SUBSET T, \A x \in A : v[x] > 0 => f[x] \in B
               PROVE  SumV(A) <= SumW(B)
      OBVIOUS
  <2>1. CASE A = {}
      BY <1>1, <1>2, <2>1
  <2>2. CASE A # {}
    <3>1. PICK x \in A : TRUE
        BY <2>2
    <3>2. v[x] \in Nat /\ SumV(A \ {x}) \in Nat /\ SumV(A) = v[x] + SumV(A \ {x}) /\ SumW(B) \in Nat
        BY <1>1, <1>2
    <3>3. CASE v[x] = 0
      <4>1. SumV(A \ {x}) <= SumW(B)
          BY <1>3
      <4> QED BY <3>2, <3>3, <4>1
    <3>4. CASE v[x] > 0
      <4>1. f[x] \in B /\ v[x] <= w[f[x]] /\ w[f[x]] \in Nat
          BY <3>4
      <4>2. SumW(B \ {f[x]}) \in Nat /\ SumW(B) = w[f[x]] + SumW(B \ {f[x]})
          BY <1>2, <4>1
      <4>3. SumV(A \ {x}) <= SumW(B \ {f[x]})
        <5>1. \A y \in A \ {x} : v[y] > 0 => f[y] \in B \ {f[x]}
            BY <3>4
        <5>2. B \ {f[x]} \in SUBSET T
            OBVIOUS
        <5> QED BY <1>3, <5>1, <5>2
      <4> HIDE DEF Good
      <4> QED BY <3>2, <4>1, <4>2, <4>3
    <3> QED BY <3>2, <3>3, <3>4
  <2> QED BY <2>1, <2>2
<1> HIDE DEF Good
<1>4. S \in Goods
  <2>1. \A A \in SUBSET S : (\A x \in A : A \ {x} \in Goods) => A \in Goods
      BY <1>3
  <2> HIDE DEF Goods
  <2> QED BY <2>1, OneByOne
<1>5. Good(S)
    BY <1>4
<1> QED BY <1>5 DEF Good, SumV, SumW

\* Sums of the same values are the same.
LEMMA SumSame ==
    ASSUME NEW S, IsFiniteSet(S), NEW T, IsFiniteSet(T), NEW v, NEW w, NEW f \in [S -> T],
           \A y \in T : w[y] \in Nat, \A x \in S : v[x] = w[f[x]],
           \A x, y \in S : f[x] = f[y] => x = y, \A y \in T : \E x \in S : f[x] = y
    PROVE  SumFunctionOnSet(v, S) = SumFunctionOnSet(w, T)
<1> DEFINE h == [y \in T |-> CHOOSE x \in S : f[x] = y]
<1>1. \A y \in T : h[y] \in S /\ f[h[y]] = y
    OBVIOUS
<1> HIDE DEF h
<1>2. \A x \in S : v[x] \in Nat /\ f[x] \in T /\ v[x] <= w[f[x]]
    OBVIOUS
<1>3. \A y \in T : h[y] \in S /\ w[y] <= v[h[y]]
    BY <1>1
<1>4. \A y, z \in T : h[y] = h[z] => y = z
    BY <1>1
<1>5. SumFunctionOnSet(v, S) <= SumFunctionOnSet(w, T)
    BY <1>2, SumAtMost
<1>6. SumFunctionOnSet(w, T) <= SumFunctionOnSet(v, S)
    BY <1>2, <1>3, <1>4, SumAtMost
<1>7. SumFunctionOnSet(v, S) \in Nat /\ SumFunctionOnSet(w, T) \in Nat
    BY <1>2, SumTakeOut
<1> QED BY <1>5, <1>6, <1>7

LEMMA SumsOfEquals ==
    ASSUME NEW S, IsFiniteSet(S), NEW v, NEW w, \A x \in S : v[x] = w[x] /\ w[x] \in Nat
    PROVE  SumFunctionOnSet(v, S) = SumFunctionOnSet(w, S)
<1> DEFINE f == [x \in S |-> x]
<1>1. /\ f \in [S -> S] /\ \A y \in S : w[y] \in Nat
      /\ \A x \in S : v[x] = w[f[x]]
      /\ \A x, y \in S : f[x] = f[y] => x = y
      /\ \A y \in S : \E x \in S : f[x] = y
    OBVIOUS
<1> HIDE DEF f
<1> QED BY <1>1, SumSame

\* The sum over the members of A and that over the others are the whole.
Splits(v, S, A) ==
    /\ SumFunctionOnSet(v, S \cap A) \in Nat /\ SumFunctionOnSet(v, S \ A) \in Nat
    /\ SumFunctionOnSet(v, S) = SumFunctionOnSet(v, S \cap A) + SumFunctionOnSet(v, S \ A)

LEMMA SumSplit ==
    ASSUME NEW v, NEW S, NEW A, IsFiniteSet(S), \A x \in S : v[x] \in Nat
    PROVE  Splits(v, S, A)
<1> DEFINE Sum(T) == SumFunctionOnSet(v, T)
           Good(T) == Sum(T) = Sum(T \cap A) + Sum(T \ A)
           Goods == {T \in SUBSET S : Good(T)}
<1>1. ASSUME NEW T \in SUBSET S
      PROVE  /\ Sum({}) = 0 /\ Sum(T) \in Nat
             /\ \A x \in T : Sum(T \ {x}) \in Nat /\ Sum(T) = v[x] + Sum(T \ {x})
  <2>1. IsFiniteSet(T) /\ \A x \in T : v[x] \in Nat
      BY FS_Subset
  <2> QED BY <2>1, SumTakeOut
<1> HIDE DEF Sum
<1>2. ASSUME NEW T \in SUBSET S, \A x \in T : Good(T \ {x}) PROVE Good(T)
  <2> DEFINE in == T \cap A
             out == T \ A
  <2>1. in \in SUBSET S /\ out \in SUBSET S
      OBVIOUS
  <2>2. CASE T = {}
    <3>1. in = {} /\ out = {} /\ Sum({}) = 0
        BY <1>1, <2>2
    <3> QED BY <2>2, <3>1
  <2>3. CASE T # {}
    <3>1. PICK x \in T : TRUE
        BY <2>3
    <3>2. /\ Sum(T) = v[x] + Sum(T \ {x}) /\ v[x] \in Nat
          /\ Sum(T \ {x}) = Sum((T \ {x}) \cap A) + Sum((T \ {x}) \ A)
        BY <1>1, <1>2
    <3>3. CASE x \in A
      <4>1. (T \ {x}) \cap A = in \ {x} /\ (T \ {x}) \ A = out /\ x \in in
          BY <3>1, <3>3
      <4>2. Sum(in) = v[x] + Sum(in \ {x}) /\ Sum(in \ {x}) \in Nat /\ Sum(out) \in Nat
          BY <1>1, <2>1, <4>1
      <4> HIDE DEF in, out
      <4>3. Sum(T) = Sum(in) + Sum(out)
          BY <3>2, <4>1, <4>2
      <4> QED BY <4>3 DEF in, out
    <3>4. CASE x \notin A
      <4>1. (T \ {x}) \cap A = in /\ (T \ {x}) \ A = out \ {x} /\ x \in out
          BY <3>1, <3>4
      <4>2. Sum(out) = v[x] + Sum(out \ {x}) /\ Sum(out \ {x}) \in Nat /\ Sum(in) \in Nat
          BY <1>1, <2>1, <4>1
      <4> HIDE DEF in, out
      <4>3. Sum(T) = Sum(in) + Sum(out)
          BY <3>2, <4>1, <4>2
      <4> QED BY <4>3 DEF in, out
    <3> QED BY <3>3, <3>4
  <2> QED BY <2>2, <2>3
<1>3. S \in Goods
  <2> HIDE DEF Good
  <2>1. \A T \in SUBSET S : (\A x \in T : T \ {x} \in Goods) => T \in Goods
      BY <1>2
  <2> HIDE DEF Goods
  <2> QED BY <2>1, OneByOne
<1>4. S \cap A \in SUBSET S /\ S \ A \in SUBSET S
    OBVIOUS
<1> QED BY <1>1, <1>3, <1>4 DEF Sum, Splits

-------------------------------------------------------------------------------
(***************************************************************************)
(* The reports                                                             *)
(***************************************************************************)

\* The listing that a place of the merged plan is for.
ListingAt(p) == export[p[2]]

\* The places of the merged plan and the listings due are in one-to-one
\* relation.
LEMMA RowsAtPlaces ==
    ASSUME PipelineInv, stage = "done"
    PROVE  /\ \A p \in DOMAIN result.rows :
                 /\ p[2] \in mtg_listings /\ ListingAt(p) \in Due
                 /\ \E offers \in Offers(market_fetch_key(ListingAt(p))) :
                       result.rows[p] = RowFor(owner, discount, ListingAt(p), offers)
           /\ \A p, q \in DOMAIN result.rows : p[2] = q[2] => p = q
           /\ \A l \in Due : \E p \in DOMAIN result.rows : ListingAt(p) = l
<1>1. Planned /\ ChunksOK /\ export \in Exports
    BY DEF PipelineInv, Planned
<1>2. ASSUME NEW p \in DOMAIN result.rows
      PROVE  \E n \in DOMAIN plans : \E i \in DOMAIN plans[n] :
                p = <<n, i>> /\ result.rows[p] = plans[n][i]
  <2>1. PICK n \in DOMAIN plans : \E i \in DOMAIN plans[n] : p = <<n, i>>
      BY RowsAre
  <2>2. PICK i \in DOMAIN plans[n] : p = <<n, i>>
      BY <2>1
  <2>3. result.rows[<<n, i>>] = plans[n][i]
      BY RowsAre
  <2> QED BY <2>2, <2>3
<1>3. ASSUME NEW n \in DOMAIN plans, NEW i \in DOMAIN plans[n]
      PROVE  /\ n \in DOMAIN chunks /\ i \in mtg_listings
             /\ market_fetch_key(export[i]) \in chunks[n]
    BY RowsAre DEF InChunk
<1>4. ASSUME NEW p \in DOMAIN result.rows
      PROVE  /\ p[2] \in mtg_listings /\ ListingAt(p) \in Due
             /\ \E offers \in Offers(market_fetch_key(ListingAt(p))) :
                   result.rows[p] = RowFor(owner, discount, ListingAt(p), offers)
  <2>1. PICK n \in DOMAIN plans : \E i \in DOMAIN plans[n] :
            p = <<n, i>> /\ result.rows[p] = plans[n][i]
      BY <1>2
  <2>2. PICK i \in DOMAIN plans[n] : p = <<n, i>> /\ result.rows[p] = plans[n][i]
      BY <2>1
  <2>3. p[2] = i /\ ListingAt(p) = export[i]
      BY <2>2 DEF ListingAt
  <2>4. n \in 1 .. Len(plans)
      BY <1>1 DEF Planned
  <2>5. PICK market \in [chunks[n] -> UNION {Offers(k) : k \in chunks[n]}] :
            /\ \A k \in chunks[n] : market[k] \in Offers(k)
            /\ plans[n] = [j \in InChunk(chunks[n]) |->
                  RowFor(owner, discount, export[j], market[market_fetch_key(export[j])])]
      BY <1>1, <2>4 DEF Planned, PlannedFor
  <2> DEFINE offers == market[market_fetch_key(export[i])]
  <2>6. offers \in Offers(market_fetch_key(export[i]))
      BY <1>3, <2>5
  <2>7. plans[n][i] = RowFor(owner, discount, export[i], offers)
      BY <2>5
  <2>8. export[i] \in Due
      BY <1>1, <1>3, DueAre
  <2> HIDE DEF offers
  <2> QED BY <1>3, <2>2, <2>3, <2>6, <2>7, <2>8
<1>5. ASSUME NEW p \in DOMAIN result.rows, NEW q \in DOMAIN result.rows, p[2] = q[2]
      PROVE  p = q
  <2>1. PICK n \in DOMAIN plans : \E i \in DOMAIN plans[n] : p = <<n, i>>
      BY RowsAre
  <2>2. PICK i \in DOMAIN plans[n] : p = <<n, i>>
      BY <2>1
  <2>3. PICK m \in DOMAIN plans : \E j \in DOMAIN plans[m] : q = <<m, j>>
      BY RowsAre
  <2>4. PICK j \in DOMAIN plans[m] : q = <<m, j>>
      BY <2>3
  <2>5. i = j
      BY <1>5, <2>2, <2>4
  <2>6. m = n
      BY <1>1, <1>3, <2>5 DEF ChunksOK
  <2> QED BY <2>2, <2>4, <2>5, <2>6
<1>6. ASSUME NEW l \in Due PROVE \E p \in DOMAIN result.rows : ListingAt(p) = l
  <2>1. PICK i \in mtg_listings : l = export[i]
      BY <1>1, DueAre
  <2>2. PICK n \in DOMAIN chunks : market_fetch_key(export[i]) \in chunks[n]
      BY <1>1 DEF ChunksOK, Keys
  <2>3. n \in DOMAIN plans /\ i \in DOMAIN plans[n]
      BY <2>2, RowsAre DEF InChunk
  <2>4. <<n, i>> \in DOMAIN result.rows
      BY <2>3, RowsAre
  <2> QED BY <2>1, <2>4 DEF ListingAt
<1> QED BY <1>4, <1>5, <1>6

\* What a row tells of its listing, where nobody asks the sentinel's price.
Tells(row, l) ==
    /\ row.id = l.id /\ row.copies = Copies(l) /\ Copies(l) \in Nat
    /\ row.previous = l.price /\ l.price \in Nat
    /\ row.sentinel_clear => l.price >= SENTINEL_PRICE_CENTS
    /\ row.action = "UPDATE" => row.proposed \in 1 .. SENTINEL_PRICE_CENTS - 1

LEMMA RowsTell ==
    ASSUME SentinelIsNoPrice, PipelineInv, stage = "done", NEW p \in DOMAIN result.rows
    PROVE  Tells(result.rows[p], ListingAt(p))
<1> DEFINE l == ListingAt(p)
           input == [id |-> l.id, group |-> <<l.variant, l.bucket>>, floor |-> l.floor, price |-> l.price]
           top == SENTINEL_PRICE_CENTS - 1
<1>1. PICK offers \in Offers(market_fetch_key(l)) :
          result.rows[p] = RowFor(owner, discount, l, offers)
    BY RowsAtPlaces
<1>2. export \in Exports /\ discount \in Discounts /\ l \in ToSet(export)
  <2>1. l \in Due
      BY RowsAtPlaces
  <2> QED BY <2>1 DEF PipelineInv, Due
<1>3. /\ discount \in 0 .. 100 /\ l.price \in Nat /\ l.floor \in Nat /\ l.quantity \in Nat
      /\ \A o \in offers : o.price \in Nat
      /\ IsFiniteSet(offers)
    BY <1>1, <1>2, PipelineAssumption DEF market_fetch_key
<1>4. top \in Nat /\ top >= 1 /\ SENTINEL_PRICE_CENTS \in Nat /\ top = SENTINEL_PRICE_CENTS - 1
    BY DEF SENTINEL_PRICE_CENTS
<1> HIDE DEF top, l
<1>5. /\ l.floor < SENTINEL_PRICE_CENTS /\ \A o \in offers : o.price < SENTINEL_PRICE_CENTS
      /\ Policy.sentinel_price_cents = SENTINEL_PRICE_CENTS
    BY <1>1, <1>2 DEF SentinelIsNoPrice
<1>6. /\ Priced(offers) /\ l.floor <= top /\ \A o \in offers : o.price <= top
      /\ IsSentinel(l.price) \/ l.price <= top
      /\ IsSentinel(l.price) => l.price >= SENTINEL_PRICE_CENTS
    BY <1>3, <1>4, <1>5 DEF Priced, IsSentinel
<1>7. input.price = l.price /\ input.floor = l.floor
    OBVIOUS
<1> HIDE DEF input
<1> DEFINE row == price_listing(input, offers, discount, owner)
<1>8. Says(row, input.price, top)
    BY <1>3, <1>4, <1>6, <1>7, ProposalsAreInRange
<1>9. LET r == result.rows[p]
      IN  /\ r.id = l.id /\ r.copies = Copies(l) /\ r.previous = l.price /\ r.action = row.action
          /\ r.proposed = row.proposed /\ r.sentinel_clear = row.sentinel_clear
    BY <1>1 DEF RowFor, input
<1> HIDE DEF row
<1>10. Copies(l) \in Nat
    BY <1>3, AtLeastOne DEF Copies
<1>11. Tells(result.rows[p], l)
    BY <1>3, <1>4, <1>6, <1>7, <1>8, <1>9, <1>10 DEF Says, Tells
<1> QED BY <1>11 DEF l

\* Apply leaves a listing with what its own row proposes.
LEMMA AppliedIs ==
    ASSUME SentinelIsNoPrice, PipelineInv, stage = "done", NEW p \in DOMAIN result.rows
    PROVE  AppliedPrice(ListingAt(p)) = IF result.rows[p].action = "UPDATE"
                                        THEN result.rows[p].proposed ELSE ListingAt(p).price
<1> DEFINE id == ListingAt(p).id
           own == result.rows[p]
           row == CHOOSE r \in Range(result.rows) : r.id = id
<1>1. own \in Range(result.rows) /\ own.id = id
    BY RowsTell DEF Range, Tells
<1>2. ASSUME NEW r \in Range(result.rows), r.id = id PROVE r = own
  <2>1. PICK q \in DOMAIN result.rows : r = result.rows[q]
      BY DEF Range
  <2>2. ListingAt(q).id = id
      BY <1>2, <2>1, RowsTell DEF Tells
  <2>3. export \in Exports /\ p[2] \in DOMAIN export /\ q[2] \in DOMAIN export
      BY RowsAtPlaces, ListingsAre DEF PipelineInv
  <2>4. p[2] = q[2]
      BY <2>2, <2>3, PipelineAssumption DEF ListingAt
  <2>5. p = q
      BY <2>4, RowsAtPlaces
  <2> QED BY <2>1, <2>5
<1>3. row = own
  <2> HIDE DEF own, id
  <2> QED BY <1>1, <1>2
<1>4. AppliedPrice(ListingAt(p)) = IF row.action = "UPDATE" THEN row.proposed ELSE ListingAt(p).price
    BY DEF AppliedPrice
<1> HIDE DEF row
<1> QED BY <1>3, <1>4

\* What the reports take a listing to be worth at a price.
Worth(price, listing) == Copies(listing) * UnitValue(price)

\* What a row adds to the reported values is what its listing is worth, before
\* and after its price is applied; a row that is no update adds the same twice.
RowWorth(row, l) ==
    /\ ValueBefore(row) = Worth(l.price, l) /\ ValueBefore(row) \in Nat
    /\ ValueAfter(row) = Worth(AppliedPrice(l), l) /\ ValueAfter(row) \in Nat
    /\ row.action # "UPDATE" => ValueBefore(row) = ValueAfter(row)
    /\ AppliedPrice(l) >= SENTINEL_PRICE_CENTS
          <=> /\ IsSentinelPrice(row.previous)
              /\ ~(row.action = "UPDATE" /\ ~IsSentinelPrice(row.proposed))

LEMMA RowsAreWorth ==
    ASSUME SentinelIsNoPrice, PipelineInv, stage = "done", NEW p \in DOMAIN result.rows
    PROVE  RowWorth(result.rows[p], ListingAt(p))
<1> DEFINE row == result.rows[p]
           l == ListingAt(p)
           applied == AppliedPrice(l)
<1>1. Tells(row, l)
    BY RowsTell
<1>2. applied = IF row.action = "UPDATE" THEN row.proposed ELSE l.price
    BY AppliedIs
<1>3. Policy.sentinel_price_cents = SENTINEL_PRICE_CENTS
    BY DEF SentinelIsNoPrice
<1>4. SENTINEL_PRICE_CENTS \in Nat
    BY DEF SENTINEL_PRICE_CENTS
<1> HIDE DEF row, l, applied
<1>5. ASSUME NEW price \in Nat
      PROVE  /\ Worth(price, l) = IF price >= SENTINEL_PRICE_CENTS THEN 0 ELSE row.copies * price
             /\ Worth(price, l) \in Nat
  <2>1. row.copies * price \in Nat /\ row.copies = Copies(l)
      BY <1>1, ProductIsNatural DEF Tells
  <2>2. row.copies * 0 = 0 /\ row.copies \in Nat
      BY <1>1 DEF Tells
  <2> QED BY <1>3, <2>1, <2>2 DEF Worth, UnitValue
<1>6. /\ row.previous = l.price /\ l.price \in Nat
      /\ row.sentinel_clear => l.price >= SENTINEL_PRICE_CENTS
      /\ row.action = "UPDATE" =>
            row.proposed \in Nat /\ row.proposed # 0 /\ row.proposed < SENTINEL_PRICE_CENTS
    BY <1>1, <1>4 DEF Tells
<1>7. ValueBefore(row) = Worth(l.price, l)
    BY <1>5, <1>6 DEF ValueBefore, IsSentinelPrice
<1>8. applied \in Nat
    BY <1>2, <1>6
<1>9. ValueAfter(row) = Worth(applied, l)
    BY <1>2, <1>5, <1>6, <1>8 DEF ValueAfter, IsSentinelPrice
<1>10. row.action # "UPDATE" => applied = l.price
    BY <1>2
<1>11. applied >= SENTINEL_PRICE_CENTS
          <=> /\ IsSentinelPrice(row.previous)
              /\ ~(row.action = "UPDATE" /\ ~IsSentinelPrice(row.proposed))
    BY <1>2, <1>4, <1>6, <1>8 DEF IsSentinelPrice
<1>12. Worth(l.price, l) \in Nat /\ Worth(applied, l) \in Nat
    BY <1>5, <1>6, <1>8
<1>13. RowWorth(row, l)
    BY <1>7, <1>9, <1>10, <1>11, <1>12 DEF RowWorth, applied
<1> QED BY <1>13 DEF row, l

\* Sums over the places of the plan are sums over the listings due.
LEMMA SumOverDue ==
    ASSUME PipelineInv, stage = "done", NEW v, NEW w,
           \A l \in Due : w[l] \in Nat,
           \A p \in DOMAIN result.rows : v[p] = w[ListingAt(p)]
    PROVE  SumFunctionOnSet(v, DOMAIN result.rows) = SumFunctionOnSet(w, Due)
<1> DEFINE places == DOMAIN result.rows
           f == [p \in places |-> ListingAt(p)]
<1>1. IsFiniteSet(places)
    BY RowCount
<1>2. f \in [places -> Due] /\ (\A l \in Due : \E p \in places : f[p] = l)
    BY RowsAtPlaces
<1>3. ASSUME NEW p \in places, NEW q \in places, f[p] = f[q] PROVE p = q
  <2>1. export[p[2]] = export[q[2]]
      BY <1>3 DEF ListingAt
  <2>2. export \in Exports /\ p[2] \in DOMAIN export /\ q[2] \in DOMAIN export
      BY RowsAtPlaces, ListingsAre DEF PipelineInv
  <2>3. p[2] = q[2]
      BY <2>1, <2>2, ListingsAre
  <2> QED BY <2>3, RowsAtPlaces
<1>4. \A p \in places : v[p] = w[f[p]]
    OBVIOUS
<1> HIDE DEF f, places
<1>5. IsFiniteSet(Due)
    BY <1>1, <1>2, <1>3, SameSize
<1>6. \A p, q \in places : f[p] = f[q] => p = q
    BY <1>3
<1>7. SumFunctionOnSet(v, places) = SumFunctionOnSet(w, Due)
    BY <1>1, <1>2, <1>4, <1>5, <1>6, SumSame
<1> QED BY <1>7 DEF places

\* A sum that is s on some members and u on the others, where s is nothing.
Comprises(w, S, s, u, A) ==
    SumFunctionOnSet(w, S) = SumFunctionOnSet(s, S) + SumFunctionOnSet(u, A)

LEMMA SumOfBoth ==
    ASSUME NEW S, IsFiniteSet(S), NEW A \in SUBSET S, NEW w, NEW s, NEW u,
           \A x \in S \ A : w[x] = s[x] /\ s[x] \in Nat,
           \A x \in A : s[x] = 0 /\ w[x] = u[x] /\ u[x] \in Nat
    PROVE  Comprises(w, S, s, u, A)
<1>1. IsFiniteSet(A) /\ IsFiniteSet(S \ A) /\ IsFiniteSet({}) /\ S \cap A = A
    BY FS_Subset, FS_EmptySet
<1>2. /\ \A x \in S : w[x] \in Nat /\ s[x] \in Nat
      /\ \A x \in A : u[x] \in Nat /\ s[x] \in Nat
    OBVIOUS
<1>3. Splits(w, S, A) /\ Splits(s, S, A)
    BY <1>2, SumSplit
<1>4. SumFunctionOnSet(w, S \ A) = SumFunctionOnSet(s, S \ A)
    BY <1>1, SumsOfEquals
<1>5. SumFunctionOnSet(w, A) = SumFunctionOnSet(u, A)
    BY <1>1, SumsOfEquals
<1>6. SumFunctionOnSet(s, A) = 0
  <2>1. SumFunctionOnSet(s, A) <= SumFunctionOnSet(s, {})
    <3>1. \A x \in A : ~(s[x] > 0)
        OBVIOUS
    <3> QED BY <1>1, <1>2, <3>1, SumAtMost
  <2>2. SumFunctionOnSet(s, A) \in Nat /\ SumFunctionOnSet(s, {}) = 0
      BY <1>1, <1>2, SumTakeOut
  <2> QED BY <2>1, <2>2
<1>7. /\ SumFunctionOnSet(w, S) = SumFunctionOnSet(w, A) + SumFunctionOnSet(w, S \ A)
      /\ SumFunctionOnSet(s, S) = SumFunctionOnSet(s, A) + SumFunctionOnSet(s, S \ A)
      /\ SumFunctionOnSet(w, A) \in Nat /\ SumFunctionOnSet(s, S \ A) \in Nat
    BY <1>1, <1>3 DEF Splits
<1>8. SumFunctionOnSet(w, S) = SumFunctionOnSet(s, S) + SumFunctionOnSet(u, A)
    BY <1>4, <1>5, <1>6, <1>7
<1> QED BY <1>8 DEF Comprises

\* Counting one by one.
LEMMA SumOfOnes ==
    ASSUME NEW S, IsFiniteSet(S), NEW one, \A x \in S : one[x] = 1
    PROVE  SumFunctionOnSet(one, S) = Cardinality(S)
<1> DEFINE Sum(T) == SumFunctionOnSet(one, T)
           Goods == {T \in SUBSET S : Sum(T) = Cardinality(T)}
<1>1. ASSUME NEW T \in SUBSET S
      PROVE  /\ IsFiniteSet(T) /\ Sum({}) = 0
             /\ \A x \in T : Sum(T) = 1 + Sum(T \ {x})
  <2>1. IsFiniteSet(T) /\ \A x \in T : one[x] = 1 /\ one[x] \in Nat
      BY FS_Subset
  <2> QED BY <2>1, SumTakeOut
<1> HIDE DEF Sum
<1>2. ASSUME NEW T \in SUBSET S, \A x \in T : Sum(T \ {x}) = Cardinality(T \ {x})
      PROVE  Sum(T) = Cardinality(T)
  <2>1. CASE T = {}
      BY <1>1, <2>1, FS_EmptySet
  <2>2. CASE T # {}
    <3>1. PICK x \in T : TRUE
        BY <2>2
    <3>2. Cardinality(T \ {x}) = Cardinality(T) - 1 /\ Cardinality(T) \in Nat
        BY <1>1, <3>1, FS_RemoveElement, FS_CardinalityType
    <3>3. Sum(T) = 1 + Sum(T \ {x}) /\ Sum(T \ {x}) = Cardinality(T \ {x})
        BY <1>1, <1>2, <3>1
    <3> QED BY <3>2, <3>3
  <2> QED BY <2>1, <2>2
<1>3. S \in Goods
  <2>1. \A T \in SUBSET S : (\A x \in T : T \ {x} \in Goods) => T \in Goods
      BY <1>2
  <2> HIDE DEF Goods
  <2> QED BY <2>1, OneByOne
<1> QED BY <1>3 DEF Sum

\* The listings due are what their export says, and finitely many.
LEMMA DueListings ==
    ASSUME PipelineInv, stage = "done"
    PROVE  /\ IsFiniteSet(Due) /\ SoldOut \in SUBSET Due
           /\ \A l \in Due : l.quantity \in Nat /\ l.price \in Nat
           /\ \A l \in Due : Copies(l) = IF l \in SoldOut THEN 1 ELSE l.quantity
<1>1. export \in Exports
    BY DEF PipelineInv
<1>2. IsFiniteSet(Due)
  <2> DEFINE f == [p \in DOMAIN result.rows |-> ListingAt(p)]
             places == DOMAIN result.rows
  <2>1. IsFiniteSet(places) /\ f \in [places -> Due] /\ \A l \in Due : \E p \in places : f[p] = l
      BY RowCount, RowsAtPlaces
  <2>2. ASSUME NEW p \in places, NEW q \in places, f[p] = f[q] PROVE p = q
    <3>1. export[p[2]] = export[q[2]] /\ p[2] \in DOMAIN export /\ q[2] \in DOMAIN export
        BY <1>1, <2>2, RowsAtPlaces, ListingsAre DEF ListingAt
    <3> QED BY <1>1, <3>1, ListingsAre, RowsAtPlaces
  <2> HIDE DEF f, places
  <2>3. \A p, q \in places : f[p] = f[q] => p = q
      BY <2>2
  <2> QED BY <2>1, <2>3, SameSize
<1>3. \A l \in Due : l.quantity \in Nat /\ l.price \in Nat
    BY <1>1, PipelineAssumption DEF Due
<1>4. ASSUME NEW l \in Due PROVE Copies(l) = IF l \in SoldOut THEN 1 ELSE l.quantity
  <2> DEFINE n == l.quantity
  <2>1. n \in Nat /\ (l \in SoldOut <=> n = 0)
      BY <1>3 DEF SoldOut
  <2> HIDE DEF n
  <2>2. Max({1, n}) = IF n = 0 THEN 1 ELSE n
      BY <2>1, TheLarger
  <2> QED BY <2>1, <2>2 DEF Copies, n
<1>5. SoldOut \in SUBSET Due
    BY DEF SoldOut
<1> QED BY <1>2, <1>3, <1>4, <1>5

\* One copy of each sold-out listing is what the reports have over the stock.
LEMMA WorthOfStock ==
    ASSUME PipelineInv, stage = "done", NEW prices \in [Due -> Nat]
    PROVE  SumFunction([l \in Due |-> Worth(prices[l], l)]) = StockAt(prices) + NotThereAt(prices)
<1> DEFINE w == [l \in Due |-> Worth(prices[l], l)]
           s == [l \in Due |-> l.quantity * UnitValue(prices[l])]
           u == [l \in SoldOut |-> UnitValue(prices[l])]
<1>1. /\ IsFiniteSet(Due) /\ SoldOut \in SUBSET Due
      /\ \A l \in Due : l.quantity \in Nat
      /\ \A l \in Due : Copies(l) = IF l \in SoldOut THEN 1 ELSE l.quantity
      /\ \A l \in Due : l \in SoldOut <=> l.quantity = 0
    BY DueListings DEF SoldOut
<1>2. \A l \in Due : UnitValue(prices[l]) \in Nat
    BY DEF UnitValue
<1>3. \A l \in Due \ SoldOut : w[l] = s[l] /\ s[l] \in Nat
    BY <1>1, <1>2, ProductIsNatural DEF Worth
<1>4. \A l \in SoldOut : s[l] = 0 /\ w[l] = u[l] /\ u[l] \in Nat
    BY <1>1, <1>2 DEF Worth
<1>5. /\ SumFunction(w) = SumFunctionOnSet(w, Due) /\ StockAt(prices) = SumFunctionOnSet(s, Due)
      /\ NotThereAt(prices) = SumFunctionOnSet(u, SoldOut)
    BY DEF SumFunction, StockAt, NotThereAt
<1> HIDE DEF w, s, u
<1>6. Comprises(w, Due, s, u, SoldOut)
    BY <1>1, <1>3, <1>4, SumOfBoth
<1>7. SumFunction(w) = StockAt(prices) + NotThereAt(prices)
    BY <1>5, <1>6 DEF Comprises
<1> QED BY <1>7 DEF w

LEMMA CopiesOfStock ==
    ASSUME PipelineInv, stage = "done"
    PROVE  SumFunction([l \in Due |-> Copies(l)])
              = SumFunction([l \in Due |-> l.quantity]) + Cardinality(SoldOut)
<1> DEFINE w == [l \in Due |-> Copies(l)]
           q == [l \in Due |-> l.quantity]
           one == [l \in SoldOut |-> 1]
<1>1. /\ IsFiniteSet(Due) /\ SoldOut \in SUBSET Due
      /\ \A l \in Due : l.quantity \in Nat
      /\ \A l \in Due : Copies(l) = IF l \in SoldOut THEN 1 ELSE l.quantity
      /\ \A l \in Due : l \in SoldOut <=> l.quantity = 0
    BY DueListings DEF SoldOut
<1>2. \A l \in Due \ SoldOut : w[l] = q[l] /\ q[l] \in Nat
    BY <1>1
<1>3. \A l \in SoldOut : q[l] = 0 /\ w[l] = one[l] /\ one[l] = 1
    BY <1>1
<1>4. \A l \in SoldOut : q[l] = 0 /\ w[l] = one[l] /\ one[l] \in Nat
    BY <1>3
<1>5. SumFunction(w) = SumFunctionOnSet(w, Due) /\ SumFunction(q) = SumFunctionOnSet(q, Due)
    BY DEF SumFunction
<1> HIDE DEF w, q, one
<1>6. Comprises(w, Due, q, one, SoldOut)
    BY <1>1, <1>2, <1>4, SumOfBoth
<1>7. IsFiniteSet(SoldOut) /\ \A l \in SoldOut : one[l] = 1
    BY <1>1, <1>3, FS_Subset
<1>8. SumFunctionOnSet(one, SoldOut) = Cardinality(SoldOut)
    BY <1>7, SumOfOnes
<1>9. SumFunction(w) = SumFunction(q) + Cardinality(SoldOut)
    BY <1>5, <1>6, <1>8 DEF Comprises
<1> QED BY <1>9 DEF w, q

\* Where nobody asks the sentinel's price in earnest, the reports of a plan and
\* the metrics say what the inventory is worth once it is applied, how many of
\* its listings are still priced by hand, and what the plan changes, but for the
\* copy they count of each listing that has none; for any
\* export, chunks, market, policy and discount (compute_plan_kpis and
\* count_sentinel_remaining against price_listing and apply).
THEOREM ReportsAreTrue ==
    ASSUME SentinelIsNoPrice
    PROVE  Spec => []ReportsDescribeWhatApplyLeaves
<1>1. PipelineInv => ReportsDescribeWhatApplyLeaves
  <2> SUFFICES ASSUME PipelineInv, stage = "done" PROVE ReportsDescribeWhatApplyLeaves
      BY DEF ReportsDescribeWhatApplyLeaves
  <2> DEFINE rows == result.rows
             places == DOMAIN rows
             updates == {p \in places : rows[p].action = "UPDATE"}
             vb == [p \in places |-> ValueBefore(rows[p])]
             va == [p \in places |-> ValueAfter(rows[p])]
             wb == [l \in Due |-> Worth(l.price, l)]
             wa == [l \in Due |-> Worth(AppliedPrice(l), l)]
             before == SumFunction(wb)
             after == SumFunction(wa)
  <2>1. /\ rows = Joined(plans) /\ result.kpis = compute_plan_kpis(rows)
        /\ result.sentinel_remaining = count_sentinel_remaining(rows)
        /\ result.cards = SumFunction([p \in places |-> rows[p].copies])
      BY DEF PipelineInv, Judged
  <2>2. \A p \in places : RowWorth(rows[p], ListingAt(p)) /\ ListingAt(p) \in Due
      BY RowsAreWorth, RowsAtPlaces
  <2>3. \A l \in Due : \E p \in places : ListingAt(p) = l
      BY RowsAtPlaces
  <2>4. IsFiniteSet(places)
      BY RowCount
  <2>5. /\ \A p \in places : vb[p] = wb[ListingAt(p)] /\ va[p] = wa[ListingAt(p)]
        /\ \A l \in Due : wb[l] \in Nat /\ wa[l] \in Nat
        /\ \A p \in places : vb[p] \in Nat /\ va[p] \in Nat
        /\ \A p \in places \ updates : vb[p] = va[p]
      BY <2>2, <2>3 DEF RowWorth
  <2>6. result.kpis.catalog_before = before /\ result.kpis.catalog_after = after
    <3>1. /\ result.kpis.catalog_before = SumFunctionOnSet(vb, places)
          /\ result.kpis.catalog_after = SumFunctionOnSet(va, places)
        BY <2>1 DEF compute_plan_kpis, Over, SumFunction
    <3>2. before = SumFunctionOnSet(wb, Due) /\ after = SumFunctionOnSet(wa, Due)
        BY DEF SumFunction
    <3> HIDE DEF vb, va, wb, wa, before, after
    <3>3. SumFunctionOnSet(vb, places) = SumFunctionOnSet(wb, Due)
        BY <2>5, SumOverDue
    <3>4. SumFunctionOnSet(va, places) = SumFunctionOnSet(wa, Due)
        BY <2>5, SumOverDue
    <3> QED BY <3>1, <3>2, <3>3, <3>4
  <2>7. result.kpis.changed_after - result.kpis.changed_before = after - before
    <3> DEFINE ub == [p \in updates |-> ValueBefore(rows[p])]
               ua == [p \in updates |-> ValueAfter(rows[p])]
               inBefore == SumFunctionOnSet(vb, places \cap updates)
               inAfter == SumFunctionOnSet(va, places \cap updates)
               outBefore == SumFunctionOnSet(vb, places \ updates)
               outAfter == SumFunctionOnSet(va, places \ updates)
    <3>1. /\ result.kpis.changed_before = SumFunctionOnSet(ub, updates)
          /\ result.kpis.changed_after = SumFunctionOnSet(ua, updates)
      <4>1. DOMAIN Updates(rows) = updates /\ \A p \in updates : Updates(rows)[p] = rows[p]
          BY DEF Updates, Restrict
      <4>2. /\ [p \in DOMAIN Updates(rows) |-> ValueBefore(Updates(rows)[p])] = ub
            /\ [p \in DOMAIN Updates(rows) |-> ValueAfter(Updates(rows)[p])] = ua
          BY <4>1
      <4>3. /\ Over(Updates(rows), ValueBefore) = SumFunction(ub)
            /\ Over(Updates(rows), ValueAfter) = SumFunction(ua)
          BY <4>2 DEF Over
      <4>4. SumFunction(ub) = SumFunctionOnSet(ub, updates) /\ SumFunction(ua) = SumFunctionOnSet(ua, updates)
          BY DEF SumFunction
      <4> QED BY <2>1, <4>3, <4>4 DEF compute_plan_kpis
    <3>2. /\ result.kpis.catalog_before = SumFunctionOnSet(vb, places)
          /\ result.kpis.catalog_after = SumFunctionOnSet(va, places)
        BY <2>1 DEF compute_plan_kpis, Over, SumFunction
    <3>3. IsFiniteSet(updates) /\ IsFiniteSet(places \ updates) /\ places \cap updates = updates
        BY <2>4, FS_Subset
    <3>4. \A p \in updates : ub[p] = vb[p] /\ ua[p] = va[p] /\ vb[p] \in Nat /\ va[p] \in Nat
        BY <2>5
    <3> HIDE DEF ub, ua, vb, va, places, updates
    <3>5. SumFunctionOnSet(ub, updates) = inBefore /\ SumFunctionOnSet(ua, updates) = inAfter
        BY <3>3, <3>4, SumsOfEquals
    <3>6. outBefore = outAfter
      <4>1. \A p \in places \ updates : vb[p] = va[p] /\ va[p] \in Nat
          BY <2>5
      <4> QED BY <3>3, <4>1, SumsOfEquals
    <3>7. /\ inBefore \in Nat /\ outBefore \in Nat
          /\ SumFunctionOnSet(vb, places) = inBefore + outBefore
      <4>1. IsFiniteSet(places) /\ \A p \in places : vb[p] \in Nat
          BY <2>4, <2>5
      <4>2. Splits(vb, places, updates)
          BY <4>1, SumSplit
      <4> QED BY <4>2 DEF Splits
    <3>8. /\ inAfter \in Nat /\ outAfter \in Nat
          /\ SumFunctionOnSet(va, places) = inAfter + outAfter
      <4>1. IsFiniteSet(places) /\ \A p \in places : va[p] \in Nat
          BY <2>4, <2>5
      <4>2. Splits(va, places, updates)
          BY <4>1, SumSplit
      <4> QED BY <4>2 DEF Splits
    <3> HIDE DEF inBefore, inAfter, outBefore, outAfter, before, after
    <3> QED BY <2>6, <3>1, <3>2, <3>5, <3>6, <3>7, <3>8
  <2>8. result.sentinel_remaining
          = Cardinality({l \in Due : AppliedPrice(l) >= Policy.sentinel_price_cents})
    <3> DEFINE Left(p) == /\ IsSentinelPrice(rows[p].previous)
                          /\ ~(rows[p].action = "UPDATE" /\ ~IsSentinelPrice(rows[p].proposed))
               S == {p \in places : Left(p)}
               T == {l \in Due : AppliedPrice(l) >= SENTINEL_PRICE_CENTS}
               f == [p \in S |-> ListingAt(p)]
    <3>1. \A p \in places : Left(p) <=> AppliedPrice(ListingAt(p)) >= SENTINEL_PRICE_CENTS
        BY <2>2 DEF RowWorth
    <3> HIDE DEF Left
    <3>2. f \in [S -> T] /\ \A l \in T : \E p \in S : f[p] = l
        BY <2>2, <2>3, <3>1
    <3>3. ASSUME NEW p \in S, NEW q \in S, f[p] = f[q] PROVE p = q
      <4>1. export[p[2]] = export[q[2]]
          BY <3>3 DEF ListingAt
      <4>2. export \in Exports /\ p[2] \in DOMAIN export /\ q[2] \in DOMAIN export
          BY RowsAtPlaces, ListingsAre DEF PipelineInv
      <4>3. p[2] = q[2]
          BY <4>1, <4>2, ListingsAre
      <4> QED BY <4>3, RowsAtPlaces
    <3>4. IsFiniteSet(S)
        BY <2>4, FS_Subset
    <3>5. \A p, q \in S : f[p] = f[q] => p = q
        BY <3>3
    <3>6. result.sentinel_remaining = Cardinality(S)
        BY <2>1 DEF count_sentinel_remaining, Left
    <3> HIDE DEF f, S, T
    <3>7. Cardinality(T) = Cardinality(S)
        BY <3>2, <3>4, <3>5, SameSize
    <3>8. Policy.sentinel_price_cents = SENTINEL_PRICE_CENTS
        BY DEF SentinelIsNoPrice
    <3> QED BY <3>6, <3>7, <3>8 DEF T
  <2>9. result.cards = SumFunction([l \in Due |-> l.quantity]) + Cardinality(SoldOut)
    <3> DEFINE v == [p \in places |-> rows[p].copies]
               w == [l \in Due |-> Copies(l)]
    <3>1. \A p \in places : Tells(rows[p], ListingAt(p))
        BY RowsTell
    <3>2. \A p \in places : v[p] = w[ListingAt(p)]
        BY <2>2, <3>1 DEF Tells
    <3>3. \A l \in Due : w[l] \in Nat
        BY <2>3, <3>1 DEF Tells
    <3>4. result.cards = SumFunctionOnSet(v, places) /\ SumFunction(w) = SumFunctionOnSet(w, Due)
        BY <2>1 DEF SumFunction
    <3> HIDE DEF v, w
    <3>5. SumFunctionOnSet(v, places) = SumFunctionOnSet(w, Due)
        BY <3>2, <3>3, SumOverDue
    <3>6. result.cards = SumFunction(w)
        BY <3>4, <3>5
    <3>7. result.cards = SumFunction([l \in Due |-> Copies(l)])
        BY <3>6 DEF w
    <3> QED BY <3>7, CopiesOfStock
  <2> DEFINE asked == [l \in Due |-> l.price]
             left == [l \in Due |-> AppliedPrice(l)]
  <2>10. asked \in [Due -> Nat] /\ left \in [Due -> Nat]
    <3>1. ASSUME NEW p \in places PROVE AppliedPrice(ListingAt(p)) \in Nat
      <4>1. Tells(rows[p], ListingAt(p))
          BY RowsTell
      <4>2. AppliedPrice(ListingAt(p)) = IF rows[p].action = "UPDATE"
                                         THEN rows[p].proposed ELSE ListingAt(p).price
          BY AppliedIs
      <4>3. SENTINEL_PRICE_CENTS \in Nat
          BY DEF SENTINEL_PRICE_CENTS
      <4> QED BY <4>1, <4>2, <4>3 DEF Tells
    <3>2. \A l \in Due : l.price \in Nat
        BY DueListings
    <3> QED BY <2>3, <3>1, <3>2
  <2>11. /\ before = SumFunction([l \in Due |-> Worth(asked[l], l)])
         /\ after = SumFunction([l \in Due |-> Worth(left[l], l)])
    <3>1. /\ wb = [l \in Due |-> Worth(asked[l], l)]
          /\ wa = [l \in Due |-> Worth(left[l], l)]
        OBVIOUS
    <3> QED BY <3>1
  <2> HIDE DEF before, after, asked, left
  <2>12. /\ before = StockAt(asked) + NotThereAt(asked)
         /\ after = StockAt(left) + NotThereAt(left)
      BY <2>10, <2>11, WorthOfStock
  <2> DEFINE stockBefore == StockAt(asked) + NotThereAt(asked)
             stockAfter == StockAt(left) + NotThereAt(left)
  <2>13. /\ result.kpis.catalog_before = stockBefore
         /\ result.kpis.catalog_after = stockAfter
         /\ result.kpis.changed_after - result.kpis.changed_before = stockAfter - stockBefore
      BY <2>6, <2>7, <2>12
  <2> QED BY <2>8, <2>9, <2>13 DEF ReportsDescribeWhatApplyLeaves, asked, left
<1> QED BY <1>1, PipelineAlways, PTL
=============================================================================
