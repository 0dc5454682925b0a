-------------------------- MODULE ApplyUpdatesProofs --------------------------
(***************************************************************************)
(* ApplyUpdates keeps its invariants for every plan, batch size, number of *)
(* invocations and environment.                                            *)
(***************************************************************************)
EXTENDS ApplyUpdates, FiniteSetTheorems, SequenceTheorems, TLAPS

-------------------------------------------------------------------------------
(***************************************************************************)
(* The operators                                                           *)
(***************************************************************************)

\* Induction up to n: S is the set of numbers that have the property.
LEMMA CountUp ==
    ASSUME NEW n \in Nat, NEW S \in SUBSET Nat, 0 \in S,
           \A m \in Nat : m < n /\ m \in S => m + 1 \in S
    PROVE  n \in S
  <1> DEFINE R == OpToRel(<, Nat)
             T == (0 .. n) \ S
  <1>1. IsWellFoundedOn(R, Nat)
    BY NatLessThanWellFounded
  <1>2. \A x, y \in Nat : <<y, x>> \in R <=> y < x
    BY DEF OpToRel
  <1> HIDE DEF R
  <1> SUFFICES ASSUME n \notin S PROVE FALSE
    OBVIOUS
  <1>3. T \subseteq Nat /\ T # {}
    OBVIOUS
  <1>4. PICK x \in T : \A y \in T : ~ (<<y, x>> \in R)
    BY <1>1, <1>3, WFMin
  <1>5. x \in Nat /\ x # 0 /\ x <= n
    BY <1>4
  <1>6. x - 1 \in Nat /\ x - 1 < n /\ x - 1 \in 0 .. n
    BY <1>5
  <1>7. x - 1 \in S
    <2>1. <<x - 1, x>> \in R
      BY <1>2, <1>5, <1>6
    <2>2. x - 1 \notin T
      BY <1>4, <2>1
    <2>3. QED
      BY <1>6, <2>2
  <1>8. (x - 1) + 1 \in S
    BY <1>6, <1>7
  <1>9. QED
    BY <1>4, <1>5, <1>8

\* No listing twice among the rows.
Distinct(rows) == \A p, q \in DOMAIN rows : p # q => rows[p].id # rows[q].id

\* kept is what the stale check keeps of the first n rows.
KeptOf(rows, n, kept) ==
    /\ kept \in Seq(AllRows) /\ Len(kept) <= n
    /\ \A p \in 1 .. Len(kept) :
          IsFresh(kept[p]) /\ \E m \in 1 .. n : kept[p] = rows[m]
    /\ Distinct(rows) => Distinct(kept)

\* One more row.
LEMMA KeepNext ==
    ASSUME NEW rows \in Seq(AllRows), NEW n \in Nat, n < Len(rows),
           NEW kept, KeptOf(rows, n, kept)
    PROVE  KeptOf(rows, n + 1,
                  IF IsFresh(rows[n + 1]) THEN Append(kept, rows[n + 1]) ELSE kept)
  <1>0. kept \in Seq(AllRows) /\ Len(kept) \in Nat /\ Len(kept) <= n
    BY DEF KeptOf
  <1>1. CASE ~IsFresh(rows[n + 1])
    <2>1. \A p \in 1 .. Len(kept) :
             IsFresh(kept[p]) /\ \E m \in 1 .. n + 1 : kept[p] = rows[m]
      <3> SUFFICES ASSUME NEW p \in 1 .. Len(kept)
                   PROVE  IsFresh(kept[p]) /\ \E m \in 1 .. n + 1 : kept[p] = rows[m]
        OBVIOUS
      <3>1. IsFresh(kept[p]) /\ \E m \in 1 .. n : kept[p] = rows[m]
        BY DEF KeptOf
      <3>2. 1 .. n \subseteq 1 .. n + 1
        OBVIOUS
      <3>3. QED
        BY <3>1, <3>2
    <2>2. Distinct(rows) => Distinct(kept)
      BY DEF KeptOf
    <2>3. Len(kept) <= n + 1
      BY <1>0
    <2>4. QED
      BY <1>0, <1>1, <2>1, <2>2, <2>3 DEF KeptOf
  <1>2. CASE IsFresh(rows[n + 1])
    <2> DEFINE more == Append(kept, rows[n + 1])
    <2>1. rows[n + 1] \in AllRows /\ n + 1 \in DOMAIN rows
      OBVIOUS
    <2>2. /\ more \in Seq(AllRows) /\ Len(more) = Len(kept) + 1
          /\ \A p \in 1 .. Len(kept) : more[p] = kept[p]
          /\ more[Len(kept) + 1] = rows[n + 1]
      BY <1>0, <2>1
    <2> HIDE DEF more
    <2>3. \A p \in 1 .. Len(more) :
             IsFresh(more[p]) /\ \E m \in 1 .. n + 1 : more[p] = rows[m]
      <3> SUFFICES ASSUME NEW p \in 1 .. Len(more)
                   PROVE  IsFresh(more[p]) /\ \E m \in 1 .. n + 1 : more[p] = rows[m]
        OBVIOUS
      <3>1. CASE p = Len(kept) + 1
        BY <1>2, <2>2, <3>1
      <3>2. CASE p # Len(kept) + 1
        <4>1. p \in 1 .. Len(kept)
          BY <1>0, <2>2, <3>2
        <4>2. IsFresh(kept[p]) /\ \E m \in 1 .. n : kept[p] = rows[m]
          BY <4>1 DEF KeptOf
        <4>3. 1 .. n \subseteq 1 .. n + 1
          OBVIOUS
        <4>4. PICK m \in 1 .. n : kept[p] = rows[m]
          BY <4>2
        <4>5. more[p] = kept[p] /\ m \in 1 .. n + 1
          BY <2>2, <4>1, <4>3, <4>4
        <4>6. QED
          BY <4>2, <4>4, <4>5
      <3>3. QED
        BY <3>1, <3>2
    <2>4. ASSUME Distinct(rows) PROVE Distinct(more)
      <3> SUFFICES ASSUME NEW p \in 1 .. Len(more), NEW q \in 1 .. Len(more), p < q
                   PROVE  more[p].id # more[q].id
        <4>1. DOMAIN more = 1 .. Len(more) /\ Len(more) \in Nat
          BY <2>2
        <4>2. QED
          BY <4>1 DEF Distinct
      <3>1. p \in 1 .. Len(kept)
        BY <1>0, <2>2
      <3>2. PICK m \in 1 .. n : kept[p] = rows[m]
        BY <3>1 DEF KeptOf
      <3>3. CASE q = Len(kept) + 1
        <4>1. m \in DOMAIN rows /\ m # n + 1
          OBVIOUS
        <4>2. rows[m].id # rows[n + 1].id
          BY <2>1, <2>4, <4>1 DEF Distinct
        <4>3. QED
          BY <2>2, <3>1, <3>2, <3>3, <4>2
      <3>4. CASE q # Len(kept) + 1
        <4> DEFINE len == Len(kept)
        <4>0. len \in Nat /\ DOMAIN kept = 1 .. len /\ q \in 1 .. len + 1 /\ p \in 1 .. len
          BY <1>0, <2>2, <3>1
        <4> HIDE DEF len
        <4>a. q # len + 1
          BY <3>4 DEF len
        <4>1. p \in DOMAIN kept /\ q \in DOMAIN kept
          BY <4>0, <4>a
        <4>2. Distinct(kept)
          BY <2>4 DEF KeptOf
        <4>3. kept[p].id # kept[q].id
          BY <4>1, <4>2 DEF Distinct
        <4>4. QED
          BY <1>0, <2>2, <4>1, <4>3
      <3>5. QED
        BY <3>3, <3>4
    <2>5. Len(more) <= n + 1
      BY <1>0, <2>2
    <2>6. KeptOf(rows, n + 1, more)
      BY <2>2, <2>3, <2>4, <2>5 DEF KeptOf
    <2>7. QED
      BY <1>2, <2>6 DEF more
  <1>3. QED
    BY <1>1, <1>2

\* The rows kept of each prefix, if they can be computed one after another.
Collects(rows, m, g) ==
    g = [n \in 0 .. m |-> IF n = 0 THEN <<>>
                          ELSE IF IsFresh(rows[n]) THEN Append(g[n - 1], rows[n])
                          ELSE g[n - 1]]

\* They can: the recursion of FreshRows has a solution.
LEMMA CollectsExists ==
    ASSUME NEW rows, NEW len \in Nat
    PROVE  \E g : Collects(rows, len, g)
  <1> DEFINE S == {m \in Nat : \E g : Collects(rows, m, g)}
  <1>1. 0 \in S
    <2>1. Collects(rows, 0, [n \in 0 .. 0 |-> <<>>])
      BY DEF Collects
    <2>2. QED
      BY <2>1
  <1>2. ASSUME NEW m \in Nat, m \in S PROVE m + 1 \in S
    <2>1. PICK g : Collects(rows, m, g)
      BY <1>2
    <2> DEFINE next == IF IsFresh(rows[m + 1]) THEN Append(g[m], rows[m + 1]) ELSE g[m]
               h == [n \in 0 .. m + 1 |-> IF n = m + 1 THEN next ELSE g[n]]
    <2>2. \A n \in 0 .. m : h[n] = g[n]
      OBVIOUS
    <2>3. h[m + 1] = next
      OBVIOUS
    <2>4. h = [n \in 0 .. m + 1 |-> h[n]]
      OBVIOUS
    <2>5. \A n \in 0 .. m :
            g[n] = IF n = 0 THEN <<>>
                   ELSE IF IsFresh(rows[n]) THEN Append(g[n - 1], rows[n])
                   ELSE g[n - 1]
      BY <2>1 DEF Collects
    <2> HIDE DEF h
    <2>6. ASSUME NEW n \in 0 .. m + 1
          PROVE  h[n] = IF n = 0 THEN <<>>
                        ELSE IF IsFresh(rows[n]) THEN Append(h[n - 1], rows[n])
                        ELSE h[n - 1]
      <3>1. CASE n = m + 1
        <4>1. n # 0 /\ h[n - 1] = g[m]
          BY <2>2, <3>1
        <4>2. QED
          BY <2>3, <3>1, <4>1
      <3>2. CASE n # m + 1
        <4>1. n \in 0 .. m /\ (n # 0 => n - 1 \in 0 .. m)
          BY <3>2
        <4>2. h[n] = g[n] /\ (n # 0 => h[n - 1] = g[n - 1])
          BY <2>2, <4>1
        <4>3. QED
          BY <2>5, <4>1, <4>2
      <3>3. QED
        BY <3>1, <3>2
    <2>7. Collects(rows, m + 1, h)
      BY <2>4, <2>6 DEF Collects
    <2>8. QED
      BY <2>7
  <1> HIDE DEF S
  <1>3. S \in SUBSET Nat
    BY DEF S
  <1>4. len \in S
    BY <1>1, <1>2, <1>3, CountUp
  <1>5. QED
    BY <1>4 DEF S

\* filter_stale_updates returns some of the rows it is given, all fresh, and
\* none twice.
LEMMA FreshRowsKeeps ==
    ASSUME NEW rows \in Seq(AllRows)
    PROVE  KeptOf(rows, Len(rows), FreshRows(rows))
  <1> DEFINE kept == CHOOSE g : Collects(rows, Len(rows), g)
             S == {m \in 0 .. Len(rows) : KeptOf(rows, m, kept[m])}
  <1>0. Len(rows) \in Nat
    OBVIOUS
  <1>1. FreshRows(rows) = kept[Len(rows)]
    BY DEF FreshRows, Collects
  <1>2. Collects(rows, Len(rows), kept)
    BY <1>0, CollectsExists
  <1> HIDE DEF kept
  <1>3. \A n \in 0 .. Len(rows) :
          kept[n] = IF n = 0 THEN <<>>
                    ELSE IF IsFresh(rows[n]) THEN Append(kept[n - 1], rows[n])
                    ELSE kept[n - 1]
    BY <1>2 DEF Collects
  <1>4. 0 \in S
    <2>1. kept[0] = <<>>
      BY <1>0, <1>3
    <2>2. KeptOf(rows, 0, <<>>)
      BY DEF KeptOf, Distinct
    <2>3. QED
      BY <1>0, <2>1, <2>2
  <1>5. ASSUME NEW m \in Nat, m < Len(rows), m \in S PROVE m + 1 \in S
    <2>1. m + 1 \in 0 .. Len(rows) /\ m + 1 # 0 /\ (m + 1) - 1 = m
      BY <1>0, <1>5
    <2>2. kept[m + 1] = IF IsFresh(rows[m + 1]) THEN Append(kept[m], rows[m + 1])
                        ELSE kept[m]
      BY <1>3, <2>1
    <2>3. KeptOf(rows, m, kept[m])
      BY <1>5
    <2>4. KeptOf(rows, m + 1, kept[m + 1])
      BY <1>5, <2>2, <2>3, KeepNext
    <2>5. QED
      BY <2>1, <2>4
  <1>6. S \in SUBSET Nat
    OBVIOUS
  <1>7. Len(rows) \in S
    <2> HIDE DEF S
    <2>1. QED
      BY <1>0, <1>4, <1>5, <1>6, CountUp
  <1>8. QED
    BY <1>1, <1>7
-------------------------------------------------------------------------------
(***************************************************************************)
(* The inductive invariant                                                 *)
(***************************************************************************)

Row == [id : Nat, prev : Nat, new : Nat, qty : Nat]
Listing == [price : Nat, qty : Nat]
Job == [rows : Seq(AllRows), state : {"pending", "completed", "unprocessable"},
        failed : SUBSET Ids, after : [Ids -> Nat]]
Result == [stale : Int, ok : Int, error : Int, skipped : SUBSET Ids,
           uncounted : SUBSET Ids]
AnyLog == (UNION {Logs(r) : r \in Runs}) \cup {Torn, None}
AtWork == {"poll", "mark", "write"}
Exported == {"open", "batch"} \cup AtWork
PCs == {"ready", "export", "ended"} \cup Exported

TypeInv ==
    /\ inventory \in [Ids -> Listing \cup {None}]
    /\ jobs \in Seq(Job)
    /\ store \in [Runs -> AnyLog]
    /\ pc \in [Invocations -> PCs]
    /\ run \in [Invocations -> Runs \cup {None}]
    /\ updates \in [Invocations -> Seq(AllRows)]
    /\ fresh \in [Invocations -> Seq(AllRows)]
    /\ completed \in [Invocations -> AnyLog]
    /\ index \in [Invocations -> Nat]
    /\ uuid \in [Invocations -> Nat]
    /\ result \in [Invocations -> Result]
    /\ setAtExport \in [Invocations -> [Ids -> Nat]]
    /\ setBy \in [Ids -> Nat]

\* Every job named is one that was queued; 0 names none.
Names(by, js) == \A x \in Ids : by[x] <= Len(js)

\* A job fails rows of its own.
JobOK(j) ==
    /\ jobs[j].failed \subseteq IdsOf(jobs[j].rows)
    /\ Names(jobs[j].after, jobs)

StoreOK(r) ==
    /\ store[r] \in Logs(r) \cup {Torn}
    /\ How[r] = "lambda" => store[r] \in Logs(r)

\* The rows an invocation works on: they shrink and never repeat a listing.
RowsOK(i) ==
    /\ Distinct(updates[i]) /\ Distinct(fresh[i])
    /\ Len(fresh[i]) <= Len(updates[i])
    /\ ToSet(fresh[i]) \subseteq ToSet(updates[i])

\* Before it has exported it knows nothing.
BlankOK(i) ==
    pc[i] \notin Exported =>
        /\ fresh[i] = <<>> /\ index[i] = 0 /\ result[i] = NoResult
        /\ setAtExport[i] = NothingSet

\* Which run it is at, and where.
PlaceOK(i) ==
    /\ Running(i) =>
          /\ run[i] \in Runs
          /\ completed[i] \in Logs(run[i])
          /\ index[i] * BatchSize < Len(fresh[i]) + BatchSize
    /\ pc[i] \in {"open", "write"} => How[run[i]] = "cli"
    /\ pc[i] \in AtWork => MoreBatches(i)

\* Its job holds the batch at hand, and is completed before the batch is recorded.
JobAtHand(i) ==
    /\ uuid[i] <= Len(jobs)
    /\ Names(setAtExport[i], jobs)
    /\ pc[i] \in AtWork =>
          uuid[i] # 0 /\ jobs[uuid[i]].rows = Batch(fresh[i], index[i])
    /\ pc[i] \in {"mark", "write"} => jobs[uuid[i]].state = "completed"

LocalOK(i) == RowsOK(i) /\ BlankOK(i) /\ PlaceOK(i) /\ JobAtHand(i)

ControlInv ==
    /\ TypeInv
    /\ \A j \in DOMAIN jobs : JobOK(j)
    /\ Names(setBy, jobs)
    /\ \A r \in Runs : StoreOK(r)
    /\ \A i \in Invocations : LocalOK(i)

\* A log records completed jobs.
Truthful(log, js) ==
    \A k \in DOMAIN log : log[k] # None =>
        \E j \in DOMAIN js : js[j].state = "completed" /\ IdsOf(js[j].rows) = log[k]

RecordsInv ==
    /\ ControlInv
    /\ \A r \in Runs :
          store[r] # Torn \/ How[r] = "lambda" => Truthful(store[r], jobs)
    /\ \A i \in Invocations : Running(i) => Truthful(completed[i], jobs)

\* A listing that has its price from a job has the price of the job's row.
InEffect(x) ==
    setBy[x] # 0 /\ inventory[x] # None =>
        \A p \in ToSet(jobs[setBy[x]].rows) : p.id = x => inventory[x].price = p.new

\* Where a job had set the price of a listing, the rows start from that price.
Follows(rows, by, js) ==
    \A q \in ToSet(rows) : by[q.id] # 0 =>
        \A p \in ToSet(js[by[q.id]].rows) : p.id = q.id => q.prev = p.new

ResubmissionInv ==
    /\ ControlInv
    /\ \A x \in Ids : InEffect(x)
    /\ \A i \in Invocations : Follows(fresh[i], setAtExport[i], jobs)
    /\ \A j \in DOMAIN jobs :
          Distinct(jobs[j].rows) /\ Follows(jobs[j].rows, jobs[j].after, jobs)

\* The listings of the first k batches, and how many rows they hold.
Before(rows, k) == {rows[p].id : p \in {q \in DOMAIN rows : q <= k * BatchSize}}
Reached(rows, k) == IF k * BatchSize < Len(rows) THEN k * BatchSize ELSE Len(rows)

Handled(i, x) ==
    \/ x \in result[i].skipped
    \/ \E j \in DOMAIN jobs : jobs[j].state = "completed" /\ x \in IdsOf(jobs[j].rows)

HandledInv ==
    /\ ControlInv
    /\ \A i \in Invocations : \A x \in Before(fresh[i], index[i]) : Handled(i, x)

\* The report accounts for the rows of the first k batches.
Accounts(res, rows, given, k) ==
    /\ res.stale = Len(given) - Len(rows)
    /\ res.ok + res.error + Cardinality(res.skipped) + Cardinality(res.uncounted)
          = Reached(rows, k)

\* and names no other listing than theirs.
Counts(res, rows, given, k) ==
    /\ Accounts(res, rows, given, k)
    /\ res.skipped \subseteq Before(rows, k) /\ res.uncounted \subseteq Before(rows, k)

\* The batch at hand is counted once its job is completed.
CountOK(i) ==
    /\ pc[i] \in {"open", "batch", "poll"} =>
          Counts(result[i], fresh[i], updates[i], index[i])
    /\ pc[i] \in {"mark", "write"} =>
          Counts(result[i], fresh[i], updates[i], index[i] + 1)

CountInv == ControlInv /\ \A i \in Invocations : CountOK(i)
-------------------------------------------------------------------------------
(***************************************************************************)
(* Rows and batches                                                        *)
(***************************************************************************)

\* Every row of a plan is a row.
LEMMA RowType ==
    /\ AllRows \subseteq Row
    /\ Ids \subseteq Nat
  <1>1. ASSUME NEW row \in AllRows PROVE row \in Row
    <2>1. PICK r \in Runs : row \in RowsOf(r)
      BY <1>1 DEF AllRows
    <2>2. Plan[r] \in Seq(Row)
      BY PlanAssumption DEF Row
    <2>3. QED
      BY <2>1, <2>2 DEF RowsOf, ToSet
  <1>2. AllRows \subseteq Row
    BY <1>1
  <1>3. QED
    BY <1>2 DEF Ids, Row

\* A plan is a sequence of the rows of all plans, none of them twice.
LEMMA PlanRows ==
    ASSUME NEW r \in Runs
    PROVE  Plan[r] \in Seq(AllRows) /\ Distinct(Plan[r])
  <1>1. Plan[r] \in Seq(Row)
    BY PlanAssumption DEF Row
  <1>2. \A p \in DOMAIN Plan[r] : Plan[r][p] \in AllRows
    BY DEF AllRows, RowsOf, ToSet
  <1>3. Plan[r] \in Seq(AllRows)
    <2> DEFINE rows == Plan[r]
    <2>1. rows \in Seq(Row) /\ \A p \in DOMAIN rows : rows[p] \in AllRows
      BY <1>1, <1>2
    <2> HIDE DEF rows
    <2>2. rows \in Seq(AllRows)
      BY <2>1
    <2>3. QED
      BY <2>2 DEF rows
  <1>4. Distinct(Plan[r])
    BY PlanAssumption DEF Distinct
  <1>5. QED
    BY <1>3, <1>4

\* The rows at some positions of a sequence.
LEMMA SliceRows ==
    ASSUME NEW rows \in Seq(AllRows), NEW m \in Nat, NEW n \in Nat,
           m >= 1, n <= Len(rows)
    PROVE  LET slice == SubSeq(rows, m, n)
           IN  /\ slice \in Seq(AllRows)
               /\ Len(slice) = IF m <= n THEN n - m + 1 ELSE 0
               /\ \A p \in 1 .. Len(slice) : slice[p] = rows[m + p - 1]
               /\ Distinct(rows) => Distinct(slice)
  <1> DEFINE slice == SubSeq(rows, m, n)
  <1>1. \A p \in m .. n : rows[p] \in AllRows
    OBVIOUS
  <1>2. /\ slice \in Seq(AllRows)
        /\ Len(slice) = IF m <= n THEN n - m + 1 ELSE 0
        /\ \A p \in 1 .. n - m + 1 : slice[p] = rows[m + p - 1]
    BY <1>1, SubSeqProperties
  <1> HIDE DEF slice
  <1>3. \A p \in 1 .. Len(slice) :
           slice[p] = rows[m + p - 1] /\ m + p - 1 \in DOMAIN rows
    BY <1>2
  <1>4. ASSUME Distinct(rows) PROVE Distinct(slice)
    <2>0. DOMAIN slice = 1 .. Len(slice)
      BY <1>2
    <2> SUFFICES ASSUME NEW p \in 1 .. Len(slice), NEW q \in 1 .. Len(slice), p # q
                 PROVE  slice[p].id # slice[q].id
      BY <2>0 DEF Distinct
    <2>1. PICK a \in DOMAIN rows, b \in DOMAIN rows :
             slice[p] = rows[a] /\ slice[q] = rows[b] /\ a # b
      <3>1. m + p - 1 # m + q - 1
        BY <1>2
      <3>2. QED
        BY <1>3, <3>1
    <2>2. rows[a].id # rows[b].id
      BY <1>4, <2>1 DEF Distinct
    <2>3. QED
      BY <2>1, <2>2
  <1>5. QED
    BY <1>2, <1>3, <1>4 DEF slice

\* The ids of rows, and how many there are when none is repeated.
LEMMA IdsOfRows ==
    ASSUME NEW rows \in Seq(AllRows)
    PROVE  /\ IdsOf(rows) \subseteq Ids
           /\ IsFiniteSet(IdsOf(rows))
           /\ Distinct(rows) => Cardinality(IdsOf(rows)) = Len(rows)
  <1> DEFINE n == Len(rows)
             f == [p \in 1 .. n |-> rows[p].id]
  <1>1. n \in Nat /\ DOMAIN rows = 1 .. n /\ \A p \in 1 .. n : rows[p] \in AllRows
    OBVIOUS
  <1> HIDE DEF n
  <1>2. IdsOf(rows) \subseteq Ids
    BY <1>1 DEF IdsOf, Ids
  <1>3. f \in Surjection(1 .. n, IdsOf(rows))
    BY <1>1 DEF IdsOf, Surjection
  <1>4. IsFiniteSet(1 .. n) /\ Cardinality(1 .. n) = n
    BY <1>1, FS_Interval
  <1>5. /\ IsFiniteSet(IdsOf(rows))
        /\ Cardinality(IdsOf(rows)) = n <=> f \in Injection(1 .. n, IdsOf(rows))
    BY <1>3, <1>4, FS_Surjection
  <1>6. Distinct(rows) => f \in Injection(1 .. n, IdsOf(rows))
    BY <1>1, <1>3 DEF Distinct, Injection, IsInjective, Surjection
  <1>7. QED
    BY <1>2, <1>5, <1>6 DEF n

\* Where batches begin.
LEMMA BatchBegins ==
    ASSUME NEW k \in Nat
    PROVE  /\ k * BatchSize \in Nat /\ (k + 1) * BatchSize \in Nat
           /\ (k + 1) * BatchSize = k * BatchSize + BatchSize
           /\ k <= k * BatchSize
  <1>1. BatchSize \in Nat /\ BatchSize >= 1
    BY PlanAssumption
  <1>2. QED
    BY <1>1

\* chunk_rows: one more batch continues where the last one ended.
LEMMA BatchRows ==
    ASSUME NEW rows \in Seq(AllRows), NEW k \in Nat, k * BatchSize < Len(rows)
    PROVE  /\ Batch(rows, k) \in Seq(AllRows)
           /\ Distinct(rows) => Distinct(Batch(rows, k))
           /\ IdsOf(Batch(rows, k)) \subseteq IdsOf(rows)
           /\ ToSet(Batch(rows, k)) \subseteq ToSet(rows)
           /\ Before(rows, k + 1) = Before(rows, k) \cup IdsOf(Batch(rows, k))
           /\ Distinct(rows) => Before(rows, k) \cap IdsOf(Batch(rows, k)) = {}
           /\ Reached(rows, k + 1) = Reached(rows, k) + Len(Batch(rows, k))
  <1> DEFINE from == k * BatchSize
             to == Reached(rows, k + 1)
             batch == Batch(rows, k)
  <1>0. Len(rows) \in Nat /\ DOMAIN rows = 1 .. Len(rows)
    OBVIOUS
  <1>1. /\ BatchSize \in Nat \ {0} /\ from \in Nat
        /\ (k + 1) * BatchSize = from + BatchSize
    BY BatchBegins, PlanAssumption
  <1>2. batch = SubSeq(rows, from + 1, to)
    BY DEF Batch, Reached
  <1>3. /\ to \in Nat /\ from + 1 <= to /\ to <= Len(rows)
        /\ \A q \in DOMAIN rows : q <= (k + 1) * BatchSize <=> q <= to
    BY <1>0, <1>1 DEF Reached
  <1>4. Reached(rows, k) = from
    BY DEF Reached
  <1> HIDE DEF from, to, batch
  <1>5. /\ batch \in Seq(AllRows)
        /\ Len(batch) = to - from
        /\ \A p \in 1 .. Len(batch) : batch[p] = rows[from + p]
        /\ Distinct(rows) => Distinct(batch)
    <2>1. from + 1 \in Nat /\ from + 1 >= 1
      BY <1>1
    <2>2. \A p \in Nat : (from + 1) + p - 1 = from + p
      BY <1>1
    <2>3. Len(batch) = to - (from + 1) + 1
      BY <1>2, <1>3, <2>1, SliceRows
    <2>4. \A p \in 1 .. Len(batch) : batch[p] = rows[(from + 1) + p - 1]
      BY <1>2, <1>3, <2>1, SliceRows
    <2>5. batch \in Seq(AllRows) /\ (Distinct(rows) => Distinct(batch))
      BY <1>2, <1>3, <2>1, SliceRows
    <2>6. QED
      BY <1>1, <1>3, <2>2, <2>3, <2>4, <2>5
  <1>6. IdsOf(batch) = {rows[q].id : q \in from + 1 .. to}
    <2>1. DOMAIN batch = 1 .. to - from
      BY <1>5
    <2>2. \A q \in from + 1 .. to : q - from \in 1 .. to - from /\ from + (q - from) = q
      BY <1>1, <1>3
    <2>3. \A p \in 1 .. to - from : from + p \in from + 1 .. to
      BY <1>1, <1>3
    <2>4. \A p \in 1 .. to - from : batch[p] = rows[from + p]
      BY <1>5
    <2>5. \A q \in from + 1 .. to : batch[q - from] = rows[q]
      BY <2>2, <2>4
    <2>6. QED
      BY <2>1, <2>2, <2>3, <2>4, <2>5 DEF IdsOf
  <1>7. {q \in DOMAIN rows : q <= (k + 1) * BatchSize}
           = {q \in DOMAIN rows : q <= from} \cup (from + 1 .. to)
    BY <1>0, <1>1, <1>3
  <1>8. Before(rows, k + 1) = Before(rows, k) \cup IdsOf(batch)
    BY <1>6, <1>7 DEF Before, from
  <1>9. from + 1 .. to \subseteq DOMAIN rows
    BY <1>0, <1>1, <1>3
  <1>10. Distinct(rows) => Before(rows, k) \cap IdsOf(batch) = {}
    <2>1. \A p \in {q \in DOMAIN rows : q <= from}, q \in from + 1 .. to : p # q
      BY <1>0, <1>1, <1>3
    <2>2. QED
      BY <1>6, <1>9, <2>1 DEF Before, Distinct, from
  <1>11. to = from + Len(batch)
    BY <1>1, <1>3, <1>5
  <1>12. IdsOf(batch) \subseteq IdsOf(rows)
    BY <1>6, <1>9 DEF IdsOf
  <1>13. ToSet(batch) \subseteq ToSet(rows)
    <2>1. \A p \in 1 .. Len(batch) : batch[p] = rows[from + p] /\ from + p \in DOMAIN rows
      BY <1>0, <1>1, <1>3, <1>5
    <2>2. DOMAIN batch = 1 .. Len(batch)
      BY <1>5
    <2>3. QED
      BY <2>1, <2>2 DEF ToSet
  <1>14. QED
    BY <1>4, <1>5, <1>8, <1>10, <1>11, <1>12, <1>13 DEF batch, to

\* Nothing is before the first batch, and everything when no batch is left.
LEMMA BeforeEnds ==
    ASSUME NEW rows \in Seq(AllRows)
    PROVE  /\ Before(rows, 0) = {} /\ Reached(rows, 0) = 0
           /\ \A k \in Nat : ~ (k * BatchSize < Len(rows)) =>
                 Before(rows, k) = IdsOf(rows) /\ Reached(rows, k) = Len(rows)
  <1>0. Len(rows) \in Nat /\ DOMAIN rows = 1 .. Len(rows)
    OBVIOUS
  <1>1. 0 * BatchSize = 0
    BY PlanAssumption
  <1>2. Before(rows, 0) = {} /\ Reached(rows, 0) = 0
    BY <1>0, <1>1 DEF Before, Reached
  <1>3. ASSUME NEW k \in Nat, ~ (k * BatchSize < Len(rows))
        PROVE  Before(rows, k) = IdsOf(rows) /\ Reached(rows, k) = Len(rows)
    <2>1. k * BatchSize \in Nat
      BY BatchBegins
    <2>2. {q \in DOMAIN rows : q <= k * BatchSize} = DOMAIN rows
      BY <1>0, <1>3, <2>1
    <2>3. QED
      BY <1>3, <2>2 DEF Before, Reached, IdsOf
  <1>4. QED
    BY <1>2, <1>3
-------------------------------------------------------------------------------
(***************************************************************************)
(* Steps                                                                   *)
(***************************************************************************)

\* What invocation i knows does not change.
Same(i) ==
    /\ pc'[i] = pc[i] /\ run'[i] = run[i] /\ updates'[i] = updates[i]
    /\ fresh'[i] = fresh[i] /\ completed'[i] = completed[i] /\ index'[i] = index[i]
    /\ uuid'[i] = uuid[i] /\ result'[i] = result[i]
    /\ setAtExport'[i] = setAtExport[i]

\* A step of invocation i.
Acts(i) ==
    \/ \E r \in Runs, limit \in Limits, force \in BOOLEAN : Start(i, r, limit, force)
    \/ \E r \in Runs : Refuse(i, r)
    \/ Handler(i)

\* Jobs are never forgotten or changed, but for running once.
JobsStep ==
    /\ Len(jobs') >= Len(jobs)
    /\ \A j \in DOMAIN jobs :
          /\ jobs'[j].rows = jobs[j].rows /\ jobs'[j].after = jobs[j].after
          /\ jobs[j].state = "completed" => jobs'[j] = jobs[j]

\* An invocation touches only what it knows itself.
LEMMA OneActs ==
    ASSUME TypeInv, NEW i \in Invocations, Acts(i)
    PROVE  \A h \in Invocations : h # i => Same(h)
  <1> USE DEF TypeInv
  <1>1. ASSUME NEW r \in Runs, NEW limit, NEW force, Start(i, r, limit, force)
        PROVE  \A h \in Invocations : h # i => Same(h)
    BY <1>1 DEF Start, Goto, Same
  <1>2. ASSUME NEW r \in Runs, Refuse(i, r)
        PROVE  \A h \in Invocations : h # i => Same(h)
    BY <1>2 DEF Refuse, Goto, Same, localVars
  <1>3. CASE Export(i)
    BY <1>3 DEF Export, Goto, Same
  <1>4. CASE OpenLog(i)
    BY <1>4 DEF OpenLog, Goto, Same
  <1>5. CASE End(i)
    BY <1>5 DEF End, Goto, Same
  <1>6. CASE SkipCompleted(i)
    BY <1>6 DEF SkipCompleted, Same
  <1>7. CASE PostBatch(i)
    BY <1>7 DEF PostBatch, Goto, Same
  <1>8. CASE JobCompleted(i)
    BY <1>8 DEF JobCompleted, Goto, Same
  <1>9. CASE MarkCompleted(i)
    BY <1>9 DEF MarkCompleted, NextBatch, Goto, Same
  <1>10. CASE TruncateLog(i)
    BY <1>10 DEF TruncateLog, Goto, Same
  <1>11. CASE WriteLog(i)
    BY <1>11 DEF WriteLog, NextBatch, Goto, Same
  <1>12. QED
    BY <1>1, <1>2, <1>3, <1>4, <1>5, <1>6, <1>7, <1>8, <1>9, <1>10, <1>11
    DEF Acts, Handler, OpenTornLog, PostBatchUnanswered, Finish, Fail

\* A step is one of an invocation or of its environment.
LEMMA StepOf ==
    ASSUME [Next]_vars
    PROVE  \/ \E i \in Invocations : Acts(i)
           \/ /\ Environment \/ UNCHANGED vars
              /\ UNCHANGED <<pc, localVars>>
  <1>1. CASE Environment
    BY <1>1 DEF Environment, JobRuns, JobUnprocessable, SellerEdits, CardSells,
                RemoveTornLog
  <1>2. CASE Quiescent \/ UNCHANGED vars
    BY <1>2 DEF Quiescent, vars
  <1>3. QED
    BY <1>1, <1>2 DEF Next, Acts

\* The jobs named are there still.
LEMMA NamesStay ==
    ASSUME jobs \in Seq(Job), jobs' \in Seq(Job), JobsStep,
           NEW by \in [Ids -> Nat], Names(by, jobs)
    PROVE  Names(by, jobs')
  <1>1. Len(jobs) \in Nat /\ Len(jobs') \in Nat /\ Len(jobs') >= Len(jobs)
    BY DEF JobsStep
  <1>2. QED
    BY <1>1 DEF Names

\* A new job is of its type, and the jobs before it stay.
LEMMA QueueAppends ==
    ASSUME ControlInv, NEW i \in Invocations, Queued(i)
    PROVE  /\ jobs' \in Seq(Job) /\ Len(jobs') = Len(jobs) + 1
           /\ \A j \in DOMAIN jobs : jobs'[j] = jobs[j]
           /\ jobs'[Len(jobs) + 1] =
                 [rows |-> Batch(fresh[i], index[i]), state |-> "pending",
                  failed |-> {}, after |-> setAtExport[i]]
  <1>1. /\ fresh[i] \in Seq(AllRows) /\ index[i] \in Nat /\ jobs \in Seq(Job)
        /\ setAtExport[i] \in [Ids -> Nat]
    BY DEF ControlInv, TypeInv
  <1>2. Batch(fresh[i], index[i]) \in Seq(AllRows)
    BY <1>1, BatchRows DEF Queued, MoreBatches
  <1> DEFINE job == [rows |-> Batch(fresh[i], index[i]), state |-> "pending",
                     failed |-> {}, after |-> setAtExport[i]]
  <1>3. job \in Job
    BY <1>1, <1>2 DEF Job
  <1>4. jobs' = Append(jobs, job)
    BY DEF Queued
  <1> HIDE DEF job
  <1>5. QED
    BY <1>1, <1>3, <1>4 DEF job

\* A job that runs, or cannot be processed.
LEMMA JobEnds ==
    ASSUME ControlInv, NEW j \in DOMAIN jobs, JobRuns(j) \/ JobUnprocessable(j)
    PROVE  /\ jobs' \in Seq(Job) /\ Len(jobs') = Len(jobs)
           /\ jobs[j].state = "pending"
           /\ jobs'[j].rows = jobs[j].rows /\ jobs'[j].after = jobs[j].after
           /\ jobs'[j].failed \subseteq IdsOf(jobs[j].rows)
           /\ \A h \in DOMAIN jobs : h # j => jobs'[h] = jobs[h]
  <1>1. jobs \in Seq(Job) /\ jobs[j] \in Job /\ JobOK(j)
    BY DEF ControlInv, TypeInv
  <1>2. IdsOf(jobs[j].rows) \subseteq Ids
    BY <1>1, IdsOfRows DEF Job
  <1>3. PICK failed \in SUBSET IdsOf(jobs[j].rows), state \in {"completed", "unprocessable"} :
           \/ jobs' = [jobs EXCEPT ![j].state = state, ![j].failed = failed]
           \/ jobs' = [jobs EXCEPT ![j].state = state]
    BY <1>1 DEF JobRuns, JobUnprocessable
  <1>4. PICK job \in Job : /\ jobs' = [jobs EXCEPT ![j] = job]
                           /\ job.rows = jobs[j].rows /\ job.after = jobs[j].after
                           /\ job.failed \subseteq IdsOf(jobs[j].rows)
    <2> DEFINE a == [jobs[j] EXCEPT !.state = state, !.failed = failed]
               b == [jobs[j] EXCEPT !.state = state]
    <2>1. a \in Job /\ a.rows = jobs[j].rows /\ a.after = jobs[j].after /\ a.failed = failed
      BY <1>1, <1>2 DEF Job
    <2>2. b \in Job /\ b.rows = jobs[j].rows /\ b.after = jobs[j].after
          /\ b.failed = jobs[j].failed
      BY <1>1 DEF Job
    <2>3. jobs' = [jobs EXCEPT ![j] = a] \/ jobs' = [jobs EXCEPT ![j] = b]
      BY <1>1, <1>3
    <2> HIDE DEF a, b
    <2>4. QED
      BY <1>1, <2>1, <2>2, <2>3 DEF JobOK
  <1>5. jobs[j].state = "pending"
    BY DEF JobRuns, JobUnprocessable
  <1>6. QED
    BY <1>1, <1>4, <1>5

LEMMA JobsGrow ==
    ASSUME ControlInv, [Next]_vars
    PROVE  jobs' \in Seq(Job) /\ JobsStep
  <1>0. jobs \in Seq(Job)
    BY DEF ControlInv, TypeInv
  <1>1. CASE UNCHANGED jobs
    BY <1>0, <1>1 DEF JobsStep
  <1>2. ASSUME NEW i \in Invocations, Queued(i) PROVE jobs' \in Seq(Job) /\ JobsStep
    <2>1. /\ jobs' \in Seq(Job) /\ Len(jobs') = Len(jobs) + 1
          /\ \A j \in DOMAIN jobs : jobs'[j] = jobs[j]
      BY <1>2, QueueAppends
    <2>2. Len(jobs) \in Nat
      BY <1>0
    <2>3. QED
      BY <2>1, <2>2 DEF JobsStep
  <1>3. ASSUME NEW j \in DOMAIN jobs, JobRuns(j) \/ JobUnprocessable(j)
        PROVE  jobs' \in Seq(Job) /\ JobsStep
    <2>1. /\ jobs' \in Seq(Job) /\ Len(jobs') = Len(jobs)
          /\ jobs[j].state = "pending"
          /\ jobs'[j].rows = jobs[j].rows /\ jobs'[j].after = jobs[j].after
          /\ \A h \in DOMAIN jobs : h # j => jobs'[h] = jobs[h]
      BY <1>3, JobEnds
    <2>2. QED
      BY <1>0, <2>1 DEF JobsStep
  <1>4. ASSUME NEW i \in Invocations, Acts(i) PROVE UNCHANGED jobs \/ Queued(i)
    BY <1>4 DEF Acts, Handler, Start, Refuse, Export, OpenLog, OpenTornLog, SkipCompleted,
                PostBatch, PostBatchUnanswered, JobCompleted, MarkCompleted, TruncateLog,
                WriteLog, Finish, Fail, ctVars
  <1>5. CASE Environment
    BY <1>1, <1>3, <1>5 DEF Environment, SellerEdits, CardSells, RemoveTornLog, ctVars
  <1>6. CASE UNCHANGED vars
    BY <1>1, <1>6 DEF vars, ctVars
  <1>7. QED
    BY <1>1, <1>2, <1>4, <1>5, <1>6, StepOf
-------------------------------------------------------------------------------
(***************************************************************************)
(* Types and control                                                       *)
(***************************************************************************)

LEMMA LogType ==
    ASSUME NEW r \in Runs
    PROVE  /\ Logs(r) \subseteq AnyLog
           /\ NothingCompleted(r) \in Logs(r)
           /\ \A log \in Logs(r), k \in Nat, ids \in SUBSET Ids :
                 [log EXCEPT ![k] = ids] \in Logs(r)
  <1>1. Logs(r) \subseteq AnyLog
    BY DEF AnyLog
  <1>2. NothingCompleted(r) \in Logs(r)
    BY DEF NothingCompleted, Logs
  <1>3. ASSUME NEW log \in Logs(r), NEW k \in Nat, NEW ids \in SUBSET Ids
        PROVE  [log EXCEPT ![k] = ids] \in Logs(r)
    BY DEF Logs
  <1>4. QED
    BY <1>1, <1>2, <1>3

\* The batch an invocation is at.
LEMMA BatchAtHand ==
    ASSUME ControlInv, NEW i \in Invocations, MoreBatches(i)
    PROVE  /\ Batch(fresh[i], index[i]) \in Seq(AllRows)
           /\ IdsOf(Batch(fresh[i], index[i])) \in SUBSET Ids
  <1>1. fresh[i] \in Seq(AllRows) /\ index[i] \in Nat
    BY DEF ControlInv, TypeInv
  <1>2. Batch(fresh[i], index[i]) \in Seq(AllRows)
    BY <1>1, BatchRows DEF MoreBatches
  <1>3. QED
    BY <1>2, IdsOfRows

\* What the end of an invocation leaves.
LEMMA EndType ==
    ASSUME TypeInv, NEW i \in Invocations, End(i)
    PROVE  /\ pc' \in [Invocations -> PCs]
           /\ run' \in [Invocations -> Runs \cup {None}]
           /\ updates' \in [Invocations -> Seq(AllRows)]
           /\ fresh' \in [Invocations -> Seq(AllRows)]
           /\ completed' \in [Invocations -> AnyLog]
           /\ index' \in [Invocations -> Nat] /\ uuid' \in [Invocations -> Nat]
           /\ result' \in [Invocations -> Result]
           /\ setAtExport' \in [Invocations -> [Ids -> Nat]]
  <1>1. <<>> \in Seq(AllRows)
    OBVIOUS
  <1>2. NoResult \in Result /\ NothingSet \in [Ids -> Nat]
    BY DEF NoResult, Result, NothingSet
  <1>3. "ended" \in PCs /\ None \in AnyLog
    BY DEF PCs, AnyLog
  <1>4. QED
    BY <1>1, <1>2, <1>3 DEF TypeInv, End, Goto

\* What a job adds to the report: each of its rows as ok or in error, or all of
\* them as of a job without stats.
LEMMA CountedType ==
    ASSUME NEW res \in Result, NEW job \in Job, job.failed \subseteq IdsOf(job.rows),
           NEW stats \in BOOLEAN
    PROVE  LET next == Counted(res, job, stats)
           IN  /\ next \in Result /\ next.stale = res.stale
               /\ next.skipped = res.skipped
               /\ \/ /\ next.uncounted = res.uncounted
                     /\ next.ok + next.error = res.ok + res.error + Len(job.rows)
                  \/ /\ next.uncounted = res.uncounted \cup IdsOf(job.rows)
                     /\ next.ok = res.ok /\ next.error = res.error
  <1> DEFINE next == Counted(res, job, stats)
             n == Len(job.rows)
             c == Cardinality(job.failed)
             ids == IdsOf(job.rows)
  <1>1. job.rows \in Seq(AllRows)
    BY DEF Job
  <1>2. IsFiniteSet(IdsOf(job.rows)) /\ ids \subseteq Ids
    BY <1>1, IdsOfRows
  <1>3. n \in Int /\ c \in Int
    BY <1>1, <1>2, FS_Subset, FS_CardinalityType
  <1>4. next = IF stats THEN [res EXCEPT !.ok = res.ok + n - c, !.error = res.error + c]
               ELSE [res EXCEPT !.uncounted = res.uncounted \cup ids]
    BY DEF Counted
  <1> HIDE DEF next, n, c, ids
  <1>5. res.ok \in Int /\ res.error \in Int
    BY DEF Result
  <1>6. CASE stats
    <2> DEFINE a == res.ok + n - c
               b == res.error + c
    <2>1. a \in Int /\ b \in Int /\ a + b = res.ok + res.error + n
      BY <1>3, <1>5
    <2>2. next = [res EXCEPT !.ok = a, !.error = b]
      BY <1>4, <1>6
    <2> HIDE DEF a, b
    <2>3. /\ next \in Result /\ next.stale = res.stale /\ next.skipped = res.skipped
          /\ next.uncounted = res.uncounted /\ next.ok = a /\ next.error = b
      BY <2>1, <2>2 DEF Result
    <2>4. QED
      BY <2>1, <2>3 DEF next, n
  <1>7. CASE ~stats
    <2>1. next = [res EXCEPT !.uncounted = res.uncounted \cup ids]
      BY <1>4, <1>7
    <2>2. /\ next \in Result /\ next.stale = res.stale /\ next.skipped = res.skipped
          /\ next.uncounted = res.uncounted \cup ids /\ next.ok = res.ok
          /\ next.error = res.error
      BY <1>2, <2>1 DEF Result
    <2>3. QED
      BY <2>2 DEF next, ids
  <1>8. QED
    BY <1>6, <1>7

LEMMA TypeStep ==
    ASSUME ControlInv, [Next]_vars
    PROVE  TypeInv'
  <1> USE DEF TypeInv
  <1>0. TypeInv
    BY DEF ControlInv
  <1>j. jobs' \in Seq(Job)
    BY JobsGrow
  <1>a. ASSUME NEW i \in Invocations, pc[i] \in Exported \cup {"export"}
        PROVE  /\ run[i] \in Runs /\ completed[i] \in Logs(run[i])
               /\ store[run[i]] \in Logs(run[i]) \cup {Torn}
               /\ How[run[i]] = "lambda" => store[run[i]] \in Logs(run[i])
    BY <1>a DEF ControlInv, LocalOK, PlaceOK, StoreOK, Running, Exported, AtWork
  <1>1. ASSUME NEW i \in Invocations, NEW r \in Runs, NEW limit \in Limits, NEW force,
               Start(i, r, limit, force)
        PROVE  TypeInv'
    <2>1. updates'[i] \in Seq(AllRows)
      <3>1. Plan[r] \in Seq(AllRows) /\ limit \in Nat
        BY PlanRows, PlanAssumption
      <3>2. limit # 0 /\ ~ (limit > Len(Plan[r])) => SubSeq(Plan[r], 1, limit) \in Seq(AllRows)
        BY <3>1, SliceRows
      <3>3. QED
        BY <1>0, <1>1, <3>1, <3>2 DEF Start
    <2>2. updates' \in [Invocations -> Seq(AllRows)]
      BY <1>0, <1>1, <2>1 DEF Start
    <2>3. NothingCompleted(r) \in AnyLog
      BY LogType
    <2>4. QED
      BY <1>0, <1>1, <1>j, <2>2, <2>3 DEF Start, Goto, ctVars, history, PCs
  <1>2. ASSUME NEW i \in Invocations, NEW r \in Runs, Refuse(i, r)
        PROVE  TypeInv'
    BY <1>0, <1>2 DEF Refuse, Goto, ctVars, history, localVars, PCs
  <1>3. ASSUME NEW i \in Invocations, Export(i) PROVE TypeInv'
    <2>1. FreshRows(updates[i]) \in Seq(AllRows)
      BY <1>0, FreshRowsKeeps DEF KeptOf
    <2>2. fresh' \in [Invocations -> Seq(AllRows)] /\ fresh'[i] \in Seq(AllRows)
      BY <1>0, <1>3, <2>1 DEF Export
    <2>3. result' \in [Invocations -> Result]
      <3>1. Len(updates[i]) - Len(fresh'[i]) \in Int
        BY <1>0, <2>2
      <3>2. result' = [result EXCEPT ![i].stale = Len(updates[i]) - Len(fresh'[i])]
        BY <1>3 DEF Export
      <3> DEFINE n == Len(updates[i]) - Len(fresh'[i])
      <3> HIDE DEF n
      <3>3. result \in [Invocations -> Result]
        BY <1>0
      <3>4. [result[i] EXCEPT !.stale = n] \in Result
        BY <3>1, <3>3 DEF Result, n
      <3>5. result' = [result EXCEPT ![i] = [result[i] EXCEPT !.stale = n]]
        BY <3>2, <3>3 DEF n
      <3>6. QED
        BY <3>3, <3>4, <3>5
    <2>4. setAtExport' \in [Invocations -> [Ids -> Nat]]
      BY <1>0, <1>3 DEF Export
    <2>5. QED
      BY <1>0, <1>3, <1>j, <2>2, <2>3, <2>4
      DEF Export, Goto, ctVars, history, PCs, Exported
  <1>4. ASSUME NEW i \in Invocations, OpenLog(i) PROVE TypeInv'
    <2>1. store[run[i]] \in AnyLog
      BY <1>0, <1>4, <1>a DEF OpenLog, Exported
    <2>2. QED
      BY <1>0, <1>4, <2>1 DEF OpenLog, Goto, ctVars, history, PCs, Exported
  <1>5. ASSUME NEW i \in Invocations, End(i), UNCHANGED <<inventory, store, history>>
        PROVE  TypeInv'
    BY <1>0, <1>5, <1>j, EndType DEF history
  <1>6. ASSUME NEW i \in Invocations, SkipCompleted(i) PROVE TypeInv'
    <2>1. IdsOf(Batch(fresh[i], index[i])) \in SUBSET Ids
      BY <1>6, BatchAtHand DEF SkipCompleted
    <2>2. result' \in [Invocations -> Result]
      <3> DEFINE ids == IdsOf(Batch(fresh[i], index[i]))
                 res == [result[i] EXCEPT !.skipped = @ \cup ids]
      <3>1. result' = [result EXCEPT ![i] = res]
        BY <1>6 DEF SkipCompleted
      <3> HIDE DEF ids
      <3>2. ids \in SUBSET Ids /\ result[i] \in Result
        BY <1>0, <2>1 DEF ids
      <3>3. res \in Result
        BY <3>2 DEF Result
      <3>4. QED
        BY <1>0, <3>1, <3>3
    <2>3. index[i] + 1 \in Nat /\ index' = [index EXCEPT ![i] = @ + 1]
      BY <1>0, <1>6 DEF SkipCompleted
    <2>4. index' \in [Invocations -> Nat]
      BY <1>0, <2>3
    <2>5. UNCHANGED <<inventory, jobs, store, pc, run, updates, fresh, completed, uuid,
                      setAtExport, setBy>>
      BY <1>6 DEF SkipCompleted, ctVars, history
    <2>6. QED
      BY <1>0, <2>2, <2>4, <2>5
  <1>7. ASSUME NEW i \in Invocations, PostBatch(i) PROVE TypeInv'
    <2>1. Len(jobs) + 1 \in Nat
      BY <1>0
    <2>2. QED
      BY <1>0, <1>7, <1>j, <2>1 DEF PostBatch, Queued, Goto, history, PCs, Exported, AtWork
  <1>8. ASSUME NEW i \in Invocations, JobCompleted(i) PROVE TypeInv'
    <2>1. jobs[uuid[i]] \in Job /\ jobs[uuid[i]].failed \subseteq IdsOf(jobs[uuid[i]].rows)
      BY <1>0, <1>8 DEF JobCompleted, ControlInv, LocalOK, JobAtHand, JobOK, AtWork
    <2>2. PICK stats \in BOOLEAN :
             result' = [result EXCEPT ![i] = Counted(@, jobs[uuid[i]], stats)]
      BY <1>8 DEF JobCompleted
    <2>3. result' \in [Invocations -> Result]
      <3>1. Counted(result[i], jobs[uuid[i]], stats) \in Result
        BY <1>0, <2>1, CountedType
      <3>2. QED
        BY <1>0, <2>2, <3>1
    <2>4. QED
      BY <1>0, <1>8, <2>3 DEF JobCompleted, Goto, ctVars, history, PCs, Exported, AtWork
  <1>9. ASSUME NEW i \in Invocations, MarkCompleted(i) PROVE TypeInv'
    <2>1. IdsOf(Batch(fresh[i], index[i])) \in SUBSET Ids
      BY <1>9, BatchAtHand DEF MarkCompleted, ControlInv, LocalOK, PlaceOK, AtWork
    <2>2. run[i] \in Runs /\ store[run[i]] \in Logs(run[i])
      BY <1>9, <1>a DEF MarkCompleted, Exported, AtWork
    <2>3. [store[run[i]] EXCEPT ![index[i]] = IdsOf(Batch(fresh[i], index[i]))] \in AnyLog
      BY <1>0, <2>1, <2>2, LogType
    <2>4. store' \in [Runs -> AnyLog]
      BY <1>0, <1>9, <2>2, <2>3 DEF MarkCompleted
    <2>5. QED
      BY <1>0, <1>9, <2>4
      DEF MarkCompleted, NextBatch, Goto, ctVars, history, PCs, Exported, AtWork
  <1>10. ASSUME NEW i \in Invocations, TruncateLog(i) PROVE TypeInv'
    <2>1. IdsOf(Batch(fresh[i], index[i])) \in SUBSET Ids
      BY <1>10, BatchAtHand DEF TruncateLog, ControlInv, LocalOK, PlaceOK, AtWork
    <2>2. run[i] \in Runs /\ completed[i] \in Logs(run[i])
      BY <1>10, <1>a DEF TruncateLog, Exported, AtWork
    <2>3. [completed[i] EXCEPT ![index[i]] = IdsOf(Batch(fresh[i], index[i]))] \in AnyLog
      BY <1>0, <2>1, <2>2, LogType
    <2>4. completed' \in [Invocations -> AnyLog]
      BY <1>0, <1>10, <2>3 DEF TruncateLog
    <2>5. store' \in [Runs -> AnyLog]
      BY <1>0, <1>10 DEF TruncateLog, AnyLog
    <2>6. QED
      BY <1>0, <1>10, <2>4, <2>5
      DEF TruncateLog, Goto, ctVars, history, PCs, Exported, AtWork
  <1>11. ASSUME NEW i \in Invocations, WriteLog(i) PROVE TypeInv'
    <2>1. store' \in [Runs -> AnyLog]
      BY <1>0, <1>11 DEF WriteLog
    <2>2. QED
      BY <1>0, <1>11, <2>1
      DEF WriteLog, NextBatch, Goto, ctVars, history, PCs, Exported, AtWork
  <1>12. ASSUME NEW i \in Invocations, Acts(i) PROVE TypeInv'
    BY <1>1, <1>2, <1>3, <1>4, <1>5, <1>6, <1>7, <1>8, <1>9, <1>10, <1>11, <1>12
    DEF Acts, Handler, OpenTornLog, PostBatchUnanswered, Queued, Finish, Fail, ctVars
  <1>13. ASSUME UNCHANGED <<pc, localVars>>, inventory' \in [Ids -> Listing \cup {None}],
                store' \in [Runs -> AnyLog], setBy' \in [Ids -> Nat]
         PROVE  TypeInv'
    BY <1>0, <1>13, <1>j DEF localVars
  <1>14. ASSUME NEW j \in DOMAIN jobs, JobRuns(j)
         PROVE  inventory' \in [Ids -> Listing \cup {None}] /\ setBy' \in [Ids -> Nat]
    <2>1. PICK failed \in SUBSET IdsOf(jobs[j].rows) :
             /\ \A x \in IdsOf(jobs[j].rows) : inventory[x] = None => x \in failed
             /\ inventory' = [x \in Ids |->
                   IF x \in IdsOf(jobs[j].rows) \ failed
                   THEN [inventory[x] EXCEPT !.price =
                           (CHOOSE row \in ToSet(jobs[j].rows) : row.id = x).new]
                   ELSE inventory[x]]
             /\ setBy' = [x \in Ids |->
                   IF x \in IdsOf(jobs[j].rows) \ failed THEN j ELSE setBy[x]]
      BY <1>14 DEF JobRuns
    <2>2. ASSUME NEW x \in IdsOf(jobs[j].rows) \ failed, x \in Ids
          PROVE  [inventory[x] EXCEPT !.price =
                    (CHOOSE row \in ToSet(jobs[j].rows) : row.id = x).new] \in Listing
      <3>0. jobs[j] \in Job
        BY <1>0
      <3>1. jobs[j].rows \in Seq(AllRows)
        BY <3>0 DEF Job
      <3>2. \E row \in ToSet(jobs[j].rows) : row.id = x
        BY DEF IdsOf, ToSet
      <3>3. (CHOOSE row \in ToSet(jobs[j].rows) : row.id = x) \in ToSet(jobs[j].rows)
        BY <3>2
      <3>4. ToSet(jobs[j].rows) \subseteq Row
        BY <3>1, RowType DEF ToSet
      <3>5. (CHOOSE row \in ToSet(jobs[j].rows) : row.id = x).new \in Nat
        BY <3>3, <3>4 DEF Row
      <3>6. inventory[x] \in Listing
        BY <1>0, <2>1, <2>2
      <3>7. QED
        BY <3>5, <3>6 DEF Listing
    <2>3. j \in Nat
      BY <1>0
    <2>4. QED
      BY <1>0, <2>1, <2>2, <2>3
  <1>15. ASSUME NEW x \in Ids, SellerEdits(x)
         PROVE  inventory' \in [Ids -> Listing \cup {None}]
    <2>1. PICK p \in EditPrices : inventory' = [inventory EXCEPT ![x].price = p]
      BY <1>15 DEF SellerEdits
    <2>2. p \in Nat /\ inventory[x] \in Listing
      BY <1>0, <1>15, PlanAssumption DEF SellerEdits
    <2>3. [inventory[x] EXCEPT !.price = p] \in Listing
      BY <2>2 DEF Listing
    <2>4. QED
      BY <1>0, <2>1, <2>3
  <1>16. ASSUME NEW x \in Ids, CardSells(x)
         PROVE  inventory' \in [Ids -> Listing \cup {None}]
    <2>1. inventory[x] \in Listing
      BY <1>0, <1>16 DEF CardSells
    <2>2. PICK left \in AfterSale(inventory[x]) : inventory' = [inventory EXCEPT ![x] = left]
      BY <1>16 DEF CardSells
    <2>3. inventory[x].qty > 0
      BY <1>16 DEF CardSells
    <2>4. left \in Listing \cup {None}
      BY <2>1, <2>2, <2>3 DEF AfterSale, Listing
    <2>5. QED
      BY <1>0, <2>2, <2>4
  <1>17. ASSUME NEW r \in Runs, RemoveTornLog(r) PROVE store' \in [Runs -> AnyLog]
    BY <1>0, <1>17, LogType DEF RemoveTornLog
  <1>18. ASSUME Environment, UNCHANGED <<pc, localVars>> PROVE TypeInv'
    <2>1. ASSUME NEW j \in DOMAIN jobs, JobRuns(j) \/ JobUnprocessable(j) PROVE TypeInv'
      BY <1>0, <1>13, <1>14, <1>18, <2>1 DEF JobRuns, JobUnprocessable, history
    <2>2. ASSUME NEW x \in Ids, SellerEdits(x) \/ CardSells(x) PROVE TypeInv'
      <3>1. setBy' \in [Ids -> Nat]
        <4>1. setBy \in [Ids -> Nat]
          BY <1>0
        <4>2. setBy' = [setBy EXCEPT ![x] = 0] \/ setBy' = setBy
          BY <2>2 DEF SellerEdits, CardSells
        <4> HIDE DEF TypeInv
        <4>3. QED
          BY <4>1, <4>2
      <3>2. QED
        BY <1>0, <1>13, <1>15, <1>16, <1>18, <2>2, <3>1 DEF SellerEdits, CardSells
    <2>3. ASSUME NEW r \in Runs, RemoveTornLog(r) PROVE TypeInv'
      BY <1>0, <1>13, <1>17, <1>18, <2>3 DEF RemoveTornLog, ctVars, history
    <2>4. QED
      BY <1>18, <2>1, <2>2, <2>3 DEF Environment
  <1>19. CASE UNCHANGED vars
    BY <1>0, <1>19 DEF vars, ctVars, localVars, history
  <1>20. QED
    BY <1>12, <1>18, <1>19, StepOf
LEMMA JobsOKStep ==
    ASSUME ControlInv, [Next]_vars
    PROVE  \A j \in DOMAIN jobs' : JobOK(j)'
  <1>0. /\ jobs \in Seq(Job) /\ jobs' \in Seq(Job) /\ JobsStep
        /\ \A j \in DOMAIN jobs : JobOK(j) /\ jobs[j].after \in [Ids -> Nat]
    <2>1. jobs \in Seq(Job) /\ \A j \in DOMAIN jobs : JobOK(j)
      BY DEF ControlInv, TypeInv
    <2>2. \A j \in DOMAIN jobs : jobs[j] \in Job
      BY <2>1
    <2>3. QED
      BY <2>1, <2>2, JobsGrow DEF Job
  <1>n. \A j \in DOMAIN jobs : Names(jobs[j].after, jobs')
    BY <1>0, NamesStay DEF JobOK
  <1>1. CASE UNCHANGED jobs
    BY <1>0, <1>1 DEF JobOK
  <1>2. ASSUME NEW i \in Invocations, Queued(i) PROVE \A j \in DOMAIN jobs' : JobOK(j)'
    <2> DEFINE job == [rows |-> Batch(fresh[i], index[i]), state |-> "pending",
                       failed |-> {}, after |-> setAtExport[i]]
    <2>0. job.failed = {} /\ job.after = setAtExport[i]
      OBVIOUS
    <2> HIDE DEF job
    <2>1. /\ jobs' \in Seq(Job) /\ Len(jobs') = Len(jobs) + 1
          /\ \A j \in DOMAIN jobs : jobs'[j] = jobs[j]
          /\ jobs'[Len(jobs) + 1] = job
      BY <1>2, QueueAppends DEF job
    <2>2. Names(setAtExport[i], jobs)
      BY DEF ControlInv, LocalOK, JobAtHand
    <2>3. /\ DOMAIN jobs = 1 .. Len(jobs) /\ DOMAIN jobs' = 1 .. Len(jobs) + 1
          /\ Len(jobs) \in Nat
      BY <1>0, <2>1
    <2>4. \A j \in DOMAIN jobs' : j \in DOMAIN jobs \/ j = Len(jobs) + 1
      BY <2>3
    <2>5. Names(setAtExport[i], jobs')
      <3>1. setAtExport[i] \in [Ids -> Nat]
        BY DEF ControlInv, TypeInv
      <3>2. QED
        BY <1>0, <2>2, <3>1, NamesStay
    <2>6. \A j \in DOMAIN jobs : JobOK(j)'
      BY <1>0, <1>n, <2>1 DEF JobOK
    <2>7. ASSUME NEW j \in DOMAIN jobs', j = Len(jobs) + 1 PROVE JobOK(j)'
      BY <2>0, <2>1, <2>5, <2>7 DEF JobOK
    <2>8. QED
      BY <2>4, <2>6, <2>7
  <1>3. ASSUME NEW h \in DOMAIN jobs, JobRuns(h) \/ JobUnprocessable(h)
        PROVE  \A j \in DOMAIN jobs' : JobOK(j)'
    <2>1. /\ jobs' \in Seq(Job) /\ Len(jobs') = Len(jobs)
          /\ jobs'[h].rows = jobs[h].rows /\ jobs'[h].after = jobs[h].after
          /\ jobs'[h].failed \subseteq IdsOf(jobs[h].rows)
          /\ \A j \in DOMAIN jobs : j # h => jobs'[j] = jobs[j]
      BY <1>3, JobEnds
    <2>2. DOMAIN jobs' = DOMAIN jobs
      BY <1>0, <2>1
    <2>3. QED
      BY <1>0, <1>n, <2>1, <2>2 DEF JobOK
  <1>4. ASSUME NEW i \in Invocations, Acts(i) PROVE UNCHANGED jobs \/ Queued(i)
    BY <1>4 DEF Acts, Handler, Start, Refuse, Export, OpenLog, OpenTornLog, SkipCompleted,
                PostBatch, PostBatchUnanswered, JobCompleted, MarkCompleted, TruncateLog,
                WriteLog, Finish, Fail, ctVars
  <1>5. CASE Environment
    BY <1>1, <1>3, <1>5 DEF Environment, SellerEdits, CardSells, RemoveTornLog, ctVars
  <1>6. CASE UNCHANGED vars
    BY <1>1, <1>6 DEF vars, ctVars
  <1>7. QED
    BY <1>1, <1>2, <1>4, <1>5, <1>6, StepOf

\* Only a job that runs sets prices in its own name.
LEMMA SetByStep ==
    ASSUME ControlInv, [Next]_vars
    PROVE  Names(setBy, jobs)'
  <1>0. /\ jobs \in Seq(Job) /\ jobs' \in Seq(Job) /\ JobsStep
        /\ setBy \in [Ids -> Nat] /\ Names(setBy, jobs')
    BY JobsGrow, NamesStay DEF ControlInv, TypeInv
  <1>1. CASE UNCHANGED setBy
    BY <1>0, <1>1 DEF Names
  <1>2. ASSUME NEW j \in DOMAIN jobs, JobRuns(j) PROVE Names(setBy, jobs)'
    <2>1. \A x \in Ids : setBy'[x] = j \/ setBy'[x] = setBy[x]
      BY <1>2 DEF JobRuns
    <2>2. j \in Nat /\ j <= Len(jobs')
      BY <1>0 DEF JobsStep
    <2>3. QED
      BY <1>0, <2>1, <2>2 DEF Names
  <1>3. ASSUME NEW y \in Ids, SellerEdits(y) PROVE Names(setBy, jobs)'
    <2>1. \A x \in Ids : setBy'[x] = 0 \/ setBy'[x] = setBy[x]
      BY <1>0, <1>3 DEF SellerEdits
    <2>2. 0 <= Len(jobs')
      BY <1>0
    <2>3. QED
      BY <1>0, <2>1, <2>2 DEF Names
  <1>4. ASSUME NEW i \in Invocations, Acts(i) PROVE UNCHANGED setBy
    BY <1>4 DEF Acts, Handler, Start, Refuse, Export, OpenLog, OpenTornLog, SkipCompleted,
                PostBatch, PostBatchUnanswered, Queued, JobCompleted, MarkCompleted,
                TruncateLog, WriteLog, Finish, Fail, history
  <1>5. CASE Environment
    BY <1>1, <1>2, <1>3, <1>5
    DEF Environment, JobUnprocessable, CardSells, RemoveTornLog, history
  <1>6. CASE UNCHANGED vars
    BY <1>1, <1>6 DEF vars, history
  <1>7. QED
    BY <1>1, <1>4, <1>5, <1>6, StepOf

\* Who writes a store: an invocation that records its batch, or the user.
LEMMA StoreWrites ==
    ASSUME [Next]_vars
    PROVE  \/ UNCHANGED store
           \/ \E i \in Invocations : MarkCompleted(i) \/ TruncateLog(i) \/ WriteLog(i)
           \/ \E r \in Runs : RemoveTornLog(r)
  <1>1. ASSUME NEW i \in Invocations, Acts(i)
        PROVE  UNCHANGED store \/ MarkCompleted(i) \/ TruncateLog(i) \/ WriteLog(i)
    BY <1>1 DEF Acts, Handler, Start, Refuse, Export, OpenLog, OpenTornLog, SkipCompleted,
                PostBatch, PostBatchUnanswered, Queued, JobCompleted, Finish, Fail
  <1>2. CASE Environment
    BY <1>2 DEF Environment, JobRuns, JobUnprocessable, SellerEdits, CardSells
  <1>3. CASE UNCHANGED vars
    BY <1>3 DEF vars
  <1>4. QED
    BY <1>1, <1>2, <1>3, StepOf

LEMMA StoreOKStep ==
    ASSUME ControlInv, [Next]_vars
    PROVE  \A r \in Runs : StoreOK(r)'
  <1>0. /\ store \in [Runs -> AnyLog] /\ completed \in [Invocations -> AnyLog]
        /\ index \in [Invocations -> Nat]
        /\ \A r \in Runs : StoreOK(r) /\ How[r] \in {"lambda", "cli"}
    BY PlanAssumption DEF ControlInv, TypeInv
  <1>1. CASE UNCHANGED store
    BY <1>0, <1>1 DEF StoreOK
  <1>2. ASSUME NEW r \in Runs, NEW log \in Logs(r), store' = [store EXCEPT ![r] = log]
        PROVE  \A q \in Runs : StoreOK(q)'
    BY <1>0, <1>2 DEF StoreOK
  <1>3. ASSUME NEW i \in Invocations, pc[i] \in AtWork
        PROVE  /\ run[i] \in Runs /\ completed[i] \in Logs(run[i])
               /\ IdsOf(Batch(fresh[i], index[i])) \in SUBSET Ids
    BY <1>3, BatchAtHand DEF ControlInv, LocalOK, PlaceOK, Running, AtWork
  <1>4. ASSUME NEW i \in Invocations, MarkCompleted(i) PROVE \A r \in Runs : StoreOK(r)'
    <2> DEFINE log == [store[run[i]] EXCEPT ![index[i]] = IdsOf(Batch(fresh[i], index[i]))]
    <2>1. pc[i] \in AtWork /\ How[run[i]] = "lambda"
      BY <1>4 DEF MarkCompleted, AtWork
    <2>2. run[i] \in Runs /\ store[run[i]] \in Logs(run[i])
      BY <1>0, <1>3, <2>1 DEF StoreOK
    <2>3. log \in Logs(run[i])
      BY <1>0, <1>3, <2>1, <2>2, LogType
    <2>4. store' = [store EXCEPT ![run[i]] = log]
      BY <1>4 DEF MarkCompleted
    <2> HIDE DEF log
    <2>5. QED
      BY <1>2, <2>2, <2>3, <2>4
  <1>5. ASSUME NEW i \in Invocations, TruncateLog(i) PROVE \A r \in Runs : StoreOK(r)'
    BY <1>0, <1>5 DEF TruncateLog, StoreOK
  <1>6. ASSUME NEW i \in Invocations, WriteLog(i) PROVE \A r \in Runs : StoreOK(r)'
    BY <1>2, <1>3, <1>6 DEF WriteLog, AtWork
  <1>7. ASSUME NEW r \in Runs, RemoveTornLog(r) PROVE \A q \in Runs : StoreOK(q)'
    BY <1>2, <1>7, LogType DEF RemoveTornLog
  <1>8. QED
    BY <1>1, <1>4, <1>5, <1>6, <1>7, StoreWrites

\* What holds of one invocation holds while it does not act.
LEMMA OthersKeep ==
    ASSUME TypeInv, JobsStep, jobs' \in Seq(Job), NEW i \in Invocations, LocalOK(i), Same(i)
    PROVE  LocalOK(i)'
  <1>0. jobs \in Seq(Job) /\ uuid[i] \in Nat /\ Len(jobs) \in Nat /\ Len(jobs') \in Nat
    BY DEF TypeInv
  <1>1. RowsOK(i)' /\ BlankOK(i)' /\ PlaceOK(i)'
    BY DEF LocalOK, Same, RowsOK, BlankOK, PlaceOK, Running, MoreBatches
  <1>2. JobAtHand(i)'
    <2>1. Len(jobs') >= Len(jobs) /\ DOMAIN jobs \subseteq DOMAIN jobs'
      BY <1>0 DEF JobsStep
    <2>2. /\ uuid[i] <= Len(jobs) /\ Names(setAtExport[i], jobs)
          /\ setAtExport[i] \in [Ids -> Nat]
      BY DEF LocalOK, JobAtHand, TypeInv
    <2>3. uuid'[i] <= Len(jobs') /\ Names(setAtExport'[i], jobs')
      BY <1>0, <2>1, <2>2, NamesStay DEF Same
    <2>4. uuid[i] # 0 => uuid[i] \in DOMAIN jobs
      BY <1>0, <2>2
    <2>5. Batch(fresh[i], index[i])' = Batch(fresh[i], index[i])
      BY DEF Same, Batch
    <2>6. QED
      BY <2>3, <2>4, <2>5 DEF LocalOK, JobAtHand, Same, JobsStep, AtWork
  <1>3. QED
    BY <1>1, <1>2 DEF LocalOK
\* An empty sequence of rows.
LEMMA NoRows ==
    /\ <<>> \in Seq(AllRows) /\ Len(<<>>) = 0
    /\ Distinct(<<>>) /\ ToSet(<<>>) = {}
  BY DEF Distinct, ToSet

\* An invocation that is over has forgotten everything.
LEMMA EndKeeps ==
    ASSUME TypeInv, NEW i \in Invocations, End(i), jobs' \in Seq(Job)
    PROVE  LocalOK(i)'
  <1>1. /\ pc'[i] = "ended" /\ updates'[i] = <<>> /\ fresh'[i] = <<>> /\ index'[i] = 0
        /\ uuid'[i] = 0 /\ result'[i] = NoResult /\ setAtExport'[i] = NothingSet
    BY DEF TypeInv, End, Goto
  <1>2. RowsOK(i)' /\ BlankOK(i)'
    BY <1>1, NoRows DEF RowsOK, BlankOK
  <1>3. PlaceOK(i)'
    BY <1>1 DEF PlaceOK, Running, AtWork
  <1>4. JobAtHand(i)'
    <2>1. Len(jobs') \in Nat
      OBVIOUS
    <2>2. Names(NothingSet, jobs')
      BY <2>1 DEF Names, NothingSet
    <2>3. QED
      BY <1>1, <2>1, <2>2 DEF JobAtHand, Names, AtWork
  <1>5. QED
    BY <1>2, <1>3, <1>4 DEF LocalOK

LEMMA StartKeeps ==
    ASSUME ControlInv, NEW i \in Invocations, NEW r \in Runs, NEW limit \in Limits,
           NEW force, Start(i, r, limit, force)
    PROVE  LocalOK(i)'
  <1>0. TypeInv /\ LocalOK(i) /\ pc[i] = "ready"
    BY DEF ControlInv, Start, Invoked
  <1>1. /\ pc'[i] = "export" /\ run'[i] = r /\ completed'[i] = NothingCompleted(r)
        /\ fresh'[i] = fresh[i] /\ index'[i] = index[i] /\ uuid'[i] = uuid[i]
        /\ result'[i] = result[i] /\ setAtExport'[i] = setAtExport[i] /\ jobs' = jobs
    BY <1>0 DEF Start, Goto, TypeInv, ctVars
  <1>2. /\ fresh[i] = <<>> /\ index[i] = 0 /\ result[i] = NoResult
        /\ setAtExport[i] = NothingSet
    BY <1>0 DEF LocalOK, BlankOK, Exported, AtWork
  <1>3. updates'[i] \in Seq(AllRows) /\ Distinct(updates'[i])
    <2>a. Plan[r] \in Seq(AllRows) /\ Distinct(Plan[r]) /\ Len(Plan[r]) \in Nat
      BY PlanRows
    <2>b. limit \in Nat
      BY PlanAssumption
    <2>1. /\ Plan[r] \in Seq(AllRows) /\ Distinct(Plan[r]) /\ Len(Plan[r]) \in Nat
          /\ limit \in Nat
      BY <2>a, <2>b
    <2>2. CASE limit = 0 \/ limit > Len(Plan[r])
      <3>1. updates'[i] = Plan[r]
        BY <1>0, <2>2 DEF Start, TypeInv
      <3>2. QED
        BY <2>1, <3>1
    <2>3. CASE ~ (limit = 0 \/ limit > Len(Plan[r]))
      <3>1. updates'[i] = SubSeq(Plan[r], 1, limit)
        BY <1>0, <2>3 DEF Start, TypeInv
      <3>2. limit >= 1 /\ limit <= Len(Plan[r])
        BY <2>1, <2>3
      <3>3. /\ SubSeq(Plan[r], 1, limit) \in Seq(AllRows)
            /\ Distinct(SubSeq(Plan[r], 1, limit))
        BY <2>1, <3>2, SliceRows
      <3>4. QED
        BY <3>1, <3>3
    <2>4. QED
      BY <2>2, <2>3
  <1>4. RowsOK(i)' /\ BlankOK(i)'
    <2>1. Len(updates'[i]) \in Nat
      BY <1>3
    <2>2. QED
      BY <1>1, <1>2, <1>3, <2>1, NoRows DEF RowsOK, BlankOK
  <1>5. PlaceOK(i)'
    <2>1. 0 * BatchSize < 0 + BatchSize
      BY PlanAssumption
    <2>2. QED
      BY <1>1, <1>2, <2>1, LogType, NoRows DEF PlaceOK, Running, AtWork
  <1>6. JobAtHand(i)'
    BY <1>0, <1>1 DEF LocalOK, JobAtHand, AtWork
  <1>7. QED
    BY <1>4, <1>5, <1>6 DEF LocalOK

LEMMA ExportKeeps ==
    ASSUME ControlInv, NEW i \in Invocations, Export(i)
    PROVE  LocalOK(i)'
  <1>0. /\ TypeInv /\ LocalOK(i) /\ pc[i] = "export"
        /\ updates[i] \in Seq(AllRows) /\ jobs \in Seq(Job)
    BY DEF ControlInv, Export, TypeInv
  <1>1. /\ pc'[i] = IF How[run[i]] = "cli" THEN "open" ELSE "batch"
        /\ run'[i] = run[i] /\ completed'[i] = completed[i] /\ updates'[i] = updates[i]
        /\ fresh'[i] = FreshRows(updates[i])
        /\ index'[i] = index[i] /\ uuid'[i] = uuid[i] /\ jobs' = jobs
        /\ setAtExport'[i] = setBy /\ Names(setBy, jobs) /\ index[i] = 0
    BY <1>0 DEF Export, Goto, TypeInv, ctVars, LocalOK, BlankOK, ControlInv, Exported, AtWork
  <1>2. KeptOf(updates[i], Len(updates[i]), fresh'[i])
    BY <1>0, <1>1, FreshRowsKeeps
  <1>3. RowsOK(i)'
    <2>1. Distinct(updates[i])
      BY <1>0 DEF LocalOK, RowsOK
    <2>2. fresh'[i] \in Seq(AllRows)
      BY <1>2 DEF KeptOf
    <2>3. ToSet(fresh'[i]) \subseteq ToSet(updates[i])
      <3>1. DOMAIN fresh'[i] = 1 .. Len(fresh'[i])
        BY <2>2
      <3>2. DOMAIN updates[i] = 1 .. Len(updates[i])
        BY <1>0
      <3>3. QED
        BY <1>2, <3>1, <3>2 DEF KeptOf, ToSet
    <2>4. QED
      BY <1>1, <1>2, <2>1, <2>3 DEF RowsOK, KeptOf
  <1>4. BlankOK(i)' /\ JobAtHand(i)'
    BY <1>0, <1>1 DEF LocalOK, BlankOK, JobAtHand, Exported, AtWork
  <1>5. PlaceOK(i)'
    <2>1. Len(fresh'[i]) \in Nat
      BY <1>2 DEF KeptOf
    <2>2. 0 * BatchSize < Len(fresh'[i]) + BatchSize
      BY <2>1, PlanAssumption
    <2>3. QED
      BY <1>0, <1>1, <2>2 DEF LocalOK, PlaceOK, Running, AtWork
  <1>6. QED
    BY <1>3, <1>4, <1>5 DEF LocalOK

\* One more batch does not go past the batch the last row is in.
LEMMA NextInReach ==
    ASSUME ControlInv, NEW i \in Invocations, MoreBatches(i)
    PROVE  (index[i] + 1) * BatchSize < Len(fresh[i]) + BatchSize
  <1>1. index[i] \in Nat /\ fresh[i] \in Seq(AllRows) /\ BatchSize \in Nat
    BY PlanAssumption DEF ControlInv, TypeInv
  <1> DEFINE start == index[i] * BatchSize
             next == (index[i] + 1) * BatchSize
             len == Len(fresh[i])
  <1>2. start \in Nat /\ next = start + BatchSize /\ len \in Nat
    BY <1>1, BatchBegins
  <1>3. start < len
    BY DEF MoreBatches
  <1> HIDE DEF start, next, len
  <1>4. next < len + BatchSize
    BY <1>1, <1>2, <1>3
  <1>5. QED
    BY <1>4 DEF next, len

LEMMA PostKeeps ==
    ASSUME ControlInv, NEW i \in Invocations, PostBatch(i)
    PROVE  LocalOK(i)'
  <1>0. TypeInv /\ LocalOK(i) /\ pc[i] = "batch" /\ MoreBatches(i) /\ Queued(i)
    BY DEF ControlInv, PostBatch, Queued
  <1>1. /\ pc'[i] = "poll" /\ uuid'[i] = Len(jobs) + 1
        /\ run'[i] = run[i] /\ completed'[i] = completed[i] /\ updates'[i] = updates[i]
        /\ fresh'[i] = fresh[i] /\ index'[i] = index[i] /\ result'[i] = result[i]
        /\ setAtExport'[i] = setAtExport[i]
    BY <1>0 DEF PostBatch, Goto, TypeInv
  <1> DEFINE job == [rows |-> Batch(fresh[i], index[i]), state |-> "pending",
                     failed |-> {}, after |-> setAtExport[i]]
  <1>2. job.rows = Batch(fresh[i], index[i])
    OBVIOUS
  <1> HIDE DEF job
  <1>3. /\ jobs' \in Seq(Job) /\ Len(jobs') = Len(jobs) + 1
        /\ jobs'[Len(jobs) + 1] = job
    BY <1>0, QueueAppends DEF job
  <1>4. Len(jobs) \in Nat /\ DOMAIN jobs = 1 .. Len(jobs) /\ DOMAIN jobs' = 1 .. Len(jobs) + 1
    BY <1>0, <1>3 DEF TypeInv
  <1>5. JobAtHand(i)'
    <2>1. Batch(fresh[i], index[i])' = Batch(fresh[i], index[i])
      BY <1>1 DEF Batch
    <2>2. Names(setAtExport[i], jobs')
      BY <1>0, <1>3, <1>4 DEF LocalOK, JobAtHand, Names, TypeInv
    <2>3. Len(jobs) + 1 # 0 /\ Len(jobs) + 1 <= Len(jobs) + 1
      BY <1>4
    <2>4. QED
      BY <1>1, <1>2, <1>3, <2>1, <2>2, <2>3 DEF JobAtHand
  <1>6. RowsOK(i)' /\ BlankOK(i)'
    BY <1>0, <1>1 DEF LocalOK, RowsOK, BlankOK, Exported, AtWork
  <1>7. PlaceOK(i)'
    BY <1>0, <1>1 DEF LocalOK, PlaceOK, Running, MoreBatches
  <1>8. QED
    BY <1>5, <1>6, <1>7 DEF LocalOK

LEMMA ActorKeeps ==
    ASSUME ControlInv, jobs' \in Seq(Job), NEW i \in Invocations, Acts(i)
    PROVE  LocalOK(i)'
  <1>0. TypeInv /\ LocalOK(i)
    BY DEF ControlInv
  <1>1. ASSUME NEW r \in Runs, Refuse(i, r) PROVE LocalOK(i)'
    <2>1. /\ pc[i] = "ready" /\ pc'[i] = "ended" /\ jobs' = jobs
          /\ run'[i] = run[i] /\ completed'[i] = completed[i] /\ updates'[i] = updates[i]
          /\ fresh'[i] = fresh[i] /\ index'[i] = index[i] /\ uuid'[i] = uuid[i]
          /\ result'[i] = result[i] /\ setAtExport'[i] = setAtExport[i]
      BY <1>0, <1>1 DEF Refuse, Invoked, Goto, TypeInv, localVars, ctVars
    <2>2. QED
      BY <1>0, <2>1 DEF LocalOK, RowsOK, BlankOK, PlaceOK, JobAtHand, Running, Exported,
                        AtWork
  <1>2. CASE OpenLog(i)
    <2>1. /\ pc[i] = "open" /\ pc'[i] = "batch" /\ jobs' = jobs
          /\ run'[i] = run[i] /\ completed'[i] = store[run[i]]
          /\ updates'[i] = updates[i] /\ fresh'[i] = fresh[i]
          /\ index'[i] = index[i] /\ uuid'[i] = uuid[i]
          /\ result'[i] = result[i] /\ setAtExport'[i] = setAtExport[i]
      BY <1>0, <1>2 DEF OpenLog, Goto, TypeInv, ctVars
    <2>2. run[i] \in Runs /\ store[run[i]] \in Logs(run[i])
      BY <1>0, <1>2 DEF OpenLog, ControlInv, StoreOK, LocalOK, PlaceOK, Running
    <2>3. QED
      BY <1>0, <2>1, <2>2 DEF LocalOK, RowsOK, BlankOK, PlaceOK, JobAtHand, Running,
                              Exported, AtWork
  <1>3. CASE SkipCompleted(i)
    <2>1. /\ pc[i] = "batch" /\ pc'[i] = pc[i] /\ jobs' = jobs
          /\ run'[i] = run[i] /\ completed'[i] = completed[i] /\ updates'[i] = updates[i]
          /\ fresh'[i] = fresh[i] /\ index'[i] = index[i] + 1 /\ uuid'[i] = uuid[i]
          /\ setAtExport'[i] = setAtExport[i]
      BY <1>0, <1>3 DEF SkipCompleted, TypeInv, ctVars
    <2>2. (index[i] + 1) * BatchSize < Len(fresh[i]) + BatchSize
      BY <1>3, NextInReach DEF SkipCompleted
    <2>3. QED
      BY <1>0, <2>1, <2>2 DEF LocalOK, RowsOK, BlankOK, PlaceOK, JobAtHand, Running,
                              Exported, AtWork
  <1>4. CASE JobCompleted(i)
    <2>1. /\ pc[i] = "poll" /\ pc'[i] = "mark" /\ jobs' = jobs
          /\ run'[i] = run[i] /\ completed'[i] = completed[i] /\ updates'[i] = updates[i]
          /\ fresh'[i] = fresh[i] /\ index'[i] = index[i] /\ uuid'[i] = uuid[i]
          /\ setAtExport'[i] = setAtExport[i] /\ jobs[uuid[i]].state = "completed"
      BY <1>0, <1>4 DEF JobCompleted, Done, Goto, TypeInv, ctVars
    <2>2. QED
      BY <1>0, <2>1 DEF LocalOK, RowsOK, BlankOK, PlaceOK, JobAtHand, Running, MoreBatches,
                        Exported, AtWork, Batch
  <1>5. CASE TruncateLog(i)
    <2>1. /\ pc[i] = "mark" /\ pc'[i] = "write" /\ jobs' = jobs /\ How[run[i]] = "cli"
          /\ run'[i] = run[i] /\ updates'[i] = updates[i]
          /\ completed'[i] = [completed[i] EXCEPT
                                 ![index[i]] = IdsOf(Batch(fresh[i], index[i]))]
          /\ fresh'[i] = fresh[i] /\ index'[i] = index[i] /\ uuid'[i] = uuid[i]
          /\ setAtExport'[i] = setAtExport[i]
      BY <1>0, <1>5 DEF TruncateLog, Goto, TypeInv, ctVars
    <2>2. run[i] \in Runs /\ completed[i] \in Logs(run[i]) /\ MoreBatches(i) /\ index[i] \in Nat
      BY <1>0, <2>1 DEF LocalOK, PlaceOK, Running, AtWork, TypeInv
    <2>3. completed'[i] \in Logs(run[i])
      <3>1. IdsOf(Batch(fresh[i], index[i])) \in SUBSET Ids
        BY <2>2, BatchAtHand
      <3>2. [completed[i] EXCEPT ![index[i]] = IdsOf(Batch(fresh[i], index[i]))]
               \in Logs(run[i])
        BY <2>2, <3>1, LogType
      <3>3. QED
        BY <2>1, <3>2
    <2>4. QED
      BY <1>0, <2>1, <2>2, <2>3 DEF LocalOK, RowsOK, BlankOK, PlaceOK, JobAtHand, Running,
                        MoreBatches, Exported, AtWork, Batch
  <1>6. CASE MarkCompleted(i) \/ WriteLog(i)
    <2>1. /\ pc[i] \in {"mark", "write"} /\ pc'[i] = "batch" /\ jobs' = jobs
          /\ run'[i] = run[i] /\ completed'[i] = completed[i] /\ updates'[i] = updates[i]
          /\ fresh'[i] = fresh[i] /\ index'[i] = index[i] + 1 /\ uuid'[i] = uuid[i]
          /\ setAtExport'[i] = setAtExport[i]
      BY <1>0, <1>6 DEF MarkCompleted, WriteLog, NextBatch, Goto, TypeInv, ctVars
    <2>2. MoreBatches(i) /\ Running(i)
      BY <1>0, <2>1 DEF LocalOK, PlaceOK, Running, AtWork
    <2>3. (index[i] + 1) * BatchSize < Len(fresh[i]) + BatchSize
      BY <2>2, NextInReach
    <2>4. QED
      BY <1>0, <2>1, <2>2, <2>3 DEF LocalOK, RowsOK, BlankOK, PlaceOK, JobAtHand, Running,
                              Exported, AtWork
  <1>7. CASE End(i)
    BY <1>0, <1>7, EndKeeps
  <1>8. QED
    BY <1>1, <1>2, <1>3, <1>4, <1>5, <1>6, <1>7, StartKeeps, ExportKeeps, PostKeeps
    DEF Acts, Handler, OpenTornLog, PostBatchUnanswered, Finish, Fail

LEMMA ControlStep ==
    ASSUME ControlInv, [Next]_vars
    PROVE  ControlInv'
  <1>0. TypeInv /\ \A i \in Invocations : LocalOK(i)
    BY DEF ControlInv
  <1>1. jobs' \in Seq(Job) /\ JobsStep
    BY JobsGrow
  <1>2. ASSUME NEW i \in Invocations PROVE LocalOK(i)'
    <2>1. ASSUME NEW h \in Invocations, Acts(h) PROVE LocalOK(i)'
      <3>1. CASE h = i
        BY <1>1, <2>1, <3>1, ActorKeeps
      <3>2. CASE h # i
        BY <1>0, <1>1, <2>1, <3>2, OneActs, OthersKeep
      <3>3. QED
        BY <3>1, <3>2
    <2>2. CASE UNCHANGED <<pc, localVars>>
      <3>1. Same(i)
        BY <2>2 DEF Same, localVars
      <3>2. QED
        BY <1>0, <1>1, <3>1, OthersKeep
    <2>3. QED
      BY <2>1, <2>2, StepOf
  <1>3. QED
    BY <1>2, TypeStep, JobsOKStep, SetByStep, StoreOKStep DEF ControlInv

LEMMA InitControl == Init => ControlInv
  <1> SUFFICES ASSUME Init PROVE ControlInv
    OBVIOUS
  <1>1. inventory \in [Ids -> Listing \cup {None}]
    BY PlanAssumption DEF Init, Listing
  <1>2. jobs \in Seq(Job) /\ Len(jobs) = 0 /\ DOMAIN jobs = {}
    BY DEF Init
  <1>3. store \in [Runs -> AnyLog] /\ \A r \in Runs : StoreOK(r)
    BY LogType DEF Init, StoreOK
  <1>4. NoResult \in Result /\ NothingSet \in [Ids -> Nat] /\ Names(NothingSet, jobs)
    BY <1>2 DEF NoResult, Result, NothingSet, Names
  <1>5. TypeInv
    BY <1>1, <1>2, <1>3, <1>4, NoRows DEF Init, TypeInv, PCs, AnyLog
  <1>6. ASSUME NEW i \in Invocations PROVE LocalOK(i)
    <2>1. RowsOK(i) /\ BlankOK(i) /\ PlaceOK(i)
      BY NoRows DEF Init, RowsOK, BlankOK, PlaceOK, Running, AtWork
    <2>2. JobAtHand(i)
      BY <1>2, <1>4 DEF Init, JobAtHand, AtWork
    <2>3. QED
      BY <2>1, <2>2 DEF LocalOK
  <1>7. Names(setBy, jobs)
    BY <1>4 DEF Init
  <1>8. QED
    BY <1>2, <1>3, <1>5, <1>6, <1>7 DEF ControlInv

LEMMA ControlAlways == Spec => []ControlInv
  BY InitControl, ControlStep, PTL DEF Spec

-------------------------------------------------------------------------------
\* Every variable keeps its type, whatever fails, overlaps or is retried: no
\* listing is left with a price or a quantity it cannot have, and an invocation
\* never works on a row or a batch that is not of its plan.
THEOREM ApplyTypeCorrect == Spec => []TypeOK
  <1>1. ControlInv => TypeOK
    <2> SUFFICES ASSUME ControlInv PROVE TypeOK
      OBVIOUS
    <2>0. TypeInv /\ \A i \in Invocations : LocalOK(i)
      BY DEF ControlInv
    <2>1. ASSUME NEW x \in Ids, inventory[x] # None
          PROVE  inventory[x].price \in Nat /\ inventory[x].qty \in Nat
      <3>1. inventory[x] \in Listing
        BY <2>0, <2>1 DEF TypeInv
      <3>2. QED
        BY <3>1 DEF Listing
    <2>2. ASSUME NEW j \in DOMAIN jobs
          PROVE  /\ jobs[j].state \in {"pending", "completed", "unprocessable"}
                 /\ ToSet(jobs[j].rows) \subseteq AllRows
                 /\ JobOK(j) /\ jobs[j].after \in [Ids -> 0 .. Len(jobs)]
      <3>1. jobs[j] \in Job /\ JobOK(j)
        BY <2>0 DEF TypeInv, ControlInv
      <3>2. jobs[j].rows \in Seq(AllRows)
        BY <3>1 DEF Job
      <3>3. ToSet(jobs[j].rows) \subseteq AllRows
        BY <3>2 DEF ToSet
      <3>4. Len(jobs) \in Nat /\ jobs[j].after \in [Ids -> Nat]
        BY <2>0, <3>1 DEF TypeInv, Job
      <3>5. jobs[j].after \in [Ids -> 0 .. Len(jobs)]
        BY <3>1, <3>4 DEF JobOK, Names
      <3>6. QED
        BY <3>1, <3>3, <3>5 DEF Job
    <2>s. setBy \in [Ids -> 0 .. Len(jobs)]
      <3>1. setBy \in [Ids -> Nat] /\ Len(jobs) \in Nat /\ Names(setBy, jobs)
        BY <2>0 DEF TypeInv, ControlInv
      <3>2. QED
        BY <3>1 DEF Names
    <2>3. \A r \in Runs : store[r] = Torn \/ store[r] \in Logs(r)
      BY DEF ControlInv, StoreOK
    <2>4. ASSUME NEW i \in Invocations
          PROVE  /\ pc[i] \in {"ready", "export", "open", "batch", "poll", "mark", "write",
                              "ended"}
                 /\ Running(i) =>
                       /\ run[i] \in Runs
                       /\ completed[i] \in Logs(run[i])
                       /\ index[i] \in Nat
                       /\ index[i] * BatchSize < Len(fresh[i]) + BatchSize
                 /\ ToSet(fresh[i]) \subseteq ToSet(updates[i])
                 /\ uuid[i] \in 0 .. Len(jobs)
      <3>2. Len(jobs) \in Nat /\ index[i] \in Nat /\ uuid[i] \in Nat
        BY <2>0 DEF TypeInv
      <3>3. pc[i] \in PCs
        BY <2>0 DEF TypeInv
      <3>4. QED
        BY <2>0, <3>2, <3>3
        DEF LocalOK, PlaceOK, RowsOK, JobAtHand, PCs, Exported, AtWork
    <2>5. QED
      BY <2>1, <2>2, <2>s, <2>3, <2>4 DEF TypeOK, JobOK
  <1>2. QED
    BY <1>1, ControlAlways, PTL
-------------------------------------------------------------------------------
(***************************************************************************)
(* What the stores record                                                  *)
(***************************************************************************)

LEMMA TruthStays ==
    ASSUME ControlInv, [Next]_vars, NEW log, Truthful(log, jobs)
    PROVE  Truthful(log, jobs')
  <1>1. jobs \in Seq(Job) /\ jobs' \in Seq(Job) /\ JobsStep
    BY JobsGrow DEF ControlInv, TypeInv
  <1>2. DOMAIN jobs \subseteq DOMAIN jobs'
    BY <1>1 DEF JobsStep
  <1>3. QED
    BY <1>1, <1>2 DEF Truthful, JobsStep

LEMMA NothingIsTruthful ==
    ASSUME NEW r \in Runs, NEW js
    PROVE  Truthful(NothingCompleted(r), js)
  BY DEF Truthful, NothingCompleted

\* Recording the batch of a completed job.
LEMMA RecordedBatch ==
    ASSUME RecordsInv, NEW i \in Invocations, pc[i] \in {"mark", "write"},
           NEW log, Truthful(log, jobs)
    PROVE  Truthful([log EXCEPT ![index[i]] = IdsOf(Batch(fresh[i], index[i]))], jobs)
  <1> DEFINE ids == IdsOf(Batch(fresh[i], index[i]))
  <1>1. /\ jobs \in Seq(Job) /\ uuid[i] \in Nat /\ uuid[i] <= Len(jobs) /\ uuid[i] # 0
        /\ jobs[uuid[i]].state = "completed" /\ IdsOf(jobs[uuid[i]].rows) = ids
    BY DEF RecordsInv, ControlInv, TypeInv, LocalOK, JobAtHand, AtWork
  <1>2. uuid[i] \in DOMAIN jobs
    BY <1>1
  <1> HIDE DEF ids
  <1> DEFINE k == index[i]
             more == [log EXCEPT ![k] = ids]
  <1>3. DOMAIN more = DOMAIN log /\ \A h \in DOMAIN log : more[h] = IF h = k THEN ids ELSE log[h]
    OBVIOUS
  <1> HIDE DEF k, more
  <1>4. Truthful(more, jobs)
    BY <1>1, <1>2, <1>3 DEF Truthful
  <1>5. QED
    BY <1>4 DEF more, k, ids

LEMMA RecordsStep ==
    ASSUME RecordsInv, [Next]_vars
    PROVE  RecordsInv'
  <1>0. /\ ControlInv /\ ControlInv' /\ TypeInv
        /\ \A r \in Runs : StoreOK(r)
        /\ \A i \in Invocations : LocalOK(i)
    BY ControlStep DEF RecordsInv, ControlInv
  <1>a. ASSUME NEW i \in Invocations, Running(i)
        PROVE  run[i] \in Runs /\ completed[i] \in Logs(run[i])
    BY <1>0, <1>a DEF LocalOK, PlaceOK
  <1>1. ASSUME NEW r \in Runs, store'[r] # Torn \/ How[r] = "lambda"
        PROVE  Truthful(store'[r], jobs')
    <2>1. CASE store'[r] = store[r]
      BY <1>0, <1>1, <2>1, TruthStays DEF RecordsInv
    <2>2. ASSUME NEW i \in Invocations, MarkCompleted(i) PROVE Truthful(store'[r], jobs')
      <3>1. CASE run[i] # r
        BY <1>0, <2>1, <2>2, <3>1 DEF MarkCompleted, TypeInv
      <3>2. CASE run[i] = r
        <4>1. pc[i] = "mark" /\ How[r] = "lambda"
          BY <2>2, <3>2 DEF MarkCompleted
        <4>2. store'[r] = [store[r] EXCEPT ![index[i]] = IdsOf(Batch(fresh[i], index[i]))]
          BY <1>0, <2>2, <3>2 DEF MarkCompleted, TypeInv
        <4>3. Truthful(store[r], jobs)
          BY <4>1 DEF RecordsInv
        <4>4. Truthful(store'[r], jobs)
          BY <4>1, <4>2, <4>3, RecordedBatch
        <4>5. QED
          BY <1>0, <4>4, TruthStays
      <3>3. QED
        BY <3>1, <3>2
    <2>3. ASSUME NEW i \in Invocations, TruncateLog(i) PROVE Truthful(store'[r], jobs')
      <3>1. store'[r] = store[r] \/ (store'[r] = Torn /\ How[r] = "cli")
        BY <1>0, <2>3 DEF TruncateLog, TypeInv
      <3>2. QED
        BY <1>1, <2>1, <3>1
    <2>4. ASSUME NEW i \in Invocations, WriteLog(i) PROVE Truthful(store'[r], jobs')
      <3>1. Truthful(completed[i], jobs)
        BY <2>4 DEF WriteLog, RecordsInv, Running
      <3>2. store'[r] = completed[i] \/ store'[r] = store[r]
        BY <1>0, <2>4 DEF WriteLog, TypeInv
      <3>3. QED
        BY <1>0, <2>1, <3>1, <3>2, TruthStays
    <2>5. ASSUME NEW q \in Runs, RemoveTornLog(q) PROVE Truthful(store'[r], jobs')
      <3>1. store'[r] = NothingCompleted(q) \/ store'[r] = store[r]
        BY <1>0, <2>5 DEF RemoveTornLog, TypeInv
      <3>2. QED
        BY <2>1, <3>1, NothingIsTruthful
    <2>6. QED
      BY <2>1, <2>2, <2>3, <2>4, <2>5, StoreWrites
  <1>2. ASSUME NEW i \in Invocations, Running(i)' PROVE Truthful(completed'[i], jobs')
    <2>1. CASE completed'[i] = completed[i] /\ Running(i)
      BY <1>0, <2>1, TruthStays DEF RecordsInv
    <2>2. CASE Same(i)
      BY <1>2, <2>1, <2>2 DEF Same, Running
    <2>3. CASE Acts(i)
      <3>1. ASSUME NEW r \in Runs, NEW limit, NEW force, Start(i, r, limit, force)
            PROVE  Truthful(completed'[i], jobs')
        BY <1>0, <3>1, NothingIsTruthful DEF Start, TypeInv
      <3>2. ASSUME NEW r \in Runs, Refuse(i, r) PROVE FALSE
        BY <1>0, <1>2, <3>2 DEF Refuse, Goto, TypeInv, Running
      <3>3. CASE OpenLog(i)
        <4>1. run[i] \in Runs /\ store[run[i]] # Torn /\ completed'[i] = store[run[i]]
          BY <1>0, <1>a, <3>3 DEF OpenLog, TypeInv, Running
        <4>2. QED
          BY <1>0, <4>1, TruthStays DEF RecordsInv
      <3>4. CASE TruncateLog(i)
        <4>1. pc[i] = "mark" /\ Truthful(completed[i], jobs)
          BY <3>4 DEF TruncateLog, RecordsInv, Running
        <4>2. completed'[i] = [completed[i] EXCEPT
                                  ![index[i]] = IdsOf(Batch(fresh[i], index[i]))]
          BY <1>0, <3>4 DEF TruncateLog, TypeInv
        <4>3. Truthful(completed'[i], jobs)
          BY <4>1, <4>2, RecordedBatch
        <4>4. QED
          BY <1>0, <4>3, TruthStays
      <3>5. CASE Export(i) \/ SkipCompleted(i) \/ PostBatch(i) \/ JobCompleted(i)
                 \/ MarkCompleted(i) \/ WriteLog(i)
        BY <2>1, <3>5 DEF Export, SkipCompleted, PostBatch, Queued, JobCompleted,
                          MarkCompleted, WriteLog, Running
      <3>6. CASE End(i)
        BY <1>0, <1>2, <3>6 DEF End, Goto, TypeInv, Running
      <3>7. QED
        BY <2>3, <3>1, <3>2, <3>3, <3>4, <3>5, <3>6
        DEF Acts, Handler, OpenTornLog, PostBatchUnanswered, Finish, Fail
    <2>4. ASSUME NEW h \in Invocations, Acts(h), h # i PROVE Same(i)
      BY <1>0, <2>4, OneActs
    <2>5. CASE UNCHANGED <<pc, localVars>>
      BY <2>2, <2>5 DEF Same, localVars
    <2>6. QED
      BY <2>2, <2>3, <2>4, <2>5, StepOf
  <1>3. QED
    BY <1>0, <1>1, <1>2 DEF RecordsInv

\* Whatever crashed, whoever else wrote and whatever log was torn, a store that
\* can be read names only batches that CardTrader finished.
THEOREM StoresTellTheTruth == Spec => []StoreRecordsCompletedJobs
  <1>1. Init => RecordsInv
    <2> SUFFICES ASSUME Init PROVE RecordsInv
      OBVIOUS
    <2>1. \A r \in Runs : Truthful(store[r], jobs)
      BY NothingIsTruthful DEF Init
    <2>2. \A i \in Invocations : ~Running(i)
      BY DEF Init, Running
    <2>3. QED
      BY <2>1, <2>2, InitControl DEF RecordsInv
  <1>2. RecordsInv => StoreRecordsCompletedJobs
    <2> SUFFICES ASSUME RecordsInv, NEW r \in Runs, store[r] # Torn,
                        NEW k \in Indices(r), store[r][k] # None
                 PROVE  \E j \in DOMAIN jobs :
                           jobs[j].state = "completed" /\ IdsOf(jobs[j].rows) = store[r][k]
      BY DEF StoreRecordsCompletedJobs
    <2>1. store[r] \in Logs(r)
      BY DEF RecordsInv, ControlInv, StoreOK
    <2>2. k \in DOMAIN store[r]
      BY <2>1 DEF Logs
    <2>3. QED
      BY <2>2 DEF RecordsInv, Truthful
  <1>3. QED
    BY <1>1, <1>2, RecordsStep, PTL DEF Spec
-------------------------------------------------------------------------------
(***************************************************************************)
(* Every row is handled, and counted once                                  *)
(***************************************************************************)

\* Every job that completed is still there, so what it handled stays handled.
LEMMA HandledStays ==
    ASSUME ControlInv, [Next]_vars, NEW i \in Invocations, NEW x, Handled(i, x),
           result[i].skipped \subseteq result'[i].skipped
    PROVE  Handled(i, x)'
  <1>1. jobs \in Seq(Job) /\ jobs' \in Seq(Job) /\ JobsStep
    BY JobsGrow DEF ControlInv, TypeInv
  <1>2. DOMAIN jobs \subseteq DOMAIN jobs'
    BY <1>1 DEF JobsStep
  <1>3. QED
    BY <1>1, <1>2 DEF Handled, JobsStep

\* A step either leaves an invocation where it is in its rows, or puts it at
\* their start, or takes it past one more batch.
LEMMA IndexStep ==
    ASSUME ControlInv, [Next]_vars, NEW i \in Invocations
    PROVE  \/ /\ fresh'[i] = fresh[i] /\ index'[i] = index[i]
              /\ result'[i].skipped = result[i].skipped
           \/ index'[i] = 0
           \/ SkipCompleted(i)
           \/ /\ pc[i] \in {"mark", "write"} /\ pc'[i] = "batch"
              /\ fresh'[i] = fresh[i] /\ index'[i] = index[i] + 1
              /\ updates'[i] = updates[i] /\ result'[i] = result[i]
  <1>0. TypeInv /\ LocalOK(i)
    BY DEF ControlInv
  <1>1. CASE Same(i)
    BY <1>1 DEF Same
  <1>2. CASE Acts(i)
    <2>1. ASSUME NEW r \in Runs, NEW limit, NEW force, Start(i, r, limit, force)
          PROVE  fresh'[i] = fresh[i] /\ index'[i] = index[i] /\ result'[i] = result[i]
      BY <2>1 DEF Start
    <2>2. ASSUME NEW r \in Runs, Refuse(i, r)
          PROVE  fresh'[i] = fresh[i] /\ index'[i] = index[i] /\ result'[i] = result[i]
      BY <2>2 DEF Refuse, localVars
    <2>3. CASE Export(i)
      BY <1>0, <2>3 DEF Export, LocalOK, BlankOK, Exported, AtWork
    <2>4. CASE OpenLog(i) \/ PostBatch(i) \/ TruncateLog(i)
      BY <2>4 DEF OpenLog, PostBatch, TruncateLog
    <2>5. CASE JobCompleted(i)
      <3>1. PICK stats \in BOOLEAN : result'[i] = Counted(result[i], jobs[uuid[i]], stats)
        BY <1>0, <2>5 DEF JobCompleted, TypeInv
      <3>2. jobs[uuid[i]] \in Job /\ jobs[uuid[i]].failed \subseteq IdsOf(jobs[uuid[i]].rows)
        BY <1>0, <2>5 DEF JobCompleted, ControlInv, TypeInv, LocalOK, JobAtHand, JobOK, AtWork
      <3>3. result[i] \in Result
        BY <1>0 DEF TypeInv
      <3>4. Counted(result[i], jobs[uuid[i]], stats).skipped = result[i].skipped
        BY <3>2, <3>3, CountedType
      <3>5. QED
        BY <2>5, <3>1, <3>4 DEF JobCompleted
    <2>6. CASE MarkCompleted(i) \/ WriteLog(i)
      BY <1>0, <2>6 DEF MarkCompleted, WriteLog, NextBatch, Goto, TypeInv
    <2>7. CASE End(i)
      BY <1>0, <2>7 DEF End, TypeInv
    <2>8. QED
      BY <1>2, <2>1, <2>2, <2>3, <2>4, <2>5, <2>6, <2>7
      DEF Acts, Handler, OpenTornLog, PostBatchUnanswered, Finish, Fail
  <1>3. ASSUME NEW h \in Invocations, Acts(h), h # i PROVE Same(i)
    BY <1>0, <1>3, OneActs
  <1>4. CASE UNCHANGED <<pc, localVars>>
    BY <1>1, <1>4 DEF Same, localVars
  <1>5. QED
    BY <1>1, <1>2, <1>3, <1>4, StepOf

LEMMA HandledStep ==
    ASSUME HandledInv, [Next]_vars
    PROVE  HandledInv'
  <1>0. ControlInv /\ ControlInv' /\ TypeInv
    BY ControlStep DEF HandledInv, ControlInv
  <1> SUFFICES ASSUME NEW i \in Invocations, NEW x \in Before(fresh'[i], index'[i])
               PROVE  Handled(i, x)'
    BY <1>0 DEF HandledInv, Before
  <1>1. /\ fresh[i] \in Seq(AllRows) /\ fresh'[i] \in Seq(AllRows) /\ index[i] \in Nat
        /\ jobs \in Seq(Job) /\ uuid[i] \in Nat /\ LocalOK(i)
    BY <1>0 DEF ControlInv, TypeInv
  <1>2. CASE fresh'[i] = fresh[i] /\ index'[i] = index[i] /\ result'[i].skipped = result[i].skipped
    BY <1>0, <1>2, HandledStays DEF HandledInv
  <1>3. CASE index'[i] = 0
    BY <1>1, <1>3, BeforeEnds
  <1>4. CASE SkipCompleted(i)
    <2>1. /\ fresh'[i] = fresh[i] /\ index'[i] = index[i] + 1 /\ MoreBatches(i)
          /\ result'[i].skipped
                = result[i].skipped \cup IdsOf(Batch(fresh[i], index[i]))
      BY <1>0, <1>4 DEF SkipCompleted, TypeInv, Result
    <2>2. x \in Before(fresh[i], index[i]) \/ x \in IdsOf(Batch(fresh[i], index[i]))
      BY <1>1, <2>1, BatchRows DEF MoreBatches
    <2>3. CASE x \in Before(fresh[i], index[i])
      BY <1>0, <2>1, <2>3, HandledStays DEF HandledInv
    <2>4. CASE x \in IdsOf(Batch(fresh[i], index[i]))
      BY <2>1, <2>4 DEF Handled
    <2>5. QED
      BY <2>2, <2>3, <2>4
  <1>5. CASE /\ pc[i] \in {"mark", "write"} /\ pc'[i] = "batch"
             /\ fresh'[i] = fresh[i] /\ index'[i] = index[i] + 1
             /\ result'[i] = result[i]
    <2>1. /\ MoreBatches(i) /\ uuid[i] <= Len(jobs) /\ uuid[i] # 0
          /\ jobs[uuid[i]].state = "completed"
          /\ jobs[uuid[i]].rows = Batch(fresh[i], index[i])
      BY <1>1, <1>5 DEF LocalOK, PlaceOK, JobAtHand, AtWork
    <2>2. uuid[i] \in DOMAIN jobs
      BY <1>1, <2>1
    <2>3. x \in Before(fresh[i], index[i]) \/ x \in IdsOf(Batch(fresh[i], index[i]))
      BY <1>1, <1>5, <2>1, BatchRows DEF MoreBatches
    <2>4. Handled(i, x)
      BY <2>1, <2>2, <2>3 DEF HandledInv, Handled
    <2>5. QED
      BY <1>0, <1>5, <2>4, HandledStays
  <1>6. QED
    BY <1>0, <1>2, <1>3, <1>4, <1>5, IndexStep

\* No row falls between two batches: when the loop over the batches ends, each
\* fresh row was in a job that completed or in a batch skipped as completed.
THEOREM NoRowIsLost == Spec => []EveryFreshRowHandled
  <1>1. Init => HandledInv
    <2> SUFFICES ASSUME Init PROVE HandledInv
      OBVIOUS
    <2>1. \A i \in Invocations : fresh[i] = <<>> /\ index[i] = 0
      BY DEF Init
    <2>2. \A i \in Invocations : Before(fresh[i], index[i]) = {}
      BY <2>1, NoRows, BeforeEnds
    <2>3. QED
      BY <2>2, InitControl DEF HandledInv
  <1>2. HandledInv => EveryFreshRowHandled
    <2> SUFFICES ASSUME HandledInv, NEW i \in Invocations, LoopEnded(i),
                        NEW x \in IdsOf(fresh[i])
                 PROVE  Handled(i, x)
      BY DEF EveryFreshRowHandled, Handled
    <2>1. fresh[i] \in Seq(AllRows) /\ index[i] \in Nat
      BY DEF HandledInv, ControlInv, TypeInv
    <2>2. Before(fresh[i], index[i]) = IdsOf(fresh[i])
      BY <2>1, BeforeEnds DEF LoopEnded, MoreBatches
    <2>3. QED
      BY <2>2 DEF HandledInv
  <1>3. QED
    BY <1>1, <1>2, HandledStep, PTL DEF Spec
\* Nothing is counted when the batches begin.
LEMMA CountBegins ==
    ASSUME NEW rows \in Seq(AllRows), NEW given, NEW res,
           res.stale = Len(given) - Len(rows), res.ok = 0, res.error = 0,
           res.skipped = {}, res.uncounted = {}
    PROVE  Counts(res, rows, given, 0)
  <1>1. Cardinality({}) = 0 /\ Reached(rows, 0) = 0
    BY FS_EmptySet, BeforeEnds
  <1>2. QED
    BY <1>1 DEF Counts, Accounts

\* Of listings of the first batches there are as many more as the next batch has
\* rows, when its listings are added: none of them was there before.
LEMMA AddBatch ==
    ASSUME NEW rows \in Seq(AllRows), Distinct(rows), NEW k \in Nat,
           k * BatchSize < Len(rows), NEW ids, ids \subseteq Before(rows, k)
    PROVE  /\ Cardinality(ids) \in Nat /\ Len(Batch(rows, k)) \in Nat
           /\ Cardinality(ids \cup IdsOf(Batch(rows, k)))
                 = Cardinality(ids) + Len(Batch(rows, k))
           /\ ids \subseteq Before(rows, k + 1)
           /\ ids \cup IdsOf(Batch(rows, k)) \subseteq Before(rows, k + 1)
  <1> DEFINE batch == Batch(rows, k)
             more == IdsOf(batch)
  <1>1. /\ batch \in Seq(AllRows) /\ Distinct(batch)
        /\ Before(rows, k) \cap more = {}
        /\ Before(rows, k + 1) = Before(rows, k) \cup more
    BY BatchRows
  <1> HIDE DEF batch
  <1>2. IsFiniteSet(more) /\ Cardinality(more) = Len(batch) /\ Len(batch) \in Nat
    BY <1>1, IdsOfRows
  <1>3. IsFiniteSet(ids)
    <2>1. IsFiniteSet(IdsOf(rows)) /\ ids \subseteq IdsOf(rows)
      BY IdsOfRows DEF Before, IdsOf
    <2>2. QED
      BY <2>1, FS_Subset
  <1> HIDE DEF more
  <1>4. Cardinality(ids \cap more) = 0
    <2>1. ids \cap more = {}
      BY <1>1
    <2>2. QED
      BY <2>1, FS_EmptySet
  <1>5. Cardinality(ids) \in Nat
    BY <1>3, FS_CardinalityType
  <1>6. Cardinality(ids \cup more) = Cardinality(ids) + Len(batch)
    <2>1. Cardinality(ids \cup more)
             = Cardinality(ids) + Cardinality(more) - Cardinality(ids \cap more)
      BY <1>2, <1>3, FS_Union
    <2>2. QED
      BY <1>2, <1>4, <1>5, <2>1
  <1>7. QED
    BY <1>1, <1>2, <1>5, <1>6 DEF more, batch

\* A skipped batch adds its rows.
LEMMA CountSkipped ==
    ASSUME NEW rows \in Seq(AllRows), Distinct(rows), NEW given, NEW k \in Nat,
           k * BatchSize < Len(rows), NEW res \in Result, Counts(res, rows, given, k)
    PROVE  Counts([res EXCEPT !.skipped = @ \cup IdsOf(Batch(rows, k))], rows, given, k + 1)
  <1> DEFINE n == Len(Batch(rows, k))
             ids == IdsOf(Batch(rows, k))
             next == [res EXCEPT !.skipped = @ \cup ids]
             s == Cardinality(res.skipped)
             u == Cardinality(res.uncounted)
             before == Reached(rows, k)
             after == Reached(rows, k + 1)
  <1>1. res.skipped \subseteq Before(rows, k) /\ res.uncounted \subseteq Before(rows, k)
    BY DEF Counts
  <1>2. /\ s \in Nat /\ n \in Nat /\ Cardinality(res.skipped \cup ids) = s + n
        /\ res.skipped \cup ids \subseteq Before(rows, k + 1)
    BY <1>1, AddBatch
  <1>3. u \in Nat /\ res.uncounted \subseteq Before(rows, k + 1)
    BY <1>1, AddBatch
  <1>4. after = before + n
    BY BatchRows
  <1>5. /\ next.stale = res.stale /\ next.ok = res.ok /\ next.error = res.error
        /\ next.skipped = res.skipped \cup ids /\ next.uncounted = res.uncounted
        /\ res.ok \in Int /\ res.error \in Int
    BY DEF Result
  <1>6. res.stale = Len(given) - Len(rows) /\ res.ok + res.error + s + u = before
    BY DEF Counts, Accounts
  <1>7. before \in Int
    BY <1>2, <1>3, <1>5, <1>6
  <1> HIDE DEF n, ids, next, s, u, before, after
  <1>8. next.ok + next.error + Cardinality(next.skipped) + u = after
    BY <1>2, <1>3, <1>4, <1>5, <1>6, <1>7
  <1>9. Accounts(next, rows, given, k + 1)
    BY <1>5, <1>6, <1>8 DEF Accounts, u, after
  <1>10. Counts(next, rows, given, k + 1)
    BY <1>2, <1>3, <1>5, <1>9 DEF Counts
  <1>11. QED
    BY <1>10 DEF next, ids

\* A completed job adds its rows: each is ok or in error, or they are of a job
\* without stats.
LEMMA CountCompleted ==
    ASSUME NEW rows \in Seq(AllRows), Distinct(rows), NEW given, NEW k \in Nat,
           k * BatchSize < Len(rows), NEW res \in Result, Counts(res, rows, given, k),
           NEW job \in Job, job.failed \subseteq IdsOf(job.rows), job.rows = Batch(rows, k),
           NEW stats \in BOOLEAN
    PROVE  Counts(Counted(res, job, stats), rows, given, k + 1)
  <1> DEFINE next == Counted(res, job, stats)
             n == Len(Batch(rows, k))
             ids == IdsOf(Batch(rows, k))
             s == Cardinality(res.skipped)
             u == Cardinality(res.uncounted)
             before == Reached(rows, k)
             after == Reached(rows, k + 1)
  <1>1. res.skipped \subseteq Before(rows, k) /\ res.uncounted \subseteq Before(rows, k)
    BY DEF Counts
  <1>2. s \in Nat /\ n \in Nat /\ res.skipped \subseteq Before(rows, k + 1)
    BY <1>1, AddBatch
  <1>3. /\ u \in Nat /\ Cardinality(res.uncounted \cup ids) = u + n
        /\ res.uncounted \subseteq Before(rows, k + 1)
        /\ res.uncounted \cup ids \subseteq Before(rows, k + 1)
    BY <1>1, AddBatch
  <1>4. after = before + n
    BY BatchRows
  <1>5. /\ next \in Result /\ next.stale = res.stale /\ next.skipped = res.skipped
        /\ \/ /\ next.uncounted = res.uncounted
              /\ next.ok + next.error = res.ok + res.error + n
           \/ /\ next.uncounted = res.uncounted \cup ids
              /\ next.ok = res.ok /\ next.error = res.error
    BY CountedType
  <1>6. /\ res.ok \in Int /\ res.error \in Int /\ next.ok \in Int /\ next.error \in Int
    BY <1>5 DEF Result
  <1>7. res.stale = Len(given) - Len(rows) /\ res.ok + res.error + s + u = before
    BY DEF Counts, Accounts
  <1>8. before \in Int
    BY <1>2, <1>3, <1>6, <1>7
  <1> HIDE DEF next, n, ids, s, u, before, after
  <1>9. CASE next.uncounted = res.uncounted /\ next.ok + next.error = res.ok + res.error + n
    <2>1. next.ok + next.error + s + u = after
      <3> DEFINE old == res.ok + res.error
                 new == next.ok + next.error
      <3>1. old \in Int /\ new \in Int /\ new = old + n /\ old + s + u = before
        BY <1>6, <1>7, <1>9
      <3> HIDE DEF old, new
      <3>2. new + s + u = after
        BY <1>2, <1>3, <1>4, <1>8, <3>1
      <3>3. QED
        BY <3>2 DEF new
    <2>2. Accounts(next, rows, given, k + 1)
      BY <1>5, <1>7, <1>9, <2>1 DEF Accounts, s, u, after
    <2>3. Counts(next, rows, given, k + 1)
      BY <1>2, <1>3, <1>5, <1>9, <2>2 DEF Counts
    <2>4. QED
      BY <2>3 DEF next
  <1>10. CASE /\ next.uncounted = res.uncounted \cup ids
              /\ next.ok = res.ok /\ next.error = res.error
    <2>1. next.ok + next.error + s + Cardinality(next.uncounted) = after
      BY <1>2, <1>3, <1>4, <1>6, <1>7, <1>8, <1>10
    <2>2. Accounts(next, rows, given, k + 1)
      BY <1>5, <1>7, <2>1 DEF Accounts, s, after
    <2>3. Counts(next, rows, given, k + 1)
      BY <1>2, <1>3, <1>5, <1>10, <2>2 DEF Counts
    <2>4. QED
      BY <2>3 DEF next
  <1>11. QED
    BY <1>5, <1>9, <1>10

\* What is counted after a step is what CountOK asks for there.
LEMMA CountsHere ==
    ASSUME NEW i \in Invocations,
           pc'[i] \in {"open", "batch", "poll"} =>
              Counts(result'[i], fresh'[i], updates'[i], index'[i]),
           pc'[i] \in {"mark", "write"} =>
              Counts(result'[i], fresh'[i], updates'[i], index'[i] + 1)
    PROVE  CountOK(i)'
  BY DEF CountOK, Counts, Accounts, Before, Reached

\* A step of an invocation keeps its account.
LEMMA CountActs ==
    ASSUME CountInv, ControlInv', NEW i \in Invocations, Acts(i)
    PROVE  CountOK(i)'
  <1>0. ControlInv /\ TypeInv /\ LocalOK(i) /\ CountOK(i)
    BY DEF CountInv, ControlInv
  <1>1. /\ fresh[i] \in Seq(AllRows) /\ fresh'[i] \in Seq(AllRows) /\ index[i] \in Nat
        /\ updates[i] \in Seq(AllRows) /\ result[i] \in Result
        /\ Distinct(fresh[i])
    BY <1>0 DEF ControlInv, TypeInv, LocalOK, RowsOK
  <1>2. CASE \/ \E r \in Runs, limit \in Limits, force \in BOOLEAN :
                   Start(i, r, limit, force)
             \/ \E r \in Runs : Refuse(i, r)
    <2>1. /\ pc'[i] \in {"export", "ended"}
          /\ fresh'[i] = fresh[i] /\ index'[i] = index[i] /\ result'[i] = result[i]
      BY <1>0, <1>2 DEF Start, Refuse, Goto, TypeInv, localVars
    <2>2. QED
      BY <2>1 DEF CountOK
  <1>3. CASE Export(i)
    <2>1. /\ pc'[i] \in {"open", "batch"} /\ index'[i] = 0 /\ updates'[i] = updates[i]
          /\ result[i] = NoResult
          /\ result'[i] = [NoResult EXCEPT !.stale = Len(updates[i]) - Len(fresh'[i])]
      BY <1>0, <1>3
      DEF Export, Goto, TypeInv, LocalOK, BlankOK, Exported, AtWork
    <2>2. /\ result'[i].stale = Len(updates[i]) - Len(fresh'[i])
          /\ result'[i].ok = 0 /\ result'[i].error = 0
          /\ result'[i].skipped = {} /\ result'[i].uncounted = {}
      BY <2>1 DEF NoResult
    <2>3. Counts(result'[i], fresh'[i], updates[i], 0)
      BY <1>1, <2>2, CountBegins
    <2>4. QED
      BY <2>1, <2>3, CountsHere
  <1>4. CASE OpenLog(i) \/ PostBatch(i) \/ TruncateLog(i)
    <2>1. /\ \/ pc[i] \in {"open", "batch"} /\ pc'[i] \in {"batch", "poll"}
             \/ pc[i] = "mark" /\ pc'[i] = "write"
          /\ fresh'[i] = fresh[i] /\ index'[i] = index[i] /\ result'[i] = result[i]
          /\ updates'[i] = updates[i]
      BY <1>0, <1>4 DEF OpenLog, PostBatch, Queued, TruncateLog, Goto, TypeInv
    <2>2. QED
      BY <1>0, <2>1, CountsHere DEF CountOK
  <1>5. CASE SkipCompleted(i)
    <2>1. /\ pc[i] = "batch" /\ pc'[i] = "batch" /\ MoreBatches(i)
          /\ fresh'[i] = fresh[i] /\ index'[i] = index[i] + 1 /\ updates'[i] = updates[i]
          /\ result'[i] = [result[i] EXCEPT !.skipped =
                              @ \cup IdsOf(Batch(fresh[i], index[i]))]
      BY <1>0, <1>5 DEF SkipCompleted, TypeInv
    <2>2. Counts(result'[i], fresh[i], updates[i], index[i] + 1)
      <3>1. Counts(result[i], fresh[i], updates[i], index[i])
        BY <1>0, <2>1 DEF CountOK
      <3>2. index[i] * BatchSize < Len(fresh[i])
        BY <2>1 DEF MoreBatches
      <3>3. Counts([result[i] EXCEPT !.skipped = @ \cup IdsOf(Batch(fresh[i], index[i]))],
                   fresh[i], updates[i], index[i] + 1)
        BY <1>1, <3>1, <3>2, CountSkipped
      <3>4. QED
        BY <2>1, <3>3
    <2>3. QED
      BY <2>1, <2>2, CountsHere
  <1>6. CASE JobCompleted(i)
    <2>1. /\ pc[i] = "poll" /\ pc'[i] = "mark"
          /\ fresh'[i] = fresh[i] /\ index'[i] = index[i] /\ updates'[i] = updates[i]
          /\ \E stats \in BOOLEAN :
                result'[i] = Counted(result[i], jobs[uuid[i]], stats)
      BY <1>0, <1>6 DEF JobCompleted, Goto, TypeInv
    <2>2. /\ MoreBatches(i) /\ jobs[uuid[i]] \in Job
          /\ jobs[uuid[i]].failed \subseteq IdsOf(jobs[uuid[i]].rows)
          /\ jobs[uuid[i]].rows = Batch(fresh[i], index[i])
      BY <1>0, <2>1 DEF ControlInv, TypeInv, LocalOK, PlaceOK, JobAtHand, JobOK, AtWork
    <2>3. Counts(result'[i], fresh[i], updates[i], index[i] + 1)
      BY <1>0, <1>1, <2>1, <2>2, CountCompleted DEF CountOK, MoreBatches
    <2>4. QED
      BY <2>1, <2>3, CountsHere
  <1>7. CASE MarkCompleted(i) \/ WriteLog(i)
    <2>1. /\ pc[i] \in {"mark", "write"} /\ pc'[i] = "batch" /\ MoreBatches(i)
          /\ fresh'[i] = fresh[i] /\ index'[i] = index[i] + 1 /\ updates'[i] = updates[i]
          /\ result'[i] = result[i]
      BY <1>0, <1>7
      DEF MarkCompleted, WriteLog, NextBatch, Goto, TypeInv, LocalOK, PlaceOK, AtWork
    <2>2. QED
      BY <1>0, <2>1, CountsHere DEF CountOK
  <1>8. CASE End(i)
    <2>1. pc'[i] = "ended" /\ result'[i] = NoResult
      BY <1>0, <1>8 DEF End, Goto, TypeInv
    <2>2. QED
      BY <2>1 DEF CountOK
  <1>9. QED
    BY <1>2, <1>3, <1>4, <1>5, <1>6, <1>7, <1>8
    DEF Acts, Handler, OpenTornLog, PostBatchUnanswered, Finish, Fail

LEMMA CountStep ==
    ASSUME CountInv, [Next]_vars
    PROVE  CountInv'
  <1>0. ControlInv /\ ControlInv' /\ TypeInv
    BY ControlStep DEF CountInv, ControlInv
  <1>1. ASSUME NEW i \in Invocations, Same(i) PROVE CountOK(i)'
    <2>1. CountOK(i)
      BY DEF CountInv
    <2>2. QED
      BY <1>1, <2>1, CountsHere DEF Same, CountOK
  <1>2. ASSUME NEW i \in Invocations PROVE CountOK(i)'
    <2>1. ASSUME NEW h \in Invocations, Acts(h) PROVE CountOK(i)'
      BY <1>0, <1>1, <2>1, CountActs, OneActs
    <2>2. CASE UNCHANGED <<pc, localVars>>
      BY <1>1, <2>2 DEF Same, localVars
    <2>3. QED
      BY <2>1, <2>2, StepOf
  <1>3. QED
    BY <1>0, <1>2 DEF CountInv

\* The report of an apply adds up, whatever its batch size and however often it
\* was interrupted before: every proposed row is stale, skipped, ok, in error or
\* of a job without stats, and none is counted twice.
THEOREM ReportAddsUp == Spec => []EveryRowAccounted
  <1>1. Init => CountInv
    <2> SUFFICES ASSUME Init, NEW i \in Invocations PROVE CountOK(i)
      BY InitControl DEF CountInv
    <2>1. pc[i] = "ready"
      BY DEF Init
    <2>2. QED
      BY <2>1 DEF CountOK
  <1>2. CountInv => EveryRowAccounted
    <2> SUFFICES ASSUME CountInv, NEW i \in Invocations, LoopEnded(i)
                 PROVE  Len(updates[i]) = result[i].stale + result[i].ok
                                          + result[i].error + Cardinality(result[i].skipped)
                                          + Cardinality(result[i].uncounted)
      BY DEF EveryRowAccounted
    <2> DEFINE stale == result[i].stale
               ok == result[i].ok
               error == result[i].error
               s == Cardinality(result[i].skipped)
               u == Cardinality(result[i].uncounted)
               all == Len(updates[i])
               kept == Len(fresh[i])
    <2>1. /\ fresh[i] \in Seq(AllRows) /\ updates[i] \in Seq(AllRows) /\ index[i] \in Nat
          /\ result[i] \in Result
      BY DEF CountInv, ControlInv, TypeInv
    <2>2. Counts(result[i], fresh[i], updates[i], index[i])
      BY DEF CountInv, CountOK, LoopEnded
    <2>3. /\ result[i].skipped \subseteq IdsOf(fresh[i])
          /\ result[i].uncounted \subseteq IdsOf(fresh[i])
      BY <2>2 DEF Counts, Before, IdsOf
    <2>4. s \in Nat /\ u \in Nat
      BY <2>1, <2>3, IdsOfRows, FS_Subset, FS_CardinalityType
    <2>5. Reached(fresh[i], index[i]) = kept
      BY <2>1, BeforeEnds DEF LoopEnded, MoreBatches
    <2>6. stale = all - kept /\ ok + error + s + u = kept
      BY <2>2, <2>5 DEF Counts, Accounts
    <2>7. stale \in Int /\ ok \in Int /\ error \in Int /\ all \in Int /\ kept \in Int
      BY <2>1 DEF Result
    <2> HIDE DEF stale, ok, error, s, u, all, kept
    <2>8. all = stale + ok + error + s + u
      BY <2>4, <2>6, <2>7
    <2>9. QED
      BY <2>8 DEF stale, ok, error, s, u, all
  <1>3. QED
    BY <1>1, <1>2, CountStep, PTL DEF Spec
-------------------------------------------------------------------------------
(***************************************************************************)
(* Nothing is sent twice                                                   *)
(***************************************************************************)

\* Only the environment reprices, sells or edits.
LEMMA InventoryWrites ==
    ASSUME [Next]_vars
    PROVE  \/ UNCHANGED <<inventory, setBy>>
           \/ \E j \in DOMAIN jobs : JobRuns(j)
           \/ \E x \in Ids : SellerEdits(x) \/ CardSells(x)
  <1>1. ASSUME NEW i \in Invocations, Acts(i) PROVE UNCHANGED <<inventory, setBy>>
    BY <1>1 DEF Acts, Handler, Start, Refuse, Export, OpenLog, OpenTornLog, SkipCompleted,
                PostBatch, PostBatchUnanswered, Queued, JobCompleted, MarkCompleted,
                TruncateLog, WriteLog, Finish, Fail, ctVars, history
  <1>2. CASE Environment
    BY <1>2 DEF Environment, JobUnprocessable, RemoveTornLog, ctVars, history
  <1>3. CASE UNCHANGED vars
    BY <1>3 DEF vars, ctVars, history
  <1>4. QED
    BY <1>1, <1>2, <1>3, StepOf

\* A job that runs gives the listings it sets the prices of its rows.
LEMMA JobSets ==
    ASSUME TypeInv, NEW j \in DOMAIN jobs, JobRuns(j), Distinct(jobs[j].rows), NEW x \in Ids
    PROVE  /\ jobs'[j].rows = jobs[j].rows
           /\ \/ inventory'[x] = inventory[x] /\ setBy'[x] = setBy[x]
              \/ /\ setBy'[x] = j
                 /\ \A p \in ToSet(jobs[j].rows) : p.id = x => inventory'[x].price = p.new
  <1> DEFINE sent == CHOOSE q \in ToSet(jobs[j].rows) : q.id = x
  <1>1. PICK failed \in SUBSET IdsOf(jobs[j].rows) :
           /\ \A y \in IdsOf(jobs[j].rows) : inventory[y] = None => y \in failed
           /\ jobs' = [jobs EXCEPT ![j].state = "completed", ![j].failed = failed]
           /\ inventory' = [y \in Ids |->
                 IF y \in IdsOf(jobs[j].rows) \ failed
                 THEN [inventory[y] EXCEPT !.price =
                         (CHOOSE row \in ToSet(jobs[j].rows) : row.id = y).new]
                 ELSE inventory[y]]
           /\ setBy' = [y \in Ids |->
                 IF y \in IdsOf(jobs[j].rows) \ failed THEN j ELSE setBy[y]]
    BY DEF JobRuns
  <1>2. jobs \in Seq(Job) /\ jobs[j] \in Job /\ jobs[j].rows \in Seq(AllRows)
    <2>1. jobs \in Seq(Job) /\ jobs[j] \in Job
      BY DEF TypeInv
    <2>2. QED
      BY <2>1 DEF Job
  <1>3. jobs'[j].rows = jobs[j].rows
    <2>1. jobs'[j] = [jobs[j] EXCEPT !.state = "completed", !.failed = failed]
      BY <1>1, <1>2
    <2>2. QED
      BY <1>2, <2>1 DEF Job
  <1>4. CASE x \notin IdsOf(jobs[j].rows) \ failed
    BY <1>1, <1>3, <1>4
  <1>5. CASE x \in IdsOf(jobs[j].rows) \ failed
    <2>1. \E q \in ToSet(jobs[j].rows) : q.id = x
      BY <1>5 DEF IdsOf, ToSet
    <2>2. sent \in ToSet(jobs[j].rows) /\ sent.id = x
      BY <2>1
    <2>3. inventory'[x] = [inventory[x] EXCEPT !.price = sent.new] /\ setBy'[x] = j
      BY <1>1, <1>5
    <2> HIDE DEF sent
    <2>4. inventory[x] \in Listing
      BY <1>1, <1>5 DEF TypeInv
    <2>5. inventory'[x].price = sent.new
      BY <2>3, <2>4 DEF Listing
    <2>6. ASSUME NEW p \in ToSet(jobs[j].rows), p.id = x PROVE p = sent
      <3>1. PICK m \in DOMAIN jobs[j].rows, n \in DOMAIN jobs[j].rows :
               p = jobs[j].rows[m] /\ sent = jobs[j].rows[n]
        BY <2>2 DEF ToSet
      <3>2. QED
        BY <2>2, <2>6, <3>1 DEF Distinct
    <2>7. QED
      BY <1>3, <2>3, <2>5, <2>6
  <1>6. QED
    BY <1>4, <1>5

\* What the rows follow stays what it is: the rows of a job never change.
LEMMA FollowsStays ==
    ASSUME ControlInv, [Next]_vars, NEW rows \in Seq(AllRows), NEW by \in [Ids -> Nat],
           Names(by, jobs), Follows(rows, by, jobs)
    PROVE  Follows(rows, by, jobs')
  <1>1. jobs \in Seq(Job) /\ JobsStep
    BY JobsGrow DEF ControlInv, TypeInv
  <1>2. ASSUME NEW q \in ToSet(rows), by[q.id] # 0
        PROVE  jobs'[by[q.id]].rows = jobs[by[q.id]].rows
    <2>1. q.id \in Ids
      BY DEF ToSet, Ids
    <2>2. by[q.id] \in DOMAIN jobs
      BY <1>1, <1>2, <2>1 DEF Names
    <2>3. QED
      BY <1>1, <2>2 DEF JobsStep
  <1>3. QED
    BY <1>2 DEF Follows

\* Which jobs a step adds or completes.
LEMMA JobWrites ==
    ASSUME ControlInv, [Next]_vars, NEW j \in DOMAIN jobs'
    PROVE  \/ j \in DOMAIN jobs /\ jobs'[j] = jobs[j]
           \/ /\ j \in DOMAIN jobs
              /\ jobs'[j].rows = jobs[j].rows /\ jobs'[j].after = jobs[j].after
              /\ JobRuns(j) \/ jobs'[j].state # "completed"
           \/ \E i \in Invocations :
                 /\ MoreBatches(i)
                 /\ jobs'[j] = [rows |-> Batch(fresh[i], index[i]), state |-> "pending",
                                failed |-> {}, after |-> setAtExport[i]]
  <1>0. jobs \in Seq(Job)
    BY DEF ControlInv, TypeInv
  <1>1. CASE UNCHANGED jobs
    BY <1>1
  <1>2. ASSUME NEW i \in Invocations, Queued(i)
        PROVE  \/ j \in DOMAIN jobs /\ jobs'[j] = jobs[j]
               \/ /\ MoreBatches(i)
                  /\ jobs'[j] = [rows |-> Batch(fresh[i], index[i]), state |-> "pending",
                                 failed |-> {}, after |-> setAtExport[i]]
    <2>1. /\ jobs' \in Seq(Job) /\ Len(jobs') = Len(jobs) + 1
          /\ \A h \in DOMAIN jobs : jobs'[h] = jobs[h]
          /\ jobs'[Len(jobs) + 1] =
                [rows |-> Batch(fresh[i], index[i]), state |-> "pending",
                 failed |-> {}, after |-> setAtExport[i]]
      BY <1>2, QueueAppends
    <2>2. j \in DOMAIN jobs \/ j = Len(jobs) + 1
      BY <1>0, <2>1
    <2>3. MoreBatches(i)
      BY <1>2 DEF Queued
    <2>4. QED
      BY <2>1, <2>2, <2>3
  <1>3. ASSUME NEW h \in DOMAIN jobs, JobRuns(h) \/ JobUnprocessable(h)
        PROVE  /\ j \in DOMAIN jobs
               /\ \/ jobs'[j] = jobs[j]
                  \/ /\ jobs'[j].rows = jobs[j].rows /\ jobs'[j].after = jobs[j].after
                     /\ JobRuns(j) \/ jobs'[j].state # "completed"
    <2>1. /\ jobs' \in Seq(Job) /\ Len(jobs') = Len(jobs)
          /\ jobs'[h].rows = jobs[h].rows /\ jobs'[h].after = jobs[h].after
          /\ \A g \in DOMAIN jobs : g # h => jobs'[g] = jobs[g]
      BY <1>3, JobEnds
    <2>2. DOMAIN jobs' = DOMAIN jobs
      BY <1>0, <2>1
    <2>3. JobUnprocessable(h) => jobs'[h].state = "unprocessable"
      <3>1. jobs[h] \in Job
        BY <1>0
      <3>2. QED
        BY <1>0, <3>1 DEF JobUnprocessable, Job
    <2>4. QED
      BY <1>3, <2>1, <2>2, <2>3
  <1>4. ASSUME NEW i \in Invocations, Acts(i) PROVE UNCHANGED jobs \/ Queued(i)
    BY <1>4 DEF Acts, Handler, Start, Refuse, Export, OpenLog, OpenTornLog, SkipCompleted,
                PostBatch, PostBatchUnanswered, JobCompleted, MarkCompleted, TruncateLog,
                WriteLog, Finish, Fail, ctVars
  <1>5. CASE Environment
    BY <1>1, <1>3, <1>5 DEF Environment, SellerEdits, CardSells, RemoveTornLog, ctVars
  <1>6. CASE UNCHANGED vars
    BY <1>1, <1>6 DEF vars, ctVars
  <1>7. QED
    BY <1>1, <1>2, <1>4, <1>5, <1>6, StepOf

\* A listing keeps the price of the job that set it until another price is set.
LEMMA InEffectStep ==
    ASSUME ResubmissionInv, [Next]_vars, NEW x \in Ids
    PROVE  InEffect(x)'
  <1>0. /\ ControlInv /\ TypeInv /\ JobsStep /\ InEffect(x)
        /\ jobs \in Seq(Job) /\ setBy \in [Ids -> Nat] /\ Names(setBy, jobs)
    BY JobsGrow DEF ResubmissionInv, ControlInv, TypeInv
  <1>a. setBy[x] # 0 => jobs'[setBy[x]].rows = jobs[setBy[x]].rows
    <2>1. setBy[x] # 0 => setBy[x] \in DOMAIN jobs
      BY <1>0 DEF Names
    <2>2. QED
      BY <1>0, <2>1 DEF JobsStep
  <1>1. CASE inventory'[x] = inventory[x] /\ setBy'[x] = setBy[x]
    BY <1>0, <1>a, <1>1 DEF InEffect
  <1>2. ASSUME NEW j \in DOMAIN jobs, JobRuns(j) PROVE InEffect(x)'
    <2>1. Distinct(jobs[j].rows)
      BY DEF ResubmissionInv
    <2>2. CASE inventory'[x] = inventory[x] /\ setBy'[x] = setBy[x]
      BY <1>1, <2>2
    <2>3. CASE ~ (inventory'[x] = inventory[x] /\ setBy'[x] = setBy[x])
      <3>1. /\ jobs'[j].rows = jobs[j].rows /\ setBy'[x] = j
            /\ \A p \in ToSet(jobs[j].rows) : p.id = x => inventory'[x].price = p.new
        BY <1>0, <1>2, <2>1, <2>3, JobSets
      <3>2. QED
        BY <3>1 DEF InEffect
    <2>4. QED
      BY <2>2, <2>3
  <1>3. ASSUME NEW y \in Ids, SellerEdits(y) PROVE InEffect(x)'
    <2>1. \/ setBy'[x] = 0
          \/ inventory'[x] = inventory[x] /\ setBy'[x] = setBy[x]
      BY <1>0, <1>3 DEF SellerEdits, TypeInv
    <2>2. QED
      BY <1>1, <2>1 DEF InEffect
  <1>4. ASSUME NEW y \in Ids, CardSells(y) PROVE InEffect(x)'
    <2>1. PICK left \in AfterSale(inventory[y]) : inventory' = [inventory EXCEPT ![y] = left]
      BY <1>4 DEF CardSells
    <2>2. inventory[y] \in Listing /\ setBy' = setBy
      BY <1>0, <1>4 DEF CardSells, TypeInv
    <2>3. left = None \/ left.price = inventory[y].price
      BY <2>1, <2>2 DEF AfterSale, Listing
    <2>4. CASE x # y
      BY <1>0, <1>1, <2>1, <2>2, <2>4 DEF TypeInv
    <2>5. CASE x = y
      <3>1. inventory'[x] = left /\ inventory[x] # None
        BY <1>0, <1>4, <2>1, <2>5 DEF TypeInv, CardSells
      <3>2. QED
        BY <1>0, <1>a, <2>2, <2>3, <2>5, <3>1 DEF InEffect
    <2>6. QED
      BY <2>4, <2>5
  <1>5. QED
    BY <1>1, <1>2, <1>3, <1>4, InventoryWrites

\* What an invocation exports follows the jobs in effect at the export.
LEMMA ExportFollows ==
    ASSUME ResubmissionInv, [Next]_vars, NEW i \in Invocations, Export(i)
    PROVE  Follows(fresh'[i], setAtExport'[i], jobs')
  <1> DEFINE rows == FreshRows(updates[i])
  <1>1. /\ TypeInv /\ ControlInv /\ Names(setBy, jobs) /\ setBy \in [Ids -> Nat]
        /\ fresh'[i] = rows /\ setAtExport'[i] = setBy /\ updates[i] \in Seq(AllRows)
    BY DEF ResubmissionInv, ControlInv, TypeInv, Export
  <1>2. rows \in Seq(AllRows) /\ \A n \in 1 .. Len(rows) : IsFresh(rows[n])
    BY <1>1, FreshRowsKeeps DEF KeptOf
  <1> HIDE DEF rows
  <1>3. ASSUME NEW q \in ToSet(rows), setBy[q.id] # 0,
               NEW p \in ToSet(jobs[setBy[q.id]].rows), p.id = q.id
        PROVE  q.prev = p.new
    <2>1. PICK n \in 1 .. Len(rows) : q = rows[n]
      BY <1>2 DEF ToSet
    <2>2. IsFresh(q) /\ q.id \in Ids
      BY <1>2, <2>1 DEF Ids
    <2>3. InEffect(q.id)
      BY <2>2 DEF ResubmissionInv
    <2>4. QED
      BY <1>3, <2>2, <2>3 DEF InEffect, IsFresh
  <1>4. Follows(rows, setBy, jobs)
    BY <1>3 DEF Follows
  <1>5. Follows(rows, setBy, jobs')
    BY <1>1, <1>2, <1>4, FollowsStays
  <1>6. QED
    BY <1>1, <1>5

LEMMA ResubmissionStep ==
    ASSUME ResubmissionInv, [Next]_vars
    PROVE  ResubmissionInv'
  <1>0. /\ ControlInv /\ ControlInv' /\ TypeInv
        /\ \A j \in DOMAIN jobs : JobOK(j) /\ jobs[j] \in Job
        /\ \A i \in Invocations : LocalOK(i)
    <2>1. ControlInv /\ ControlInv'
      BY ControlStep DEF ResubmissionInv
    <2>2. /\ TypeInv
          /\ \A j \in DOMAIN jobs : JobOK(j)
          /\ \A i \in Invocations : LocalOK(i)
      BY <2>1 DEF ControlInv
    <2>3. \A j \in DOMAIN jobs : jobs[j] \in Job
      BY <2>2 DEF TypeInv
    <2>4. QED
      BY <2>1, <2>2, <2>3
  <1>i. ASSUME NEW i \in Invocations
        PROVE  /\ fresh[i] \in Seq(AllRows) /\ setAtExport[i] \in [Ids -> Nat]
               /\ Names(setAtExport[i], jobs) /\ Distinct(fresh[i])
               /\ Follows(fresh[i], setAtExport[i], jobs')
    <2>1. /\ fresh[i] \in Seq(AllRows) /\ setAtExport[i] \in [Ids -> Nat]
          /\ Names(setAtExport[i], jobs) /\ Distinct(fresh[i])
      BY <1>0 DEF TypeInv, LocalOK, JobAtHand, RowsOK
    <2>2. QED
      BY <1>0, <2>1, FollowsStays DEF ResubmissionInv
  <1>1. \A x \in Ids : InEffect(x)'
    BY InEffectStep
  <1>2. ASSUME NEW i \in Invocations
        PROVE  Follows(fresh'[i], setAtExport'[i], jobs')
    <2>1. CASE setAtExport'[i] = setAtExport[i] /\ fresh'[i] = fresh[i]
      BY <1>i, <2>1
    <2>2. CASE Export(i)
      BY <2>2, ExportFollows
    <2>3. CASE Acts(i)
      <3>1. CASE End(i)
        <4>1. fresh'[i] = <<>>
          BY <1>0, <3>1 DEF End, TypeInv
        <4>2. QED
          BY <4>1, NoRows DEF Follows
      <3>2. ASSUME ~End(i), ~Export(i)
            PROVE  UNCHANGED <<setAtExport, fresh>>
        BY <2>3, <3>2
        DEF Acts, Handler, Start, Refuse, OpenLog, OpenTornLog, SkipCompleted, PostBatch,
            PostBatchUnanswered, JobCompleted, MarkCompleted, TruncateLog, WriteLog, Finish,
            Fail, localVars
      <3>3. QED
        BY <2>1, <2>2, <3>1, <3>2
    <2>4. ASSUME NEW h \in Invocations, Acts(h), h # i
          PROVE  setAtExport'[i] = setAtExport[i] /\ fresh'[i] = fresh[i]
      BY <1>0, <2>4, OneActs DEF Same
    <2>5. CASE UNCHANGED <<pc, localVars>>
      BY <2>1, <2>5 DEF localVars
    <2>6. QED
      BY <2>1, <2>3, <2>4, <2>5, StepOf
  <1>3. ASSUME NEW j \in DOMAIN jobs'
        PROVE  Distinct(jobs'[j].rows) /\ Follows(jobs'[j].rows, jobs'[j].after, jobs')
    <2>1. CASE /\ j \in DOMAIN jobs
               /\ jobs'[j].rows = jobs[j].rows /\ jobs'[j].after = jobs[j].after
      <3>1. /\ jobs[j].rows \in Seq(AllRows) /\ jobs[j].after \in [Ids -> Nat]
            /\ Names(jobs[j].after, jobs)
        BY <1>0, <2>1 DEF JobOK, Job
      <3>2. Distinct(jobs[j].rows) /\ Follows(jobs[j].rows, jobs[j].after, jobs)
        BY <2>1 DEF ResubmissionInv
      <3>3. Follows(jobs[j].rows, jobs[j].after, jobs')
        BY <1>0, <3>1, <3>2, FollowsStays
      <3>4. QED
        BY <2>1, <3>2, <3>3
    <2>2. ASSUME NEW i \in Invocations, MoreBatches(i),
                 jobs'[j].rows = Batch(fresh[i], index[i]),
                 jobs'[j].after = setAtExport[i]
          PROVE  Distinct(jobs'[j].rows) /\ Follows(jobs'[j].rows, jobs'[j].after, jobs')
      <3>1. fresh[i] \in Seq(AllRows) /\ Distinct(fresh[i]) /\ index[i] \in Nat
        BY <1>0, <1>i DEF TypeInv
      <3>2. Distinct(Batch(fresh[i], index[i]))
        BY <2>2, <3>1, BatchRows DEF MoreBatches
      <3>3. ToSet(Batch(fresh[i], index[i])) \subseteq ToSet(fresh[i])
        BY <2>2, <3>1, BatchRows DEF MoreBatches
      <3>4. Follows(Batch(fresh[i], index[i]), setAtExport[i], jobs')
        BY <1>i, <3>3 DEF Follows
      <3>5. QED
        BY <2>2, <3>2, <3>4
    <2>3. QED
      BY <1>0, <2>1, <2>2, JobWrites
  <1>4. QED
    BY <1>0, <1>1, <1>2, <1>3 DEF ResubmissionInv

\* What is in effect is not sent again by any apply that exports after it, be it a
\* rerun, a retry, the apply of another run's plan or one after its log was torn
\* and removed: a row sent for a listing that still has the price of a job is of
\* a plan made from that price, whatever the stores remember and in whatever
\* order the plans of different exports are applied.
THEOREM NothingIsSentTwice == Spec => []NoResubmission
  <1>1. Init => ResubmissionInv
    <2> SUFFICES ASSUME Init PROVE ResubmissionInv
      OBVIOUS
    <2>1. /\ DOMAIN jobs = {} /\ \A x \in Ids : setBy[x] = 0
          /\ \A i \in Invocations : fresh[i] = <<>>
      BY DEF Init, NothingSet
    <2>2. QED
      BY <2>1, InitControl, NoRows DEF ResubmissionInv, InEffect, Follows
  <1>2. ResubmissionInv => NoResubmission
    <2> SUFFICES ASSUME ResubmissionInv, NEW j \in DOMAIN jobs,
                        NEW q \in ToSet(jobs[j].rows), jobs[j].after[q.id] # 0,
                        NEW p \in ToSet(jobs[jobs[j].after[q.id]].rows), p.id = q.id
                 PROVE  q.prev = p.new /\ q # p
      BY DEF NoResubmission
    <2>1. q.prev = p.new
      BY DEF ResubmissionInv, Follows
    <2>2. q \in AllRows
      <3>1. jobs \in Seq(Job)
        BY DEF ResubmissionInv, ControlInv, TypeInv
      <3>2. jobs[j] \in Job
        BY <3>1
      <3>3. jobs[j].rows \in Seq(AllRows)
        BY <3>2 DEF Job
      <3>4. QED
        BY <3>3 DEF ToSet
    <2>3. q.prev # q.new
      BY <2>2, PlanAssumption
    <2>4. QED
      BY <2>1, <2>3
  <1>3. QED
    BY <1>1, <1>2, ResubmissionStep, PTL DEF Spec
===============================================================================
