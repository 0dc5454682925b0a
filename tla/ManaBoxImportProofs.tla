------------------------ MODULE ManaBoxImportProofs ------------------------
(***************************************************************************)
(* No import lists again what an earlier one listed, an import that ends   *)
(* well has listed its CSV, and an export reads back as the inventory, for *)
(* any CSV, any inventory, any catalog and any number of reruns over       *)
(* queued jobs.                                                            *)
(***************************************************************************)
EXTENDS ManaBoxImport, FiniteSetTheorems, WellFoundedInduction, TLAPS

\* A planned row that names a product.
Planned == [action : {"create", "skip_existing"}, blueprint : DOMAIN Catalog,
            condition : {"Near Mint", "Slightly Played", "Moderately Played",
                         "Played", "Heavily Played", "Poor"}]

\* The lines that the script reads from the CSV.
Cards == {line \in DOMAIN csv : csv[line].quantity > 0}

Job == [rows : UNION {[lines -> Planned] : lines \in SUBSET Cards},
        state : {"pending", "completed", "unprocessable"},
        failed : SUBSET Cards, after : SUBSET Nat]

ImportTypes ==
    /\ IsFiniteSet(DOMAIN csv)
    /\ inventory \in Seq(ToSet(inventory))
    /\ jobs \in Seq(Job)
    /\ creates \subseteq Cards
    /\ \A line \in creates : plan[line] \in Planned
    /\ \A j \in done : j \in DOMAIN jobs /\ jobs[j].state = "completed"

\* The card of a line leads to the one blueprint it is listed as, by what some
\* lookup of Scryfall answered, and its grade to the one it is listed with.
LeadsTo(line, as) ==
    /\ csv[line].scryfall # None
    /\ \E found \in Lookups : Blueprints(Catalog, found, csv[line].scryfall) = {as.blueprint}
    /\ as.condition # None /\ as.condition = manabox_condition_to_ct(csv[line].condition)

\* What a completed job created is in the inventory; what is planned after its
\* completion, and was submitted by a run that saw it, is something else.
ImportInv ==
    /\ ImportTypes
    /\ \A j \in DOMAIN jobs :
          jobs[j].state = "completed" => Created(jobs[j]) \subseteq ExistingKeys(inventory)
    /\ \A j \in done : \A line \in creates : Product(line, plan[line]) \notin Created(jobs[j])
    /\ \A j \in DOMAIN jobs : \A earlier \in jobs[j].after :
          earlier \in DOMAIN jobs /\ jobs[earlier].state = "completed"
    /\ NothingListedTwice
    /\ \A line \in creates : LeadsTo(line, plan[line])
    /\ \A j \in DOMAIN jobs : \A line \in DOMAIN jobs[j].rows : LeadsTo(line, jobs[j].rows[line])

-------------------------------------------------------------------------------
(***************************************************************************)
(* Sequences and sets                                                      *)
(***************************************************************************)

\* What is appended to a sequence comes after all that was there.
LEMMA Appended ==
    ASSUME NEW S, NEW T, NEW s \in Seq(S), NEW t \in Seq(T)
    PROVE  /\ s \o t \in Seq(ToSet(s \o t))
           /\ ToSet(s) \cup ToSet(t) \subseteq ToSet(s \o t)
<1>1. s \in Seq(S \cup T) /\ t \in Seq(S \cup T)
    OBVIOUS
<1>2. /\ Len(s \o t) = Len(s) + Len(t) /\ s \o t \in Seq(S \cup T)
      /\ \A i \in 1 .. Len(s) : (s \o t)[i] = s[i]
      /\ \A i \in 1 .. Len(t) : (s \o t)[Len(s) + i] = t[i]
    BY <1>1
<1>3. ASSUME NEW u \in Seq(S \cup T) PROVE u \in Seq(ToSet(u))
  <2>1. Len(u) \in Nat /\ DOMAIN u = 1 .. Len(u) /\ u = [i \in 1 .. Len(u) |-> u[i]]
      OBVIOUS
  <2>2. \A i \in 1 .. Len(u) : u[i] \in ToSet(u)
      BY <2>1 DEF ToSet
  <2>3. \A V : (\A i \in 1 .. Len(u) : u[i] \in V) => u \in Seq(V)
      BY <2>1
  <2> QED BY <2>2, <2>3
<1>4. ASSUME NEW i \in 1 .. Len(t) PROVE Len(s) + i \in 1 .. Len(s \o t)
    BY <1>2, <1>1
<1>5. ToSet(s) \subseteq ToSet(s \o t)
    BY <1>1, <1>2 DEF ToSet
<1>6. ToSet(t) \subseteq ToSet(s \o t)
  <2> SUFFICES ASSUME NEW x \in ToSet(t) PROVE x \in ToSet(s \o t)
      OBVIOUS
  <2>1. PICK i \in 1 .. Len(t) : x = t[i]
      BY DEF ToSet
  <2>2. (s \o t)[Len(s) + i] = x /\ Len(s) + i \in DOMAIN (s \o t)
      BY <1>2, <1>4, <2>1
  <2> HIDE DEF ToSet
  <2>3. \A u, m : m \in DOMAIN u => u[m] \in ToSet(u)
      BY DEF ToSet
  <2> QED BY <2>2, <2>3
<1> QED BY <1>2, <1>3, <1>5, <1>6

\* and has the places past its end.
LEMMA AppendedAt ==
    ASSUME NEW S, NEW T, NEW s \in Seq(S), NEW t \in Seq(T), NEW u, u = s \o t
    PROVE  /\ Len(s) \in Nat /\ DOMAIN s = 1 .. Len(s)
           /\ DOMAIN u = 1 .. Len(s) + Len(t)
           /\ \A i \in 1 .. Len(s) : u[i] = s[i]
           /\ \A i \in 1 .. Len(t) : u[Len(s) + i] = t[i]
<1>1. s \in Seq(S \cup T) /\ t \in Seq(S \cup T)
    OBVIOUS
<1>2. /\ Len(s \o t) = Len(s) + Len(t) /\ s \o t \in Seq(S \cup T)
      /\ \A i \in 1 .. Len(s) : (s \o t)[i] = s[i]
      /\ \A i \in 1 .. Len(t) : (s \o t)[Len(s) + i] = t[i]
    BY <1>1
<1> QED BY <1>2

\* SetToSeq lists every element of a finite set.
LEMMA ListsAll ==
    ASSUME NEW S, IsFiniteSet(S)
    PROVE  SetToSeq(S) \in Seq(S) /\ ToSet(SetToSeq(S)) = S
<1> DEFINE n == Cardinality(S)
           IsList(f) == f \in [1 .. n -> S] /\ IsInjective(f)
<1>1. n \in Nat /\ ExistsBijection(1 .. n, S)
    BY FS_CardinalityType
<1>2. \E f : IsList(f)
    BY <1>1 DEF ExistsBijection, Bijection, Injection
<1>3. IsList(SetToSeq(S))
    BY <1>2 DEF SetToSeq
<1>4. SetToSeq(S) \in Injection(1 .. n, S)
    BY <1>3 DEF Injection
<1>5. Cardinality(1 .. n) = n
    BY <1>1, FS_Interval
<1>6. SetToSeq(S) \in Surjection(1 .. n, S)
    BY <1>4, <1>5, FS_Injection
<1>7. SetToSeq(S) \in Seq(S) /\ DOMAIN SetToSeq(S) = 1 .. n
    BY <1>1, <1>3
<1> QED BY <1>6, <1>7 DEF Surjection, ToSet

-------------------------------------------------------------------------------
(***************************************************************************)
(* Induction and sums                                                      *)
(***************************************************************************)

\* Induction up to n: S is the set of numbers that have the property.
LEMMA CountUp ==
    ASSUME NEW n \in Nat, NEW S \in SUBSET Nat, 0 \in S,
           \A m \in Nat : m < n /\ m \in S => m + 1 \in S
    PROVE  n \in S
<1> DEFINE R == OpToRel(<, Nat)
           T == (0 .. n) \ S
<1>1. IsWellFoundedOn(R, Nat)
    BY NatLessThanWellFounded
<1>2. \A x, y \in Nat : <<y, x>> \in R <=> y < x
    BY DEF OpToRel
<1> HIDE DEF R
<1> SUFFICES ASSUME n \notin S PROVE FALSE
    OBVIOUS
<1>3. T \subseteq Nat /\ T # {}
    OBVIOUS
<1>4. PICK x \in T : \A y \in T : ~ (<<y, x>> \in R)
    BY <1>1, <1>3, WFMin
<1>5. x \in Nat /\ x # 0 /\ x <= n
    BY <1>4
<1>6. x - 1 \in Nat /\ x - 1 < n /\ x - 1 \in 0 .. n
    BY <1>5
<1>7. x - 1 \in S
  <2>1. <<x - 1, x>> \in R
      BY <1>2, <1>5, <1>6
  <2> QED BY <1>4, <1>6, <2>1
<1>8. (x - 1) + 1 \in S
    BY <1>6, <1>7
<1> QED BY <1>4, <1>5, <1>8

Pick(T) == CHOOSE x \in T : TRUE
Smaller(T) == T \ {Pick(T)}

\* What the sum of v over T is, when t has the sums over smaller sets.
SumBy(v, t, T) == IF T = {} THEN 0 ELSE v[Pick(T)] + t[Smaller(T)]

\* t has the sums of v over the subsets of S.
HasSums(t, v, S) == \A T \in SUBSET S : t[T] = SumBy(v, t, T)

Upto(S, n) == {T \in SUBSET S : Cardinality(T) <= n}

LEMMA PickedOut ==
    ASSUME NEW S, IsFiniteSet(S), NEW T \in SUBSET S, T # {}
    PROVE  /\ Pick(T) \in T /\ Smaller(T) \in SUBSET S
           /\ Cardinality(T) \in Nat /\ Cardinality(Smaller(T)) \in Nat
           /\ Cardinality(T) = Cardinality(Smaller(T)) + 1
<1>1. Pick(T) \in T
    BY DEF Pick
<1>2. IsFiniteSet(T)
    BY FS_Subset
<1>3. Cardinality(T \ {Pick(T)}) = Cardinality(T) - 1 /\ IsFiniteSet(T \ {Pick(T)})
    BY <1>1, <1>2, FS_RemoveElement
<1>4. Cardinality(T) \in Nat /\ Cardinality(T \ {Pick(T)}) \in Nat
    BY <1>2, <1>3, FS_CardinalityType
<1> QED BY <1>1, <1>3, <1>4 DEF Smaller

\* The sums over all subsets can be computed from the smaller to the larger.
LEMMA SumsExist ==
    ASSUME NEW v, NEW S, IsFiniteSet(S)
    PROVE  \E t : t = [T \in SUBSET S |-> SumBy(v, t, T)]
<1> DEFINE Done(n) == \E t : t = [T \in Upto(S, n) |-> SumBy(v, t, T)]
           N == {n \in Nat : Done(n)}
<1>1. ASSUME NEW T \in SUBSET S PROVE Cardinality(T) \in Nat /\ Cardinality(T) <= Cardinality(S)
    BY FS_Subset, FS_CardinalityType
<1>2. Cardinality(S) \in Nat
    BY FS_CardinalityType
<1>3. Done(0)
  <2> DEFINE t == [T \in Upto(S, 0) |-> 0]
  <2>1. \A T \in Upto(S, 0) : T = {}
    <3> SUFFICES ASSUME NEW T \in Upto(S, 0) PROVE T = {}
        OBVIOUS
    <3>1. T \in SUBSET S /\ Cardinality(T) = 0
        BY <1>1 DEF Upto
    <3>2. IsFiniteSet(T)
        BY <3>1, FS_Subset
    <3> QED BY <3>1, <3>2, FS_EmptySet
  <2>2. t = [T \in Upto(S, 0) |-> SumBy(v, t, T)]
      BY <2>1 DEF SumBy
  <2> QED BY <2>2
<1>4. ASSUME NEW n \in Nat, Done(n) PROVE Done(n + 1)
  <2>1. PICK t : t = [T \in Upto(S, n) |-> SumBy(v, t, T)]
      BY <1>4
  <2> DEFINE u == [T \in Upto(S, n + 1) |-> SumBy(v, t, T)]
  <2>2. \A T \in Upto(S, n) : t[T] = SumBy(v, t, T)
      BY <2>1
  <2>3. \A T \in Upto(S, n + 1) : u[T] = SumBy(v, t, T)
      OBVIOUS
  <2>4. \A T \in Upto(S, n) : T \in Upto(S, n + 1)
    <3> SUFFICES ASSUME NEW T \in Upto(S, n) PROVE T \in Upto(S, n + 1)
        OBVIOUS
    <3>1. T \in SUBSET S /\ Cardinality(T) <= n /\ Cardinality(T) \in Nat
        BY <1>1 DEF Upto
    <3> QED BY <3>1 DEF Upto
  <2> HIDE DEF u
  <2>5. \A T \in Upto(S, n) : u[T] = t[T]
      BY <2>2, <2>3, <2>4
  <2>6. ASSUME NEW T \in Upto(S, n + 1) PROVE SumBy(v, t, T) = SumBy(v, u, T)
    <3>1. CASE T = {}
        BY <3>1 DEF SumBy
    <3>2. CASE T # {}
      <4>1. T \in SUBSET S /\ Cardinality(T) <= n + 1
          BY DEF Upto
      <4>2. Smaller(T) \in SUBSET S /\ Cardinality(Smaller(T)) <= n
          BY <3>2, <4>1, PickedOut
      <4>3. Smaller(T) \in Upto(S, n)
          BY <4>2 DEF Upto
      <4> QED BY <2>5, <4>3 DEF SumBy
    <3> QED BY <3>1, <3>2
  <2>7. u = [T \in Upto(S, n + 1) |-> SumBy(v, u, T)]
      BY <2>6 DEF u
  <2> QED BY <2>7
<1> HIDE DEF Done
<1>5. Cardinality(S) \in N
  <2>1. N \in SUBSET Nat /\ 0 \in N /\ \A m \in Nat : m < Cardinality(S) /\ m \in N => m + 1 \in N
      BY <1>3, <1>4
  <2> HIDE DEF N
  <2> QED BY <1>2, <2>1, CountUp
<1>6. Upto(S, Cardinality(S)) = SUBSET S
    BY <1>1 DEF Upto
<1> QED BY <1>5, <1>6 DEF Done

\* Sums over subsets of two sets are the same function of the subset.
LEMMA SumsAgree ==
    ASSUME NEW v, NEW S, IsFiniteSet(S), NEW A \in SUBSET S,
           NEW t, HasSums(t, v, S), NEW u, HasSums(u, v, A)
    PROVE  \A T \in SUBSET A : u[T] = t[T]
<1> DEFINE Agree(n) == \A T \in SUBSET A : Cardinality(T) <= n => u[T] = t[T]
           N == {n \in Nat : Agree(n)}
<1>1. IsFiniteSet(A)
    BY FS_Subset
<1>2. \A T \in SUBSET A : u[T] = SumBy(v, u, T) /\ t[T] = SumBy(v, t, T)
    BY DEF HasSums
<1>3. \A T \in SUBSET A : IsFiniteSet(T) /\ Cardinality(T) \in Nat /\ (Cardinality(T) = 0 => T = {})
    BY <1>1, FS_Subset, FS_CardinalityType, FS_EmptySet
<1>4. Agree(0)
  <2> SUFFICES ASSUME NEW T \in SUBSET A, Cardinality(T) <= 0 PROVE u[T] = t[T]
      OBVIOUS
  <2>1. T = {}
      BY <1>3
  <2> QED BY <1>2, <2>1 DEF SumBy
<1>5. ASSUME NEW n \in Nat, Agree(n) PROVE Agree(n + 1)
  <2> SUFFICES ASSUME NEW T \in SUBSET A, Cardinality(T) <= n + 1 PROVE u[T] = t[T]
      OBVIOUS
  <2>1. CASE T = {}
      BY <1>2, <2>1 DEF SumBy
  <2>2. CASE T # {}
    <3>1. Smaller(T) \in SUBSET A /\ Cardinality(Smaller(T)) <= n
        BY <1>1, <2>2, PickedOut
    <3>2. u[Smaller(T)] = t[Smaller(T)]
        BY <1>5, <3>1
    <3> QED BY <1>2, <3>2 DEF SumBy
  <2> QED BY <2>1, <2>2
<1> HIDE DEF Agree
<1>6. ASSUME NEW T \in SUBSET A PROVE Agree(Cardinality(T))
  <2>1. Cardinality(T) \in Nat
      BY <1>3
  <2>2. N \in SUBSET Nat /\ 0 \in N /\ \A m \in Nat : m < Cardinality(T) /\ m \in N => m + 1 \in N
      BY <1>4, <1>5
  <2> HIDE DEF N
  <2>3. Cardinality(T) \in N
      BY <2>1, <2>2, CountUp
  <2> QED BY <2>3 DEF N
<1>7. ASSUME NEW T \in SUBSET A PROVE u[T] = t[T]
  <2>1. Agree(Cardinality(T)) /\ Cardinality(T) <= Cardinality(T)
      BY <1>3, <1>6
  <2> QED BY <2>1 DEF Agree
<1> QED BY <1>7

\* The sum is the picked value and the sum of the others.
LEMMA SumPicked ==
    ASSUME NEW v, NEW S, IsFiniteSet(S)
    PROVE  /\ SumFunctionOnSet(v, {}) = 0
           /\ \A T \in SUBSET S : T # {} =>
                 SumFunctionOnSet(v, T) = v[Pick(T)] + SumFunctionOnSet(v, Smaller(T))
<1> DEFINE Sums(A) == CHOOSE t : t = [T \in SUBSET A |-> SumBy(v, t, T)]
<1>1. \A A : SumFunctionOnSet(v, A) = Sums(A)[A]
    BY DEF SumFunctionOnSet, FoldFunctionOnSet, MapThenFoldSet, SumBy, Pick, Smaller
<1>2. ASSUME NEW A, IsFiniteSet(A) PROVE Sums(A) = [T \in SUBSET A |-> SumBy(v, Sums(A), T)]
    BY <1>2, SumsExist
<1> HIDE DEF Sums
<1>3. ASSUME NEW T \in SUBSET S PROVE IsFiniteSet(T) /\ Sums(T)[T] = Sums(S)[T]
  <2>1. IsFiniteSet(T)
      BY FS_Subset
  <2> DEFINE one == Sums(T)
             all == Sums(S)
  <2>2. HasSums(one, v, T) /\ HasSums(all, v, S)
      BY <1>2, <2>1 DEF HasSums
  <2> HIDE DEF one, all
  <2>3. \A U \in SUBSET T : one[U] = all[U]
      BY <2>2, SumsAgree
  <2>4. one[T] = all[T]
      BY <2>3
  <2> QED BY <2>1, <2>4 DEF one, all
<1>4. ASSUME NEW T \in SUBSET S PROVE Sums(S)[T] = SumBy(v, Sums(S), T)
    BY <1>2
<1>5. SumFunctionOnSet(v, {}) = 0
    BY <1>1, <1>3, <1>4 DEF SumBy
<1>6. ASSUME NEW T \in SUBSET S, T # {}
      PROVE  SumFunctionOnSet(v, T) = v[Pick(T)] + SumFunctionOnSet(v, Smaller(T))
  <2>1. Smaller(T) \in SUBSET S
      BY <1>6, PickedOut
  <2> QED BY <1>1, <1>3, <1>4, <1>6, <2>1 DEF SumBy
<1> QED BY <1>5, <1>6

\* Induction over the subsets of S: P is the set of those with the property.
LEMMA OneByOne ==
    ASSUME NEW S, IsFiniteSet(S), NEW P,
           \A T \in SUBSET S : (\A x \in T : T \ {x} \in P) => T \in P
    PROVE  S \in P
<1> DEFINE Good(n) == \A T \in SUBSET S : Cardinality(T) <= n => T \in P
           N == {n \in Nat : Good(n)}
<1>1. \A T \in SUBSET S : IsFiniteSet(T) /\ Cardinality(T) \in Nat /\ (Cardinality(T) = 0 => T = {})
    BY FS_Subset, FS_CardinalityType, FS_EmptySet
<1>2. Good(0)
  <2> SUFFICES ASSUME NEW T \in SUBSET S, Cardinality(T) <= 0 PROVE T \in P
      OBVIOUS
  <2>1. T = {}
      BY <1>1
  <2> QED BY <2>1
<1>3. ASSUME NEW n \in Nat, Good(n) PROVE Good(n + 1)
  <2> SUFFICES ASSUME NEW T \in SUBSET S, Cardinality(T) <= n + 1 PROVE T \in P
      OBVIOUS
  <2>1. ASSUME NEW x \in T PROVE T \ {x} \in P
    <3>1. Cardinality(T \ {x}) = Cardinality(T) - 1
        BY <1>1, FS_RemoveElement
    <3>2. T \ {x} \in SUBSET S /\ Cardinality(T) \in Nat
        BY <1>1
    <3>3. Cardinality(T \ {x}) <= n
        BY <3>1, <3>2
    <3> QED BY <1>3, <3>2, <3>3
  <2> QED BY <2>1
<1> HIDE DEF Good
<1>4. Cardinality(S) \in Nat
    BY <1>1
<1>5. N \in SUBSET Nat /\ 0 \in N /\ \A m \in Nat : m < Cardinality(S) /\ m \in N => m + 1 \in N
    BY <1>2, <1>3
<1> HIDE DEF N
<1>6. Cardinality(S) \in N
    BY <1>4, <1>5, CountUp
<1>7. Good(Cardinality(S)) /\ Cardinality(S) <= Cardinality(S)
    BY <1>4, <1>6 DEF N
<1> QED BY <1>7 DEF Good

\* Any value can be taken out of a sum first.
LEMMA SumTakeOut ==
    ASSUME NEW v, NEW S, IsFiniteSet(S), \A x \in S : v[x] \in Int
    PROVE  /\ SumFunctionOnSet(v, {}) = 0
           /\ SumFunctionOnSet(v, S) \in Int
           /\ \A x \in S : /\ SumFunctionOnSet(v, S \ {x}) \in Int
                           /\ SumFunctionOnSet(v, S) = v[x] + SumFunctionOnSet(v, S \ {x})
<1> DEFINE Sum(T) == SumFunctionOnSet(v, T)
           Good(T) == /\ Sum(T) \in Int
                      /\ \A x \in T : Sum(T \ {x}) \in Int /\ Sum(T) = v[x] + Sum(T \ {x})
           Goods == {T \in SUBSET S : Good(T)}
<1>1. Sum({}) = 0 /\ \A T \in SUBSET S : T # {} => Sum(T) = v[Pick(T)] + Sum(T \ {Pick(T)})
    BY SumPicked DEF Smaller
<1> HIDE DEF Sum
<1>2. ASSUME NEW T \in SUBSET S, \A x \in T : Good(T \ {x}) PROVE Good(T)
  <2> DEFINE y == Pick(T)
  <2>1. CASE T = {}
      BY <1>1, <2>1
  <2>2. CASE T # {}
    <3>1. y \in T /\ y \in S /\ v[y] \in Int
        BY <2>2 DEF Pick
    <3>2. Sum(T) = v[y] + Sum(T \ {y}) /\ Sum(T \ {y}) \in Int
        BY <1>1, <1>2, <2>2, <3>1
    <3> HIDE DEF y
    <3>3. ASSUME NEW x \in T, x # y PROVE Sum(T) = v[x] + Sum(T \ {x})
      <4> DEFINE rest == T \ {x, y}
      <4>1. (T \ {y}) \ {x} = rest /\ (T \ {x}) \ {y} = rest
          OBVIOUS
      <4>2. Sum(T \ {y}) = v[x] + Sum(rest) /\ Sum(rest) \in Int
          BY <1>2, <3>1, <3>3, <4>1
      <4>3. Sum(T \ {x}) = v[y] + Sum(rest)
          BY <1>2, <3>1, <3>3, <4>1
      <4>4. v[x] \in Int
          OBVIOUS
      <4> HIDE DEF rest, Good
      <4> QED BY <3>1, <3>2, <4>2, <4>3, <4>4
    <3>4. \A x \in T : Sum(T \ {x}) \in Int
        BY <1>2
    <3>5. Sum(T) \in Int
        BY <3>1, <3>2
    <3> QED BY <3>2, <3>3, <3>4, <3>5
  <2> QED BY <2>1, <2>2
<1> HIDE DEF Good
<1>3. S \in Goods
  <2>1. \A T \in SUBSET S : (\A x \in T : T \ {x} \in Goods) => T \in Goods
      BY <1>2
  <2> HIDE DEF Goods
  <2> QED BY <2>1, OneByOne
<1> QED BY <1>1, <1>3 DEF Good, Sum

\* Natural numbers add up to one.
LEMMA SumIsNat ==
    ASSUME NEW v, NEW S, IsFiniteSet(S), \A x \in S : v[x] \in Nat
    PROVE  SumFunctionOnSet(v, S) \in Nat
<1>1. ASSUME NEW T \in SUBSET S, \A x \in T : SumFunctionOnSet(v, T \ {x}) \in Nat
      PROVE  SumFunctionOnSet(v, T) \in Nat
  <2>1. IsFiniteSet(T) /\ \A x \in T : v[x] \in Int
      BY FS_Subset
  <2>2. /\ SumFunctionOnSet(v, {}) = 0
        /\ SumFunctionOnSet(v, T) \in Int
        /\ \A x \in T : /\ SumFunctionOnSet(v, T \ {x}) \in Int
                        /\ SumFunctionOnSet(v, T) = v[x] + SumFunctionOnSet(v, T \ {x})
    <3>1. PICK U : U = T
        OBVIOUS
    <3>2. IsFiniteSet(U) /\ \A x \in U : v[x] \in Int
        BY <2>1, <3>1
    <3>3. /\ SumFunctionOnSet(v, {}) = 0
          /\ SumFunctionOnSet(v, U) \in Int
          /\ \A x \in U : /\ SumFunctionOnSet(v, U \ {x}) \in Int
                          /\ SumFunctionOnSet(v, U) = v[x] + SumFunctionOnSet(v, U \ {x})
        BY <3>2, SumTakeOut
    <3> QED BY <3>1, <3>3
  <2>3. CASE T = {}
      BY <2>2, <2>3
  <2>4. CASE T # {}
    <3>1. PICK x \in T : TRUE
        BY <2>4
    <3>2. v[x] \in Nat /\ SumFunctionOnSet(v, T \ {x}) \in Nat
        BY <1>1
    <3> QED BY <2>2, <3>2
  <2> QED BY <2>3, <2>4
<1> DEFINE Goods == {T \in SUBSET S : SumFunctionOnSet(v, T) \in Nat}
<1>2. \A T \in SUBSET S : (\A x \in T : T \ {x} \in Goods) => T \in Goods
    BY <1>1
<1> HIDE DEF Goods
<1>3. S \in Goods
    BY <1>2, OneByOne
<1> QED BY <1>3 DEF Goods

\* Each positive value of one sum has its own, no smaller, in the other.
LEMMA SumAtMost ==
    ASSUME NEW v, NEW S, IsFiniteSet(S), \A x \in S : v[x] \in Int,
           NEW w, NEW T, IsFiniteSet(T), \A y \in T : w[y] \in Nat,
           NEW f,
           \A x \in S : v[x] > 0 => f[x] \in T /\ v[x] <= w[f[x]],
           \A x, y \in S : v[x] > 0 /\ v[y] > 0 /\ f[x] = f[y] => x = y
    PROVE  SumFunctionOnSet(v, S) <= SumFunctionOnSet(w, T)
<1> DEFINE SumV(A) == SumFunctionOnSet(v, A)
           SumW(B) == SumFunctionOnSet(w, B)
           Good(A) == \A B \in SUBSET T : (\A x \in A : v[x] > 0 => f[x] \in B) => SumV(A) <= SumW(B)
           Goods == {A \in SUBSET S : Good(A)}
<1>1. ASSUME NEW A \in SUBSET S
      PROVE  /\ SumV({}) = 0 /\ SumV(A) \in Int
             /\ \A x \in A : SumV(A \ {x}) \in Int /\ SumV(A) = v[x] + SumV(A \ {x})
  <2>1. IsFiniteSet(A) /\ \A x \in A : v[x] \in Int
      BY FS_Subset
  <2> QED BY <2>1, SumTakeOut
<1>2. ASSUME NEW B \in SUBSET T
      PROVE  /\ SumW(B) \in Nat
             /\ \A y \in B : SumW(B \ {y}) \in Nat /\ SumW(B) = w[y] + SumW(B \ {y})
  <2>1. IsFiniteSet(B) /\ \A y \in B : w[y] \in Nat /\ w[y] \in Int
      BY FS_Subset
  <2>2. ASSUME NEW y \in B PROVE SumW(B \ {y}) \in Nat
    <3>1. IsFiniteSet(B \ {y}) /\ \A z \in B \ {y} : w[z] \in Nat
        BY <2>1, FS_Subset
    <3> QED BY <3>1, SumIsNat
  <2> QED BY <2>1, <2>2, SumTakeOut, SumIsNat
<1> HIDE DEF SumV, SumW
<1>3. ASSUME NEW A \in SUBSET S, \A x \in A : Good(A \ {x}) PROVE Good(A)
  <2> SUFFICES ASSUME NEW B \in SUBSET T, \A x \in A : v[x] > 0 => f[x] \in B
               PROVE  SumV(A) <= SumW(B)
      OBVIOUS
  <2>1. CASE A = {}
      BY <1>1, <1>2, <2>1
  <2>2. CASE A # {}
    <3>1. PICK x \in A : TRUE
        BY <2>2
    <3>2. v[x] \in Int /\ SumV(A \ {x}) \in Int /\ SumV(A) = v[x] + SumV(A \ {x}) /\ SumW(B) \in Nat
        BY <1>1, <1>2
    <3>3. CASE v[x] <= 0
      <4>1. SumV(A \ {x}) <= SumW(B)
          BY <1>3
      <4> QED BY <3>2, <3>3, <4>1
    <3>4. CASE v[x] > 0
      <4>1. f[x] \in B /\ v[x] <= w[f[x]] /\ w[f[x]] \in Nat
          BY <3>4
      <4>2. SumW(B \ {f[x]}) \in Nat /\ SumW(B) = w[f[x]] + SumW(B \ {f[x]})
          BY <1>2, <4>1
      <4>3. SumV(A \ {x}) <= SumW(B \ {f[x]})
        <5>1. \A y \in A \ {x} : v[y] > 0 => f[y] \in B \ {f[x]}
            BY <3>4
        <5>2. B \ {f[x]} \in SUBSET T
            OBVIOUS
        <5> QED BY <1>3, <5>1, <5>2
      <4> HIDE DEF Good
      <4> QED BY <3>2, <4>1, <4>2, <4>3
    <3> QED BY <3>2, <3>3, <3>4
  <2> QED BY <2>1, <2>2
<1> HIDE DEF Good
<1>4. S \in Goods
  <2>1. \A A \in SUBSET S : (\A x \in A : A \ {x} \in Goods) => A \in Goods
      BY <1>3
  <2> HIDE DEF Goods
  <2> QED BY <2>1, OneByOne
<1>5. Good(S)
    BY <1>4
<1> QED BY <1>5 DEF Good, SumV, SumW
-------------------------------------------------------------------------------
(***************************************************************************)
(* Planning                                                                *)
(***************************************************************************)

\* A row is created when one blueprint is its card, and the seller has no such
\* product.
LEMMA PlanRowCreates ==
    ASSUME NEW found, NEW existing, NEW row,
           PlanRow(row, Catalog, found, existing).action = "create"
    PROVE  LET planned == PlanRow(row, Catalog, found, existing)
           IN  /\ planned \in Planned
               /\ Blueprints(Catalog, found, row.scryfall) = {planned.blueprint}
               /\ planned.condition = manabox_condition_to_ct(row.condition)
               /\ row.scryfall # None /\ planned.condition # None
               /\ ProductKey(planned.blueprint, row.foil, OrEnglish(row.language),
                             planned.condition) \notin existing
<1> DEFINE matches == Blueprints(Catalog, found, row.scryfall)
           condition == manabox_condition_to_ct(row.condition)
           blueprint == CHOOSE bp \in matches : TRUE
           planned == PlanRow(row, Catalog, found, existing)
           language == OrEnglish(row.language)
<1>1. /\ row.scryfall # None /\ condition # None
      /\ matches # {} /\ ~(Cardinality(matches) > 1)
      /\ ProductKey(blueprint, row.foil, language, condition) \notin existing
      /\ planned = [action |-> "create", blueprint |-> blueprint, condition |-> condition]
    BY DEF PlanRow
<1>2. matches \subseteq DOMAIN Catalog /\ IsFiniteSet(matches)
    BY ImportAssumption, FS_Subset DEF Blueprints
<1>3. Cardinality(matches) = 1
    BY <1>1, <1>2, FS_CardinalityType, FS_EmptySet
<1>4. matches = {blueprint}
    BY <1>2, <1>3, FS_Singleton
<1>5. condition \in {"Near Mint", "Slightly Played", "Moderately Played",
                     "Played", "Heavily Played", "Poor"}
    BY <1>1 DEF manabox_condition_to_ct
<1>6. blueprint \in DOMAIN Catalog
    BY <1>2, <1>4
<1> HIDE DEF matches, condition, blueprint, planned, language
<1>7. planned \in Planned /\ planned.blueprint = blueprint /\ planned.condition = condition
    BY <1>1, <1>5, <1>6 DEF Planned
<1>8. /\ matches = {planned.blueprint}
      /\ ProductKey(planned.blueprint, row.foil, language, planned.condition) \notin existing
    BY <1>1, <1>4, <1>7
<1> QED BY <1>1, <1>7, <1>8 DEF matches, planned, condition, language

\* The product of a row is the one the plan looked for in the inventory.
LEMMA ProductPlanned ==
    ASSUME NEW line, NEW as
    PROVE  Product(line, as) = ProductKey(as.blueprint, csv[line].foil,
                                          OrEnglish(csv[line].language), as.condition)
BY DEF Product, Listed, ProductKey, normalize_language, OrEnglish

-------------------------------------------------------------------------------
(***************************************************************************)
(* The invariant                                                           *)
(***************************************************************************)

LEMMA InitImport == Init => ImportInv
<1> SUFFICES ASSUME Init PROVE ImportInv
    OBVIOUS
<1>1. csv \in CsvFiles
    BY DEF Init
<1>2. IsFiniteSet(DOMAIN csv)
    BY <1>1, ImportAssumption
<1>3. inventory \in Seq(ToSet(inventory)) /\ jobs = <<>> /\ creates = {} /\ done = {}
    BY ImportAssumption DEF Init
<1> QED BY <1>2, <1>3 DEF ImportInv, ImportTypes, NothingListedTwice

\* The script reads the rows with copies.
LEMMA CardsRead == DOMAIN CsvCards(csv) = Cards /\ \A line \in Cards : CsvCards(csv)[line] = csv[line]
BY DEF CsvCards, Cards, Restrict

\* Lines keep their products while the CSV stays.
LEMMA SameCsv ==
    ASSUME UNCHANGED csv
    PROVE  /\ Cards' = Cards
           /\ \A line, as : Product(line, as)' = Product(line, as)
           /\ \A line, as : LeadsTo(line, as)' = LeadsTo(line, as)
           /\ \A job : Created(job)' = Created(job)
           /\ Job' = Job
BY DEF Product, Listed, ProductKey, normalize_language, OrEnglish, LeadsTo, manabox_condition_to_ct,
       Created, Job, Cards

\* A step of the script that plans nothing and submits nothing.
LEMMA ScriptStep ==
    ASSUME ImportInv, UNCHANGED <<ct, csv, plan, creates, done>>
    PROVE  ImportInv'
<1>1. UNCHANGED <<inventory, jobs, csv, plan, creates, done>>
    BY DEF ct
<1> QED BY <1>1, SameCsv DEF ImportInv, ImportTypes, NothingListedTwice

\* A plan creates nothing the inventory has, so none of what completed before.
LEMMA PlanStep == ImportInv /\ Plan => ImportInv'
<1> SUFFICES ASSUME ImportInv, Plan PROVE ImportInv'
    OBVIOUS
<1> DEFINE existing == ExistingKeys(inventory)
<1>1. PICK found \in Lookups : plan' = plan_import(CsvCards(csv), Catalog, found, existing)
    BY DEF Plan
<1>2. UNCHANGED <<inventory, jobs, csv>>
    BY DEF Plan, ct
<1>3. creates' \subseteq WithAction(plan', "create")
    BY DEF Plan
<1>4. done' = {j \in DOMAIN jobs : jobs[j].state = "completed"}
    BY DEF Plan
<1>5. ASSUME NEW line \in creates'
      PROVE  /\ line \in Cards
             /\ plan'[line] = PlanRow(csv[line], Catalog, found, existing)
             /\ plan'[line].action = "create"
  <2>1. DOMAIN plan' = Cards
      BY <1>1, CardsRead DEF plan_import
  <2>2. line \in Cards /\ plan'[line].action = "create"
      BY <1>3, <1>5, <2>1 DEF WithAction
  <2> QED BY <1>1, <2>2, CardsRead DEF plan_import
<1>6. ASSUME NEW line \in creates'
      PROVE  /\ plan'[line] \in Planned
             /\ LeadsTo(line, plan'[line])
             /\ Product(line, plan'[line]) \notin existing
  <2> HIDE DEF existing
  <2>1. PlanRow(csv[line], Catalog, found, existing).action = "create"
      BY <1>5
  <2>2. /\ plan'[line] \in Planned
        /\ Blueprints(Catalog, found, csv[line].scryfall) = {plan'[line].blueprint}
        /\ plan'[line].condition = manabox_condition_to_ct(csv[line].condition)
        /\ csv[line].scryfall # None /\ plan'[line].condition # None
        /\ ProductKey(plan'[line].blueprint, csv[line].foil, OrEnglish(csv[line].language),
                      plan'[line].condition) \notin existing
      BY <1>5, <2>1, PlanRowCreates
  <2>3. Product(line, plan'[line])
            = ProductKey(plan'[line].blueprint, csv[line].foil,
                         OrEnglish(csv[line].language), plan'[line].condition)
      BY ProductPlanned
  <2> QED BY <2>2, <2>3 DEF LeadsTo
<1>7. ImportTypes'
    BY <1>2, <1>4, <1>5, <1>6, SameCsv DEF ImportInv, ImportTypes, Planned
<1>8. \A j \in done' : \A line \in creates' : Product(line, plan'[line]) \notin Created(jobs[j])
    BY <1>4, <1>6 DEF ImportInv
<1> QED BY <1>2, <1>6, <1>7, <1>8, SameCsv DEF ImportInv, NothingListedTwice

\* A batch is part of the plan.
LEMMA PostBatchStep == ImportInv /\ PostBatch => ImportInv'
<1> SUFFICES ASSUME ImportInv, PostBatch PROVE ImportInv'
    OBVIOUS
<1> DEFINE job == [rows |-> Restrict(plan, Batch), state |-> "pending",
                   failed |-> {}, after |-> done]
           n == Len(jobs)
<1>1. jobs' = Append(jobs, job) /\ UNCHANGED <<inventory, csv, plan, creates, done>>
    BY DEF PostBatch, locals
<1>2. Batch \subseteq creates
    BY DEF Batch
<1>3. DOMAIN job.rows = Batch /\ \A line \in Batch : job.rows[line] = plan[line]
    BY DEF Restrict
<1>4. job \in Job
  <2>1. job.rows = [line \in Batch |-> plan[line]]
      BY DEF Restrict
  <2>2. \A line \in Batch : plan[line] \in Planned
      BY <1>2 DEF ImportInv, ImportTypes
  <2>3. job.rows \in [Batch -> Planned] /\ Batch \subseteq Cards
      BY <1>2, <2>1, <2>2 DEF ImportInv, ImportTypes
  <2>4. jobs \in Seq(Job) /\ done \subseteq DOMAIN jobs
      BY DEF ImportInv, ImportTypes
  <2>5. done \subseteq Nat
      BY <2>4
  <2> QED BY <2>3, <2>5 DEF Job
<1>5. /\ n \in Nat /\ DOMAIN jobs = 1 .. n /\ DOMAIN jobs' = 1 .. n + 1
      /\ jobs' \in Seq(Job)
      /\ \A j \in 1 .. n : jobs'[j] = jobs[j]
      /\ jobs'[n + 1] = job
    BY <1>1, <1>4 DEF ImportInv, ImportTypes
<1>6. job.state = "pending" /\ job.after = done
    OBVIOUS
<1> HIDE DEF job, n
<1>7. ImportTypes'
    BY <1>1, <1>5, SameCsv DEF ImportInv, ImportTypes
<1>8. ASSUME NEW j \in DOMAIN jobs'
      PROVE  /\ jobs'[j].state = "completed" => Created(jobs'[j]) \subseteq ExistingKeys(inventory)
             /\ \A earlier \in jobs'[j].after :
                   earlier \in DOMAIN jobs /\ jobs[earlier].state = "completed"
             /\ \A earlier \in jobs'[j].after : \A line \in DOMAIN jobs'[j].rows :
                   Product(line, jobs'[j].rows[line]) \notin Created(jobs[earlier])
             /\ \A line \in DOMAIN jobs'[j].rows : LeadsTo(line, jobs'[j].rows[line])
  <2>1. CASE j \in 1 .. n
      BY <1>5, <2>1 DEF ImportInv, NothingListedTwice
  <2>2. CASE j = n + 1
      BY <1>2, <1>3, <1>5, <1>6, <2>2 DEF ImportInv, ImportTypes
  <2> QED BY <1>5, <1>8, <2>1, <2>2
<1>9. \A j \in DOMAIN jobs : j \in DOMAIN jobs' /\ jobs'[j] = jobs[j]
    BY <1>5
<1>10. ExistingKeys(inventory)' = ExistingKeys(inventory)
    BY <1>1 DEF ExistingKeys, ProductKey, normalize_language, ToSet
<1>11. \A j \in done : \A line \in creates : Product(line, plan[line]) \notin Created(jobs'[j])
    BY <1>9 DEF ImportInv, ImportTypes
<1>12. ASSUME NEW j \in DOMAIN jobs'
       PROVE  /\ (jobs[j].state = "completed" =>
                      Created(jobs[j]) \subseteq ExistingKeys(inventory))'
              /\ (\A earlier \in jobs[j].after :
                     earlier \in DOMAIN jobs /\ jobs[earlier].state = "completed")'
              /\ (\A earlier \in jobs[j].after : \A line \in DOMAIN jobs[j].rows :
                     Product(line, jobs[j].rows[line]) \notin Created(jobs[earlier]))'
              /\ (\A line \in DOMAIN jobs[j].rows : LeadsTo(line, jobs[j].rows[line]))'
  <2>1. \A i : Created(jobs[i])' = Created(jobs'[i])
      BY <1>1 DEF Created, Product, Listed, ProductKey, normalize_language, OrEnglish
  <2>2. \A line : /\ Product(line, jobs[j].rows[line])' = Product(line, jobs'[j].rows[line])
                  /\ LeadsTo(line, jobs[j].rows[line])' = LeadsTo(line, jobs'[j].rows[line])
      BY <1>1 DEF Product, Listed, ProductKey, normalize_language, OrEnglish, LeadsTo, manabox_condition_to_ct
  <2> QED BY <1>8, <1>9, <1>10, <1>12, <2>1, <2>2
<1>13. (\A j \in done : \A line \in creates : Product(line, plan[line]) \notin Created(jobs[j]))'
    BY <1>1, <1>11, SameCsv
<1>14. (\A line \in creates : LeadsTo(line, plan[line]))'
    BY <1>1, SameCsv DEF ImportInv
<1> QED BY <1>7, <1>12, <1>13, <1>14 DEF ImportInv, NothingListedTwice

\* A job that ends changes neither its rows nor what it follows, and no
\* completed job changes.
LEMMA JobsKept ==
    ASSUME ImportInv, NEW j \in DOMAIN jobs, jobs[j].state = "pending",
           NEW job \in Job, job.rows = jobs[j].rows, job.after = jobs[j].after,
           jobs' = [jobs EXCEPT ![j] = job]
    PROVE  /\ DOMAIN jobs' = DOMAIN jobs /\ jobs' \in Seq(Job)
           /\ \A i \in DOMAIN jobs : i # j => jobs'[i] = jobs[i]
           /\ jobs'[j] = job
           /\ \A i \in DOMAIN jobs : jobs'[i].rows = jobs[i].rows /\ jobs'[i].after = jobs[i].after
           /\ \A i \in DOMAIN jobs : jobs[i].state = "completed" => jobs'[i] = jobs[i]
<1>1. jobs \in Seq(Job)
    BY DEF ImportInv, ImportTypes
<1>2. DOMAIN jobs' = DOMAIN jobs /\ jobs' \in Seq(Job)
  <2>1. ASSUME NEW S, NEW s \in Seq(S), NEW x \in S, NEW i \in DOMAIN s
        PROVE  [s EXCEPT ![i] = x] \in Seq(S) /\ DOMAIN [s EXCEPT ![i] = x] = DOMAIN s
      OBVIOUS
  <2>2. [jobs EXCEPT ![j] = job] \in Seq(Job) /\ DOMAIN [jobs EXCEPT ![j] = job] = DOMAIN jobs
      BY <1>1, <2>1
  <2> QED BY <2>2
<1>3. jobs'[j] = job /\ \A i \in DOMAIN jobs : i # j => jobs'[i] = jobs[i]
    OBVIOUS
<1> QED BY <1>2, <1>3

\* When a job ends nothing else in the invariant moves but what is listed.
LEMMA EndedJob ==
    ASSUME ImportInv, UNCHANGED <<csv, plan, creates, done>>,
           inventory' \in Seq(ToSet(inventory')),
           DOMAIN jobs' = DOMAIN jobs, jobs' \in Seq(Job),
           \A i \in DOMAIN jobs : jobs'[i].rows = jobs[i].rows /\ jobs'[i].after = jobs[i].after,
           \A i \in DOMAIN jobs : jobs[i].state = "completed" => jobs'[i] = jobs[i],
           \A i \in DOMAIN jobs : jobs'[i].state = "completed" =>
               Created(jobs'[i]) \subseteq ExistingKeys(inventory')
    PROVE  ImportInv'
<1>1. ImportTypes'
  <2>1. Job' = Job /\ Cards' = Cards
      BY DEF Job, Cards
  <2>2. ToSet(inventory)' = ToSet(inventory')
      BY DEF ToSet
  <2> QED BY <2>1, <2>2 DEF ImportInv, ImportTypes
<1>2. \A i : Created(jobs[i])' = Created(jobs'[i])
  <2>1. \A i, line : Product(line, jobs[i].rows[line])' = Product(line, jobs'[i].rows[line])
      BY DEF Product, Listed, ProductKey, normalize_language, OrEnglish
  <2> QED BY <2>1 DEF Created
<1>3. \A i, line : /\ Product(line, jobs[i].rows[line])' = Product(line, jobs'[i].rows[line])
                   /\ LeadsTo(line, jobs[i].rows[line])' = LeadsTo(line, jobs'[i].rows[line])
    BY DEF Product, Listed, ProductKey, normalize_language, OrEnglish, LeadsTo, manabox_condition_to_ct
<1>4. \A line : /\ Product(line, plan[line])' = Product(line, plan[line])
                /\ LeadsTo(line, plan[line])' = LeadsTo(line, plan[line])
    BY DEF Product, Listed, ProductKey, normalize_language, OrEnglish, LeadsTo, manabox_condition_to_ct
<1>5. ExistingKeys(inventory)' = ExistingKeys(inventory')
    BY DEF ExistingKeys, ProductKey, normalize_language, ToSet
<1>6. (\A i \in DOMAIN jobs :
          jobs[i].state = "completed" => Created(jobs[i]) \subseteq ExistingKeys(inventory))'
    BY <1>2, <1>5
<1>7. (\A i \in done : \A line \in creates : Product(line, plan[line]) \notin Created(jobs[i]))'
    BY <1>2, <1>4 DEF ImportInv, ImportTypes
<1>8. (\A i \in DOMAIN jobs : \A earlier \in jobs[i].after :
          earlier \in DOMAIN jobs /\ jobs[earlier].state = "completed")'
    BY DEF ImportInv
<1>9. NothingListedTwice'
    BY <1>2, <1>3 DEF ImportInv, NothingListedTwice
<1>10. (\A line \in creates : LeadsTo(line, plan[line]))'
    BY <1>4 DEF ImportInv
<1>11. (\A i \in DOMAIN jobs : \A line \in DOMAIN jobs[i].rows : LeadsTo(line, jobs[i].rows[line]))'
    BY <1>3 DEF ImportInv
<1> QED BY <1>1, <1>6, <1>7, <1>8, <1>9, <1>10, <1>11 DEF ImportInv

\* What a job lists is from then on among the products of the seller.
LEMMA JobRunsStep == ASSUME ImportInv, NEW j \in DOMAIN jobs, JobRuns(j) PROVE ImportInv'
<1>1. PICK failed \in SUBSET DOMAIN jobs[j].rows :
          LET ok == SetToSeq(DOMAIN jobs[j].rows \ failed)
          IN  /\ jobs' = [jobs EXCEPT ![j].state = "completed", ![j].failed = failed]
              /\ inventory' = inventory \o [n \in DOMAIN ok |-> Listed(ok[n], jobs[j].rows[ok[n]])]
    BY DEF JobRuns
<1> DEFINE lines == DOMAIN jobs[j].rows \ failed
           ok == SetToSeq(lines)
           new == [n \in DOMAIN ok |-> Listed(ok[n], jobs[j].rows[ok[n]])]
<1>2. jobs[j].state = "pending" /\ UNCHANGED <<csv, plan, creates, done>>
    BY DEF JobRuns, locals
<1>3. lines \subseteq DOMAIN csv
  <2>1. jobs[j] \in Job
      BY DEF ImportInv, ImportTypes
  <2> QED BY <2>1 DEF Job, Cards
<1>4. ok \in Seq(lines) /\ ToSet(ok) = lines
  <2>1. IsFiniteSet(lines)
      BY <1>3, FS_Subset DEF ImportInv, ImportTypes
  <2> QED BY <2>1, ListsAll
<1>5. /\ inventory' \in Seq(ToSet(inventory'))
      /\ ToSet(inventory) \cup ToSet(new) \subseteq ToSet(inventory')
  <2> HIDE DEF ok
  <2>1. DOMAIN ok = 1 .. Len(ok) /\ Len(ok) \in Nat
      BY <1>4
  <2>2. new \in Seq({Listed(ok[n], jobs[j].rows[ok[n]]) : n \in DOMAIN ok})
      BY <2>1
  <2>3. inventory' = inventory \o new
      BY <1>1 DEF ok
  <2> HIDE DEF new
  <2> QED BY <2>2, <2>3, Appended DEF ImportInv, ImportTypes
<1>6. ASSUME NEW line \in lines
      PROVE  Product(line, jobs[j].rows[line]) \in ExistingKeys(inventory')
  <2> DEFINE listing == Listed(line, jobs[j].rows[line])
  <2>1. PICK n \in DOMAIN ok : ok[n] = line
      BY <1>4, <1>6 DEF ToSet
  <2>2. n \in DOMAIN new /\ new[n] = listing
      BY <2>1
  <2>3. listing \in ToSet(new)
      BY <2>2 DEF ToSet
  <2>4. listing \in ToSet(inventory')
      BY <1>5, <2>3
  <2> HIDE DEF listing
  <2>5. ProductKey(listing.blueprint, listing.foil, listing.language, listing.condition)
            \in ExistingKeys(inventory')
      BY <2>4 DEF ExistingKeys
  <2> QED BY <2>5 DEF Product, listing
<1>7. ExistingKeys(inventory) \subseteq ExistingKeys(inventory')
    BY <1>5 DEF ExistingKeys
<1>8. /\ DOMAIN jobs' = DOMAIN jobs /\ jobs' \in Seq(Job)
      /\ \A i \in DOMAIN jobs : i # j => jobs'[i] = jobs[i]
      /\ \A i \in DOMAIN jobs : jobs'[i].rows = jobs[i].rows /\ jobs'[i].after = jobs[i].after
      /\ jobs'[j].failed = failed
      /\ \A i \in DOMAIN jobs : jobs[i].state = "completed" => jobs'[i] = jobs[i]
  <2> DEFINE job == [jobs[j] EXCEPT !.state = "completed", !.failed = failed]
  <2>1. jobs[j] \in Job
      BY DEF ImportInv, ImportTypes
  <2>2. failed \in SUBSET Cards
      BY <2>1 DEF Job
  <2>3. job \in Job
      BY <2>1, <2>2 DEF Job
  <2>4. job.rows = jobs[j].rows /\ job.after = jobs[j].after /\ job.failed = failed
      BY <2>1 DEF Job
  <2>5. jobs' = [jobs EXCEPT ![j] = job]
      BY <1>1
  <2> HIDE DEF job
  <2> QED BY <1>2, <2>3, <2>4, <2>5, JobsKept
<1>9. \A i \in DOMAIN jobs : jobs'[i].state = "completed" =>
          Created(jobs'[i]) \subseteq ExistingKeys(inventory')
  <2>1. Created(jobs'[j]) \subseteq ExistingKeys(inventory')
    <3>1. jobs'[j].rows = jobs[j].rows /\ jobs'[j].failed = failed
        BY <1>8
    <3> QED BY <1>6, <3>1 DEF Created
  <2> QED BY <1>7, <1>8, <2>1 DEF ImportInv
<1> QED BY <1>2, <1>5, <1>8, <1>9, EndedJob

\* An unprocessable job lists nothing.
LEMMA JobUnprocessableStep ==
    ASSUME ImportInv, NEW j \in DOMAIN jobs, JobUnprocessable(j) PROVE ImportInv'
<1> DEFINE job == [jobs[j] EXCEPT !.state = "unprocessable"]
<1>1. /\ jobs[j].state = "pending" /\ jobs' = [jobs EXCEPT ![j] = job]
      /\ UNCHANGED <<inventory, csv, plan, creates, done>>
    BY DEF JobUnprocessable, locals
<1>2. jobs[j] \in Job /\ job \in Job
  <2>1. jobs[j] \in Job
      BY DEF ImportInv, ImportTypes
  <2> QED BY <2>1 DEF Job
<1>3. job.rows = jobs[j].rows /\ job.after = jobs[j].after /\ job.state # "completed"
    BY <1>2 DEF Job
<1> HIDE DEF job
<1>4. /\ DOMAIN jobs' = DOMAIN jobs /\ jobs' \in Seq(Job)
      /\ \A i \in DOMAIN jobs : i # j => jobs'[i] = jobs[i]
      /\ jobs'[j] = job
      /\ \A i \in DOMAIN jobs : jobs'[i].rows = jobs[i].rows /\ jobs'[i].after = jobs[i].after
      /\ \A i \in DOMAIN jobs : jobs[i].state = "completed" => jobs'[i] = jobs[i]
    BY <1>1, <1>2, <1>3, JobsKept
<1>5. \A i \in DOMAIN jobs : jobs'[i].state = "completed" =>
          Created(jobs'[i]) \subseteq ExistingKeys(inventory')
    BY <1>1, <1>3, <1>4 DEF ImportInv
<1>6. inventory' \in Seq(ToSet(inventory'))
    BY <1>1 DEF ImportInv, ImportTypes
<1> QED BY <1>1, <1>4, <1>5, <1>6, EndedJob

LEMMA ImportStep == ImportInv /\ [Next]_vars => ImportInv'
<1> SUFFICES ASSUME ImportInv, [Next]_vars PROVE ImportInv'
    OBVIOUS
<1>1. CASE Plan
    BY <1>1, PlanStep
<1>2. CASE PostBatch
    BY <1>2, PostBatchStep
<1>3. CASE Stop("nothing") \/ Stop("refused") \/ Apply \/ Finish \/ Fail
    BY <1>3, ScriptStep DEF Stop, Apply, Finish, Fail, locals
<1>4. CASE JobEnded
    BY <1>4, ScriptStep DEF JobEnded
<1>5. CASE \E j \in DOMAIN jobs : JobRuns(j) \/ JobUnprocessable(j)
    BY <1>5, JobRunsStep, JobUnprocessableStep
<1>6. CASE UNCHANGED vars
    BY <1>6, ScriptStep DEF vars, locals
<1> QED BY <1>1, <1>2, <1>3, <1>4, <1>5, <1>6 DEF Next, Script, Quiescent

LEMMA ImportHolds == Spec => []ImportInv
BY InitImport, ImportStep, PTL DEF Spec

\* No product that an import's job created is created again by a run started
\* afterwards, whatever failed, was lost or is still queued of earlier ones.
THEOREM ProductsOnce == Spec => []NothingListedTwice
<1>1. ImportInv => NothingListedTwice
    BY DEF ImportInv
<1> QED BY <1>1, ImportHolds, PTL

-------------------------------------------------------------------------------
(***************************************************************************)
(* Rows                                                                    *)
(***************************************************************************)

\* A job's rows are not listed again by a later run, as whatever product.
NoRowListedTwice ==
    \A j2 \in DOMAIN jobs : \A j1 \in jobs[j2].after :
        \A line \in DOMAIN jobs[j1].rows \ jobs[j1].failed : line \notin DOMAIN jobs[j2].rows

\* The same of the rows of the CSV, where Scryfall's failures do not change
\* which blueprint a card leads to.
THEOREM RowsOnce ==
    ASSUME OneBlueprint
    PROVE  Spec => []NoRowListedTwice
<1>1. ImportInv => NoRowListedTwice
  <2> SUFFICES ASSUME ImportInv, NEW j2 \in DOMAIN jobs, NEW j1 \in jobs[j2].after,
                      NEW line \in DOMAIN jobs[j1].rows \ jobs[j1].failed,
                      line \in DOMAIN jobs[j2].rows
               PROVE  FALSE
      BY DEF NoRowListedTwice
  <2>1. j1 \in DOMAIN jobs
      BY DEF ImportInv
  <2>2. jobs[j1].rows[line].blueprint = jobs[j2].rows[line].blueprint
    <3>1. LeadsTo(line, jobs[j1].rows[line]) /\ LeadsTo(line, jobs[j2].rows[line])
        BY <2>1 DEF ImportInv
    <3> DEFINE id == csv[line].scryfall
               bp1 == jobs[j1].rows[line].blueprint
               bp2 == jobs[j2].rows[line].blueprint
    <3>2. PICK found \in Lookups : Blueprints(Catalog, found, id) = {bp1}
        BY <3>1 DEF LeadsTo
    <3>3. PICK other \in Lookups : Blueprints(Catalog, other, id) = {bp2}
        BY <3>1 DEF LeadsTo
    <3> HIDE DEF bp1, bp2
    <3>4. bp1 \in Blueprints(Catalog, found, id) /\ bp2 \in Blueprints(Catalog, other, id)
        BY <3>2, <3>3
    <3>5. bp1 \in DOMAIN Catalog /\ bp2 \in DOMAIN Catalog /\ ScryfallOf(Catalog[bp1], found) = id
        BY <3>4 DEF Blueprints
    <3>6. id # None
        BY <3>1 DEF LeadsTo
    <3>7. bp1 = bp2
        BY <3>2, <3>3, <3>5, <3>6 DEF OneBlueprint
    <3> QED BY <3>7 DEF bp1, bp2
  <2>3. jobs[j1].rows[line].condition = jobs[j2].rows[line].condition
      BY <2>1 DEF ImportInv, LeadsTo
  <2>4. Product(line, jobs[j1].rows[line]) = Product(line, jobs[j2].rows[line])
      BY <2>2, <2>3, ProductPlanned
  <2>5. Product(line, jobs[j1].rows[line]) \in Created(jobs[j1])
      BY DEF Created
  <2> QED BY <2>4, <2>5 DEF ImportInv, NothingListedTwice
<1> QED BY <1>1, ImportHolds, PTL

-------------------------------------------------------------------------------
(***************************************************************************)
(* What a run that is done has listed                                      *)
(***************************************************************************)

Submitted == {line \in creates : Rank(line, creates) <= index}

\* The lines that have become listings, unless rows fail.
Owed ==
    CASE pc = "batch" -> Submitted
      [] pc = "poll" -> IF Last(jobs).state = "completed" THEN Submitted \cup Batch ELSE Submitted
      [] pc = "idle" /\ outcome = "done" -> creates
      [] OTHER -> {}

\* Each of them has a listing of its own.
Landed ==
    \E at \in Injection(Owed, DOMAIN inventory) :
        \A line \in Owed : inventory[at[line]] = Listed(line, plan[line])

\* Without a limit, what a run applies is every line that none found to exist.
PlanFacts ==
    pc # "idle" \/ outcome = "done" =>
        /\ DOMAIN plan = Cards
        /\ \A line \in DOMAIN plan : plan[line].action \in {"create", "skip_existing", "skip_error"}
        /\ limit = 0 => creates = WithAction(plan, "create")
        /\ WithAction(plan, "skip_existing") \subseteq skipped
        /\ pc # "planned" => WithAction(plan, "skip_error") = {}

DoneInv ==
    /\ index \in Nat /\ (pc = "planned" => index = 0)
    /\ pc \in {"idle", "planned", "batch", "poll"}
    /\ outcome = "done" => pc = "idle"
    /\ DOMAIN csv \subseteq Nat /\ \A line \in DOMAIN csv : csv[line].quantity \in Int
    /\ \A n \in DOMAIN inventory : inventory[n].quantity \in Nat
    /\ PlanFacts
    /\ \A j \in DOMAIN jobs : jobs[j].state = "pending" => jobs[j].failed = {}
    /\ pc = "poll" => jobs # <<>> /\ Last(jobs).rows = Restrict(plan, Batch)
    /\ (\A j \in DOMAIN jobs : jobs[j].failed = {}) => Landed

LEMMA InitDone == Init => DoneInv
<1> SUFFICES ASSUME Init PROVE DoneInv
    OBVIOUS
<1>1. csv \in CsvFiles
    BY DEF Init
<1>2. DOMAIN csv \subseteq Nat /\ \A line \in DOMAIN csv : csv[line].quantity \in Int
    BY <1>1, ImportAssumption
<1>3. \A n \in DOMAIN inventory : inventory[n].quantity \in Nat
    BY ImportAssumption DEF Init
<1>4. pc = "idle" /\ outcome = "none" /\ index = 0 /\ jobs = <<>>
    BY DEF Init
<1>5. Landed
  <2>1. Owed = {}
      BY <1>4 DEF Owed
  <2> DEFINE at == [line \in {} |-> line]
  <2>2. at \in Injection(Owed, DOMAIN inventory)
      BY <2>1 DEF Injection, IsInjective
  <2> QED BY <2>1, <2>2 DEF Landed
<1> QED BY <1>2, <1>3, <1>4, <1>5 DEF DoneInv, PlanFacts

\* Nothing happens to what is listed when neither side moves.
LEMMA LandedKept ==
    ASSUME Landed, UNCHANGED <<inventory, csv, plan>>, Owed' \subseteq Owed
    PROVE  Landed'
<1>1. PICK at \in Injection(Owed, DOMAIN inventory) :
          \A line \in Owed : inventory[at[line]] = Listed(line, plan[line])
    BY DEF Landed
<1> DEFINE fewer == [line \in Owed' |-> at[line]]
<1>2. fewer \in Injection(Owed', DOMAIN inventory')
    BY <1>1 DEF Injection, IsInjective
<1>3. \A line \in Owed' : inventory'[fewer[line]] = Listed(line, plan'[line])
    BY <1>1
<1>4. \A line : Listed(line, plan[line])' = Listed(line, plan'[line])
    BY DEF Listed, normalize_language, OrEnglish
<1> QED BY <1>2, <1>3, <1>4 DEF Landed

\* Ranks count from one.
LEMMA Ranks ==
    ASSUME ImportInv, DoneInv
    PROVE  /\ Cardinality(creates) \in Nat
           /\ \A line \in creates : /\ Rank(line, creates) \in Nat /\ Rank(line, creates) >= 1
                                    /\ Rank(line, creates) <= Cardinality(creates)
<1>1. IsFiniteSet(creates) /\ creates \subseteq Nat
    BY FS_Subset DEF ImportInv, ImportTypes, DoneInv, Cards
<1>2. Cardinality(creates) \in Nat
    BY <1>1, FS_CardinalityType
<1>3. ASSUME NEW line \in creates
      PROVE  /\ Rank(line, creates) \in Nat /\ Rank(line, creates) >= 1
             /\ Rank(line, creates) <= Cardinality(creates)
  <2> DEFINE others == {other \in creates : other <= line}
  <2>1. IsFiniteSet(others) /\ Cardinality(others) <= Cardinality(creates)
      BY <1>1, FS_Subset
  <2>2. line \in others
      BY <1>1
  <2>3. Cardinality(others) \in Nat /\ Cardinality(others) # 0
      BY <2>1, <2>2, FS_CardinalityType, FS_EmptySet
  <2> QED BY <2>1, <2>3 DEF Rank
<1> QED BY <1>2, <1>3

\* A run that stops, goes on or ends without planning, submitting or waiting.
LEMMA DoneFrame ==
    ASSUME DoneInv, UNCHANGED <<inventory, jobs, csv, plan, creates, index, limit, skipped>>,
           pc' \in {"idle", "batch"}, outcome' = "done" => pc' = "idle",
           pc' # "idle" \/ outcome' = "done" =>
               /\ pc # "idle" \/ outcome = "done"
               /\ WithAction(plan, "skip_error") = {},
           Owed' = {} \/ Owed' \subseteq Owed
    PROVE  DoneInv'
<1>1. PlanFacts'
    BY SameCsv DEF DoneInv, PlanFacts, WithAction
<1>2. (\A j \in DOMAIN jobs : jobs[j].failed = {})' => Landed'
  <2> SUFFICES ASSUME \A j \in DOMAIN jobs : jobs[j].failed = {} PROVE Landed'
      OBVIOUS
  <2>1. Landed
      BY DEF DoneInv
  <2>2. Owed' \subseteq Owed
      OBVIOUS
  <2> QED BY <2>1, <2>2, LandedKept
<1> QED BY <1>1, <1>2 DEF DoneInv

LEMMA DonePlan == ASSUME ImportInv, DoneInv, Plan PROVE DoneInv'
<1>1. PICK found \in Lookups :
          plan' = plan_import(CsvCards(csv), Catalog, found, ExistingKeys(inventory))
    BY DEF Plan
<1>2. /\ pc' = "planned" /\ index' = 0 /\ outcome' = "none"
      /\ UNCHANGED <<inventory, jobs, csv>>
      /\ skipped' = skipped \cup WithAction(plan', "skip_existing")
    BY DEF Plan, ct
<1>3. creates' = {line \in WithAction(plan', "create") :
                      limit' = 0 \/ Rank(line, WithAction(plan', "create")) <= limit'}
    BY DEF Plan
<1>4. DOMAIN plan' = Cards /\ Cards' = Cards
    BY <1>1, <1>2, CardsRead, SameCsv DEF plan_import
<1>5. \A line \in Cards : plan'[line].action \in {"create", "skip_existing", "skip_error"}
  <2> SUFFICES ASSUME NEW line \in Cards
               PROVE  plan'[line].action \in {"create", "skip_existing", "skip_error"}
      OBVIOUS
  <2>1. plan'[line] = PlanRow(csv[line], Catalog, found, ExistingKeys(inventory))
      BY <1>1, CardsRead DEF plan_import
  <2> QED BY <2>1 DEF PlanRow
<1>6. limit' = 0 => creates' = WithAction(plan', "create")
    BY <1>3
<1>7. WithAction(plan, "skip_existing")' \subseteq skipped'
    BY <1>2 DEF WithAction
<1>8. PlanFacts'
    BY <1>2, <1>4, <1>5, <1>6, <1>7 DEF PlanFacts, WithAction
<1>9. Owed' = {}
    BY <1>2 DEF Owed
<1>10. Landed'
  <2> DEFINE at == [line \in {} |-> line]
  <2>1. at \in Injection(Owed', DOMAIN inventory')
      BY <1>9 DEF Injection, IsInjective
  <2> QED BY <1>9, <2>1 DEF Landed
<1> QED BY <1>2, <1>8, <1>10 DEF DoneInv

\* The script goes on: it applies the plan, sees the end of a job, or is done.
LEMMA DoneScript ==
    ASSUME ImportInv, DoneInv, Stop("nothing") \/ Stop("refused") \/ Apply \/ Finish \/ Fail
    PROVE  DoneInv'
<1>1. UNCHANGED <<inventory, jobs, csv, plan, creates, index, limit, skipped>>
    BY DEF Stop, Apply, Finish, Fail, ct, locals
<1>2. CASE pc' = "idle" /\ outcome' \in {"nothing", "refused", "failed"}
  <2>1. Owed' = {}
      BY <1>2 DEF Owed
  <2> QED BY <1>1, <1>2, <2>1, DoneFrame
<1>3. CASE Apply
  <2>1. pc = "planned" /\ pc' = "batch" /\ outcome' = outcome /\ index' = 0 /\ creates' = creates
        /\ WithAction(plan, "skip_error") = {}
      BY <1>1, <1>3 DEF Apply, DoneInv
  <2>2. Owed' = {}
    <3>1. Owed' = Submitted'
        BY <2>1 DEF Owed
    <3>2. Submitted' = {line \in creates : Rank(line, creates) <= 0}
        BY <2>1 DEF Submitted, Rank
    <3> QED BY <3>1, <3>2, Ranks
  <2>3. outcome' # "done"
      BY <2>1 DEF DoneInv
  <2> QED BY <1>1, <2>1, <2>2, <2>3, DoneFrame
<1>4. CASE Finish
  <2>1. pc = "batch" /\ index >= Cardinality(creates) /\ pc' = "idle" /\ outcome' = "done"
      BY <1>4 DEF Finish
  <2>2. Owed = Submitted
      BY <2>1 DEF Owed
  <2>3. Submitted = creates
      BY <2>1, Ranks DEF Submitted, DoneInv
  <2>4. Owed' = creates
      BY <1>1, <2>1 DEF Owed
  <2>5. WithAction(plan, "skip_error") = {}
      BY <2>1 DEF DoneInv, PlanFacts
  <2> QED BY <1>1, <2>1, <2>2, <2>3, <2>4, <2>5, DoneFrame
<1> QED BY <1>2, <1>3, <1>4 DEF Stop, Fail

\* The batch that was submitted is counted when its job is completed.
LEMMA DoneJobEnded == ASSUME ImportInv, DoneInv, JobEnded PROVE DoneInv'
<1>1. /\ pc = "poll" /\ UNCHANGED <<inventory, jobs, csv, plan, creates, limit, skipped>>
      /\ WithAction(plan, "skip_error") = {} /\ outcome # "done"
    BY DEF JobEnded, ct, DoneInv, PlanFacts
<1>2. CASE pc' = "idle" /\ index' = index /\ outcome' = "failed"
  <2>1. Owed' = {}
      BY <1>2 DEF Owed
  <2> QED BY <1>1, <1>2, <2>1, DoneFrame
<1>3. CASE /\ Last(jobs).state = "completed" /\ pc' = "batch" /\ index' = index + BatchSize
           /\ outcome' = outcome
  <2>1. index' \in Nat
      BY <1>3, ImportAssumption DEF DoneInv
  <2>2. Owed' = Owed
    <3>1. Owed = Submitted \cup Batch
        BY <1>1, <1>3 DEF Owed
    <3>2. Owed' = {line \in creates : Rank(line, creates) <= index + BatchSize}
        BY <1>1, <1>3 DEF Owed, Submitted, Rank
    <3>3. ASSUME NEW line \in creates
          PROVE  Rank(line, creates) <= index + BatchSize <=>
                     \/ Rank(line, creates) <= index
                     \/ Rank(line, creates) \in index + 1 .. index + BatchSize
      <4>1. Rank(line, creates) \in Nat /\ index \in Nat /\ BatchSize \in Nat
          BY Ranks, ImportAssumption DEF DoneInv
      <4> QED BY <4>1
    <3> QED BY <3>1, <3>2, <3>3 DEF Submitted, Batch
  <2>3. PlanFacts'
      BY <1>1, <1>3, SameCsv DEF DoneInv, PlanFacts, WithAction
  <2>4. (\A j \in DOMAIN jobs : jobs[j].failed = {})' => Landed'
    <3> SUFFICES ASSUME \A j \in DOMAIN jobs : jobs[j].failed = {} PROVE Landed'
        BY <1>1
    <3>1. Landed
        BY DEF DoneInv
    <3> QED BY <1>1, <2>2, <3>1, LandedKept
  <2> QED BY <1>1, <1>3, <2>1, <2>3, <2>4 DEF DoneInv
<1> QED BY <1>2, <1>3 DEF JobEnded

\* A submitted batch has landed no listing yet.
LEMMA DonePostBatch == ASSUME ImportInv, DoneInv, PostBatch PROVE DoneInv'
<1> DEFINE job == [rows |-> Restrict(plan, Batch), state |-> "pending",
                   failed |-> {}, after |-> done]
           n == Len(jobs)
<1>1. /\ pc = "batch" /\ jobs' = Append(jobs, job)
      /\ UNCHANGED <<inventory, csv, plan, creates, index, limit, skipped>>
      /\ \/ pc' = "poll" /\ outcome' = outcome
         \/ pc' = "idle" /\ outcome' = "failed"
    BY DEF PostBatch, locals
<1>2. jobs \in Seq(Job)
    BY DEF ImportInv, ImportTypes
<1>3. /\ DOMAIN jobs = 1 .. n /\ DOMAIN jobs' = 1 .. n + 1 /\ n \in Nat /\ Len(jobs') = n + 1
      /\ jobs'[n + 1] = job /\ \A j \in 1 .. n : jobs'[j] = jobs[j]
  <2> HIDE DEF job
  <2> QED BY <1>1, <1>2
<1>4. job.rows = Restrict(plan, Batch) /\ job.state = "pending" /\ job.failed = {}
    OBVIOUS
<1> HIDE DEF job, n
<1>5. Last(jobs') = job /\ jobs' # <<>>
    BY <1>3 DEF Last
<1>6. (Restrict(plan, Batch))' = Restrict(plan, Batch)
    BY <1>1 DEF Restrict, Batch, Rank
<1>7. PlanFacts'
    BY <1>1, SameCsv DEF DoneInv, PlanFacts, WithAction
<1>8. Owed' \subseteq Owed
  <2>1. CASE pc' = "poll"
    <3>1. Last(jobs)'.state = "pending"
        BY <1>4, <1>5 DEF Last
    <3>2. Owed' = Submitted'
        BY <2>1, <3>1 DEF Owed
    <3>3. Submitted' = Submitted
        BY <1>1 DEF Submitted, Rank
    <3> QED BY <1>1, <3>2, <3>3 DEF Owed
  <2>2. CASE pc' = "idle" /\ outcome' = "failed"
      BY <2>2 DEF Owed
  <2> QED BY <1>1, <2>1, <2>2
<1>9. (\A j \in DOMAIN jobs : jobs[j].failed = {})' => Landed'
  <2> SUFFICES ASSUME \A j \in DOMAIN jobs' : jobs'[j].failed = {} PROVE Landed'
      OBVIOUS
  <2>1. \A j \in DOMAIN jobs : jobs[j].failed = {}
      BY <1>3
  <2>2. Landed
      BY <2>1 DEF DoneInv
  <2> QED BY <1>1, <1>8, <2>2, LandedKept
<1>10. \A j \in DOMAIN jobs' : jobs'[j].state = "pending" => jobs'[j].failed = {}
    BY <1>3, <1>4 DEF DoneInv
<1>11. (Last(jobs).rows = Restrict(plan, Batch))'
    BY <1>4, <1>5, <1>6 DEF Last
<1> QED BY <1>1, <1>5, <1>7, <1>9, <1>10, <1>11 DEF DoneInv

\* A completed job's rows each have their listing after all the others.
LEMMA DoneJobRuns == ASSUME ImportInv, DoneInv, NEW j \in DOMAIN jobs, JobRuns(j) PROVE DoneInv'
<1>1. PICK failed \in SUBSET DOMAIN jobs[j].rows :
          LET ok == SetToSeq(DOMAIN jobs[j].rows \ failed)
          IN  /\ jobs' = [jobs EXCEPT ![j].state = "completed", ![j].failed = failed]
              /\ inventory' = inventory \o [n \in DOMAIN ok |-> Listed(ok[n], jobs[j].rows[ok[n]])]
    BY DEF JobRuns
<1> DEFINE rows == jobs[j].rows
           lines == DOMAIN rows \ failed
           ok == SetToSeq(lines)
           new == [n \in DOMAIN ok |-> Listed(ok[n], rows[ok[n]])]
           before == Len(inventory)
<1>2. /\ jobs[j].state = "pending"
      /\ UNCHANGED <<csv, pc, plan, creates, index, limit, outcome, skipped>>
    BY DEF JobRuns, locals
<1>3. jobs[j] \in Job /\ jobs \in Seq(Job)
    BY DEF ImportInv, ImportTypes
<1>4. lines \subseteq Cards /\ IsFiniteSet(lines)
  <2>1. lines \subseteq Cards
      BY <1>3 DEF Job
  <2> QED BY <2>1, FS_Subset DEF ImportInv, ImportTypes, Cards
<1>5. ok \in Seq(lines) /\ ToSet(ok) = lines
    BY <1>4, ListsAll
<1>6. /\ DOMAIN jobs' = DOMAIN jobs /\ Len(jobs') = Len(jobs)
      /\ jobs'[j].rows = rows /\ jobs'[j].state = "completed" /\ jobs'[j].failed = failed
      /\ \A i \in DOMAIN jobs : i # j => jobs'[i] = jobs[i]
  <2> DEFINE job == [jobs[j] EXCEPT !.state = "completed", !.failed = failed]
  <2>1. failed \in SUBSET Cards
      BY <1>3 DEF Job
  <2>2. job \in Job
      BY <1>3, <2>1 DEF Job
  <2>3. /\ job.rows = rows /\ job.after = jobs[j].after
        /\ job.state = "completed" /\ job.failed = failed
      BY <1>3 DEF Job
  <2>4. jobs' = [jobs EXCEPT ![j] = job]
      BY <1>1
  <2> HIDE DEF job
  <2>5. /\ DOMAIN jobs' = DOMAIN jobs /\ jobs' \in Seq(Job) /\ jobs'[j] = job
        /\ \A i \in DOMAIN jobs : i # j => jobs'[i] = jobs[i]
      BY <1>2, <2>2, <2>3, <2>4, JobsKept
  <2>6. Len(jobs') = Len(jobs)
      BY <1>3, <2>5
  <2> QED BY <2>3, <2>5, <2>6
<1>7. /\ before \in Nat /\ DOMAIN inventory = 1 .. before
      /\ DOMAIN inventory' = 1 .. before + Len(ok) /\ Len(ok) \in Nat /\ DOMAIN ok = 1 .. Len(ok)
      /\ \A n \in 1 .. before : inventory'[n] = inventory[n]
      /\ \A n \in 1 .. Len(ok) : inventory'[before + n] = Listed(ok[n], rows[ok[n]])
  <2> HIDE DEF ok
  <2>1. inventory \in Seq(ToSet(inventory))
      BY DEF ImportInv, ImportTypes
  <2>2. DOMAIN ok = 1 .. Len(ok) /\ Len(ok) \in Nat
      BY <1>5
  <2> DEFINE listings == {Listed(ok[n], rows[ok[n]]) : n \in DOMAIN ok}
  <2>3. new \in Seq(listings) /\ Len(new) = Len(ok)
      BY <2>2
  <2>4. inventory' = inventory \o new
      BY <1>1 DEF ok
  <2>5. \A n \in 1 .. Len(ok) : new[n] = Listed(ok[n], rows[ok[n]])
      BY <2>2
  <2> HIDE DEF new, before, listings
  <2>6. PICK tail \in Seq(listings) : tail = new
      BY <2>3
  <2>7. /\ Len(inventory) \in Nat /\ DOMAIN inventory = 1 .. Len(inventory)
        /\ DOMAIN inventory' = 1 .. Len(inventory) + Len(tail)
        /\ \A n \in 1 .. Len(inventory) : inventory'[n] = inventory[n]
        /\ \A n \in 1 .. Len(tail) : inventory'[Len(inventory) + n] = tail[n]
    <3>1. inventory' = inventory \o tail
        BY <2>4, <2>6
    <3> QED BY <2>1, <3>1, AppendedAt
  <2> QED BY <2>2, <2>3, <2>5, <2>6, <2>7 DEF before
<1> HIDE DEF rows, lines, ok, new, before
<1>8. \A n \in DOMAIN inventory' : inventory'[n].quantity \in Nat
  <2> SUFFICES ASSUME NEW n \in DOMAIN inventory' PROVE inventory'[n].quantity \in Nat
      OBVIOUS
  <2>1. CASE n \in 1 .. before
      BY <1>7, <2>1 DEF DoneInv
  <2>2. CASE n \notin 1 .. before
    <3>1. n - before \in 1 .. Len(ok) /\ before + (n - before) = n
        BY <1>7, <2>2
    <3>2. ok[n - before] \in Cards
        BY <1>4, <1>5, <1>7, <3>1
    <3>3. inventory'[n] = Listed(ok[n - before], rows[ok[n - before]])
        BY <1>7, <3>1
    <3> QED BY <3>2, <3>3 DEF Listed, DoneInv, Cards
  <2> QED BY <2>1, <2>2
<1>9. PlanFacts'
    BY <1>2, SameCsv DEF DoneInv, PlanFacts, WithAction
<1>10. \A i \in DOMAIN jobs' : jobs'[i].state = "pending" => jobs'[i].failed = {}
    BY <1>6 DEF DoneInv
<1>11. Last(jobs') = jobs'[Len(jobs)] /\ Last(jobs) = jobs[Len(jobs)]
    BY <1>6 DEF Last
<1>12. jobs # <<>> => Len(jobs) \in DOMAIN jobs
    BY <1>3
<1>13. (Restrict(plan, Batch))' = Restrict(plan, Batch)
    BY <1>2 DEF Restrict, Batch, Rank
<1>14. (pc = "poll" => jobs # <<>> /\ Last(jobs).rows = Restrict(plan, Batch))'
  <2>1. jobs # <<>> => jobs' # <<>>
      BY <1>6, <1>12
  <2>2. jobs # <<>> => jobs'[Len(jobs)].rows = jobs[Len(jobs)].rows
      BY <1>6, <1>12 DEF rows
  <2> QED BY <1>2, <1>6, <1>11, <1>13, <2>1, <2>2 DEF DoneInv, Last
<1>15. ASSUME \A i \in DOMAIN jobs' : jobs'[i].failed = {} PROVE Landed'
  <2>1. \A i \in DOMAIN jobs : jobs[i].failed = {}
      BY <1>2, <1>6, <1>15 DEF DoneInv
  <2>2. PICK at \in Injection(Owed, DOMAIN inventory) :
            \A line \in Owed : inventory[at[line]] = Listed(line, plan[line])
      BY <2>1 DEF DoneInv, Landed
  <2>3. \A line : Listed(line, plan[line])' = Listed(line, plan[line])
      BY <1>2 DEF Listed, normalize_language, OrEnglish
  <2>4. failed = {} /\ lines = DOMAIN rows
      BY <1>6, <1>15 DEF lines
  <2>5. \A line \in lines : \E n \in 1 .. Len(ok) : ok[n] = line
      BY <1>5, <1>7 DEF ToSet
  <2> DEFINE to == [line \in Owed' |-> IF line \in Owed THEN at[line]
                                      ELSE before + (CHOOSE n \in 1 .. Len(ok) : ok[n] = line)]
  <2>6. ASSUME NEW line \in Owed', line \notin Owed
        PROVE  line \in lines /\ rows[line] = plan[line]
    <3>1. pc = "poll" /\ Len(jobs) = j
      <4>1. pc = "poll"
          BY <1>2, <2>6 DEF Owed, Submitted, Rank
      <4>2. Submitted' = Submitted /\ Batch' = Batch
          BY <1>2 DEF Submitted, Batch, Rank
      <4>3. Last(jobs)' # Last(jobs)
          BY <1>2, <2>6, <4>1, <4>2 DEF Owed
      <4>4. jobs # <<>>
          BY <4>1 DEF DoneInv
      <4> QED BY <1>6, <1>11, <1>12, <4>1, <4>3, <4>4 DEF Last
    <3>2. rows = Restrict(plan, Batch)
        BY <1>11, <3>1 DEF DoneInv, rows
    <3>3. Owed' \subseteq Submitted \cup Batch /\ Submitted \subseteq Owed
        BY <1>2, <3>1 DEF Owed, Submitted, Batch, Rank
    <3>4. line \in Batch
        BY <2>6, <3>3
    <3> QED BY <2>4, <3>2, <3>4 DEF Restrict
  <2>7. ASSUME NEW line \in Owed'
        PROVE  /\ to[line] \in DOMAIN inventory'
               /\ inventory'[to[line]] = Listed(line, plan[line])
               /\ line \in Owed => to[line] = at[line] /\ to[line] <= before
               /\ line \notin Owed => to[line] > before /\ ok[to[line] - before] = line
    <3>1. CASE line \in Owed
      <4>1. at[line] \in 1 .. before /\ to[line] = at[line]
          BY <1>7, <2>2, <3>1 DEF Injection
      <4> HIDE DEF to
      <4> QED BY <1>7, <2>2, <3>1, <4>1
    <3>2. CASE line \notin Owed
      <4> DEFINE n == CHOOSE n \in 1 .. Len(ok) : ok[n] = line
      <4>1. line \in lines /\ rows[line] = plan[line]
          BY <2>6, <3>2
      <4>2. n \in 1 .. Len(ok) /\ ok[n] = line
          BY <2>5, <4>1
      <4>3. to[line] = before + n
          BY <3>2
      <4> HIDE DEF to, n
      <4>4. before + n \in 1 .. before + Len(ok) /\ before + n > before /\ (before + n) - before = n
          BY <1>7, <4>2
      <4> QED BY <1>7, <3>2, <4>1, <4>2, <4>3, <4>4
    <3> QED BY <3>1, <3>2
  <2>8. to = [line \in Owed' |-> to[line]]
      OBVIOUS
  <2> HIDE DEF to
  <2>9. ASSUME NEW x \in Owed', NEW y \in Owed', to[x] = to[y] PROVE x = y
    <3>1. CASE x \in Owed /\ y \in Owed
        BY <2>2, <2>7, <2>9, <3>1 DEF Injection, IsInjective
    <3>2. CASE x \notin Owed /\ y \notin Owed
        BY <2>7, <2>9, <3>2
    <3>3. CASE ~(x \in Owed <=> y \in Owed)
      <4>1. to[x] \in Nat /\ before \in Nat
          BY <1>7, <2>7
      <4> QED BY <2>7, <2>9, <3>3, <4>1
    <3> QED BY <3>1, <3>2, <3>3
  <2>10. to \in Injection(Owed', DOMAIN inventory')
      BY <2>7, <2>8, <2>9 DEF Injection, IsInjective
  <2> QED BY <2>3, <2>7, <2>10 DEF Landed
<1> QED BY <1>2, <1>8, <1>9, <1>10, <1>14, <1>15 DEF DoneInv

\* An unprocessable job leaves owed what was.
LEMMA DoneJobUnprocessable ==
    ASSUME ImportInv, DoneInv, NEW j \in DOMAIN jobs, JobUnprocessable(j) PROVE DoneInv'
<1>1. /\ jobs[j].state = "pending" /\ jobs' = [jobs EXCEPT ![j].state = "unprocessable"]
      /\ UNCHANGED <<inventory, csv, pc, plan, creates, index, limit, outcome, skipped>>
    BY DEF JobUnprocessable, locals
<1>2. jobs[j] \in Job /\ jobs \in Seq(Job)
    BY DEF ImportInv, ImportTypes
<1>3. /\ DOMAIN jobs' = DOMAIN jobs /\ Len(jobs') = Len(jobs)
      /\ jobs'[j].rows = jobs[j].rows /\ jobs'[j].state = "unprocessable"
      /\ jobs'[j].failed = jobs[j].failed
      /\ \A i \in DOMAIN jobs : i # j => jobs'[i] = jobs[i]
    BY <1>1, <1>2 DEF Job
<1>4. PlanFacts'
    BY <1>1, SameCsv DEF DoneInv, PlanFacts, WithAction
<1>5. \A i \in DOMAIN jobs' : jobs'[i].state = "pending" => jobs'[i].failed = {}
    BY <1>3 DEF DoneInv
<1>6. Last(jobs') = jobs'[Len(jobs)] /\ Last(jobs) = jobs[Len(jobs)]
    BY <1>3 DEF Last
<1>7. jobs # <<>> => Len(jobs) \in DOMAIN jobs
    BY <1>2
<1>8. (Restrict(plan, Batch))' = Restrict(plan, Batch)
    BY <1>1 DEF Restrict, Batch, Rank
<1>9. jobs # <<>> =>
          /\ jobs' # <<>>
          /\ jobs'[Len(jobs)].rows = jobs[Len(jobs)].rows
          /\ jobs'[Len(jobs)].state = "completed" => jobs[Len(jobs)].state = "completed"
    BY <1>3, <1>7
<1>10. (pc = "poll" => jobs # <<>> /\ Last(jobs).rows = Restrict(plan, Batch))'
    BY <1>1, <1>3, <1>6, <1>8, <1>9 DEF DoneInv, Last
<1>11. Owed' \subseteq Owed
  <2>1. Submitted' = Submitted /\ Batch' = Batch
      BY <1>1 DEF Submitted, Batch, Rank
  <2>2. CASE pc = "poll"
    <3>1. (Last(jobs).state = "completed")' => Last(jobs).state = "completed"
        BY <1>3, <1>6, <1>9, <2>2 DEF DoneInv, Last
    <3> QED BY <1>1, <2>1, <2>2, <3>1 DEF Owed
  <2>3. CASE pc # "poll"
      BY <1>1, <2>1, <2>3 DEF Owed
  <2> QED BY <2>2, <2>3
<1>12. (\A i \in DOMAIN jobs : jobs[i].failed = {})' => Landed'
  <2> SUFFICES ASSUME \A i \in DOMAIN jobs' : jobs'[i].failed = {} PROVE Landed'
      OBVIOUS
  <2>1. Landed
      BY <1>3 DEF DoneInv
  <2> QED BY <1>1, <1>11, <2>1, LandedKept
<1> QED BY <1>1, <1>4, <1>5, <1>10, <1>12 DEF DoneInv

LEMMA DoneStep == ImportInv /\ DoneInv /\ [Next]_vars => DoneInv'
<1> SUFFICES ASSUME ImportInv, DoneInv, [Next]_vars PROVE DoneInv'
    OBVIOUS
<1>1. CASE Plan
    BY <1>1, DonePlan
<1>2. CASE PostBatch
    BY <1>2, DonePostBatch
<1>3. CASE Stop("nothing") \/ Stop("refused") \/ Apply \/ Finish \/ Fail
    BY <1>3, DoneScript
<1>4. CASE JobEnded
    BY <1>4, DoneJobEnded
<1>5. CASE \E j \in DOMAIN jobs : JobRuns(j) \/ JobUnprocessable(j)
    BY <1>5, DoneJobRuns, DoneJobUnprocessable
<1>6. CASE UNCHANGED vars
  <2>1. UNCHANGED <<inventory, jobs, csv, pc, plan, creates, index, limit, outcome, skipped>>
      BY <1>6 DEF vars, ct, locals
  <2>2. Owed' = Owed
      BY <2>1 DEF Owed, Submitted, Batch, Rank, Last
  <2>3. Landed => Landed'
      BY <2>1, <2>2, LandedKept
  <2> QED BY <2>1, <2>3, SameCsv DEF DoneInv, PlanFacts, WithAction, Restrict, Batch, Rank, Last
<1> QED BY <1>1, <1>2, <1>3, <1>4, <1>5, <1>6 DEF Next, Script, Quiescent

LEMMA DoneHolds == Spec => []DoneInv
BY InitDone, DoneStep, ImportHolds, PTL DEF Spec

-------------------------------------------------------------------------------
(***************************************************************************)
(* Comparing what is listed with the CSV                                   *)
(***************************************************************************)

Quantities(s) == [i \in DOMAIN s |-> s[i].quantity]

\* Where a CSV or the inventory has the copies of a key.
RowsOf(rows, k) == {i \in DOMAIN rows : rows[i].scryfall # None /\ CsvKey(rows[i], FALSE) = k}
ListingsOf(listings, found, k) ==
    {i \in DOMAIN listings : /\ ScryfallOf(Catalog[listings[i].blueprint], found) # None
                             /\ ListingKey(listings[i], Catalog, found, FALSE) = k}

\* The keys of an aggregate are those of its entries, and it counts their copies.
LEMMA CsvCounts ==
    ASSUME NEW rows
    PROVE  LET qty == CsvAggregate(rows, FALSE).qty
           IN  /\ \A k : k \in DOMAIN qty <=> RowsOf(rows, k) # {}
               /\ \A k \in DOMAIN qty :
                     qty[k] = SumFunctionOnSet(Quantities(rows), RowsOf(rows, k))
BY DEF CsvAggregate, Copies, Quantities, RowsOf

LEMMA CtCounts ==
    ASSUME NEW listings, NEW found
    PROVE  LET qty == CtAggregate(listings, Catalog, found, FALSE).qty
           IN  /\ \A k : k \in DOMAIN qty <=> ListingsOf(listings, found, k) # {}
               /\ \A k \in DOMAIN qty :
                     qty[k] = SumFunctionOnSet(Quantities(listings), ListingsOf(listings, found, k))
BY DEF CtAggregate, Copies, Quantities, ListingsOf

\* The grade a row is listed with counts as the row's.
LEMMA SameGrade ==
    ASSUME NEW c, manabox_condition_to_ct(c) # None
    PROVE  normalize_condition(manabox_condition_to_ct(c)) = normalize_condition(c)
BY DEF manabox_condition_to_ct, normalize_condition

\* A canonical grade survives the way to ManaBox and back; none becomes near mint.
LEMMA GradeRoundTrip ==
    ASSUME NEW c, NEW n, n = normalize_condition(c)
    PROVE  normalize_condition(ct_condition_to_manabox(n)) = IF n = "" THEN "near mint" ELSE n
BY DEF ct_condition_to_manabox, normalize_condition

LEMMA LanguageTwice ==
    ASSUME NEW l
    PROVE  normalize_language(normalize_language(l)) = normalize_language(l)
BY DEF normalize_language

LEMMA DoneCompares ==
    ASSUME SameCard, ImportInv, DoneInv
    PROVE  DoneMeansListed
<1> SUFFICES ASSUME outcome = "done", limit = 0, skipped = {},
                    \A j \in DOMAIN jobs : jobs[j].failed = {}
             PROVE  LET file == CsvAggregate(csv, FALSE)
                        here == CtAggregate(inventory, Catalog, Full, FALSE)
                        diff == compare_aggregates(file, here)
                    IN  \A k \in DOMAIN file.qty : file.qty[k] > 0 =>
                           k \notin diff.only_in_csv /\ file.qty[k] <= here.qty[k]
    BY DEF DoneMeansListed
<1> DEFINE file == CsvAggregate(csv, FALSE)
           here == CtAggregate(inventory, Catalog, Full, FALSE)
<1>1. pc = "idle" /\ Owed = creates
    BY DEF DoneInv, Owed
<1>2. creates = Cards
  <2>1. /\ DOMAIN plan = Cards
        /\ \A line \in DOMAIN plan : plan[line].action \in {"create", "skip_existing", "skip_error"}
        /\ creates = WithAction(plan, "create")
        /\ WithAction(plan, "skip_existing") = {} /\ WithAction(plan, "skip_error") = {}
      BY <1>1 DEF DoneInv, PlanFacts
  <2> QED BY <2>1 DEF WithAction
<1>3. PICK at \in Injection(Cards, DOMAIN inventory) :
          \A line \in Cards : inventory[at[line]] = Listed(line, plan[line])
    BY <1>1, <1>2 DEF DoneInv, Landed
<1>4. ASSUME NEW line \in Cards
      PROVE  LET l == inventory[at[line]]
             IN  /\ at[line] \in DOMAIN inventory /\ l.quantity = csv[line].quantity
                 /\ csv[line].scryfall # None =>
                        /\ ScryfallOf(Catalog[l.blueprint], Full) # None
                        /\ ListingKey(l, Catalog, Full, FALSE) = CsvKey(csv[line], FALSE)
  <2> DEFINE l == inventory[at[line]]
             as == plan[line]
             row == csv[line]
  <2>1. at[line] \in DOMAIN inventory
      BY <1>3 DEF Injection
  <2>2. l = [blueprint |-> as.blueprint, foil |-> row.foil,
             language |-> normalize_language(OrEnglish(row.language)),
             condition |-> as.condition, quantity |-> row.quantity]
      BY <1>3 DEF Listed
  <2>3. LeadsTo(line, as)
      BY <1>2 DEF ImportInv
  <2> HIDE DEF as, l, row
  <2>4. PICK found \in Lookups : Blueprints(Catalog, found, row.scryfall) = {as.blueprint}
      BY <2>3 DEF LeadsTo, row
  <2>5. as.blueprint \in DOMAIN Catalog /\ ScryfallOf(Catalog[as.blueprint], found) = row.scryfall
    <3>1. as.blueprint \in Blueprints(Catalog, found, row.scryfall)
        BY <2>4
    <3> QED BY <3>1 DEF Blueprints
  <2>6. /\ row.scryfall # None /\ as.condition # None
        /\ as.condition = manabox_condition_to_ct(row.condition)
      BY <2>3 DEF LeadsTo, row
  <2>7. ScryfallOf(Catalog[as.blueprint], Full) = row.scryfall
      BY <2>5, <2>6 DEF SameCard
  <2>8. ListingKey(l, Catalog, Full, FALSE) = CsvKey(row, FALSE)
      BY <2>2, <2>6, <2>7, SameGrade, LanguageTwice DEF ListingKey, CsvKey, MatchKey
  <2>9. l.quantity = row.quantity /\ l.blueprint = as.blueprint
      BY <2>2
  <2> QED BY <2>1, <2>6, <2>7, <2>8, <2>9 DEF l, row
<1>5. ASSUME NEW k \in DOMAIN file.qty, file.qty[k] > 0
      PROVE  k \in DOMAIN here.qty /\ file.qty[k] <= here.qty[k]
  <2> DEFINE S == RowsOf(csv, k)
             T == ListingsOf(inventory, Full, k)
             v == Quantities(csv)
             w == Quantities(inventory)
  <2>1. S # {} /\ file.qty[k] = SumFunctionOnSet(v, S)
      BY CsvCounts
  <2>2. \A line \in S : line \in Cards => at[line] \in T
      BY <1>4 DEF RowsOf, ListingsOf
  <2>3. /\ T # {} => k \in DOMAIN here.qty
        /\ k \in DOMAIN here.qty => here.qty[k] = SumFunctionOnSet(w, T)
      BY CtCounts
  <2>4. IsFiniteSet(S) /\ S \subseteq DOMAIN csv
      BY FS_Subset DEF RowsOf, ImportInv, ImportTypes
  <2>5. IsFiniteSet(T) /\ T \subseteq DOMAIN inventory
    <3>1. inventory \in Seq(ToSet(inventory))
        BY DEF ImportInv, ImportTypes
    <3>2. DOMAIN inventory = 1 .. Len(inventory) /\ Len(inventory) \in Nat
        BY <3>1
    <3>3. IsFiniteSet(DOMAIN inventory)
        BY <3>2, FS_Interval
    <3> QED BY <3>3, FS_Subset DEF ListingsOf
  <2>6. \A line \in S : /\ v[line] = csv[line].quantity /\ v[line] \in Int
                        /\ v[line] > 0 => line \in Cards
      BY <2>4 DEF Quantities, DoneInv, Cards
  <2>7. \A n \in T : w[n] = inventory[n].quantity /\ w[n] \in Nat
      BY <2>5 DEF Quantities, DoneInv
  <2>8. \A line \in S : v[line] > 0 => at[line] \in T /\ v[line] <= w[at[line]]
    <3> SUFFICES ASSUME NEW line \in S, v[line] > 0
                 PROVE  at[line] \in T /\ v[line] <= w[at[line]]
        OBVIOUS
    <3>1. line \in Cards
        BY <2>6
    <3>2. at[line] \in T
        BY <2>2, <3>1
    <3>3. inventory[at[line]].quantity = csv[line].quantity
        BY <1>4, <3>1
    <3>4. v[line] = w[at[line]] /\ v[line] \in Int
        BY <2>6, <2>7, <3>2, <3>3
    <3> HIDE DEF v, w, T
    <3> QED BY <3>2, <3>4
  <2>9. \A x, y \in S : v[x] > 0 /\ v[y] > 0 /\ at[x] = at[y] => x = y
    <3> SUFFICES ASSUME NEW x \in S, NEW y \in S, v[x] > 0, v[y] > 0, at[x] = at[y] PROVE x = y
        OBVIOUS
    <3>1. x \in Cards /\ y \in Cards
        BY <2>6
    <3> QED BY <1>3, <3>1 DEF Injection, IsInjective
  <2> HIDE DEF S, T, v, w
  <2>10. SumFunctionOnSet(v, S) <= SumFunctionOnSet(w, T)
      BY <2>4, <2>5, <2>6, <2>7, <2>8, <2>9, SumAtMost
  <2>11. T # {}
    <3> SUFFICES ASSUME T = {} PROVE FALSE
        OBVIOUS
    <3>1. SumFunctionOnSet(w, T) = 0
        BY <2>5, <2>7, SumTakeOut
    <3>2. SumFunctionOnSet(v, S) \in Int
        BY <2>4, <2>6, SumTakeOut
    <3>3. SumFunctionOnSet(v, S) > 0
        BY <1>5, <2>1
    <3> QED BY <2>10, <3>1, <3>2, <3>3
  <2> QED BY <2>1, <2>3, <2>10, <2>11
<1> HIDE DEF file, here
<1>6. \A k \in DOMAIN file.qty : k \in DOMAIN here.qty => k \notin compare_aggregates(file, here).only_in_csv
    BY DEF compare_aggregates
<1> QED BY <1>5, <1>6 DEF file, here

\* An import without a limit that ends well, having found no row's product to
\* exist, has listed every copy of the CSV as compare_manabox counts them over
\* the whole file, rows without copies included, whatever was lost, failed or
\* left queued by runs before it: for all CSVs, inventories, catalogs and batch
\* sizes, as long as no row fails in a job and a blueprint's ids name one card.
THEOREM ImportListsAll ==
    ASSUME SameCard
    PROVE  Spec => []DoneMeansListed
BY DoneCompares, ImportHolds, DoneHolds, PTL

-------------------------------------------------------------------------------
(***************************************************************************)
(* Exporting                                                               *)
(***************************************************************************)

\* A sum of one value is that value.
LEMMA SumOfOne ==
    ASSUME NEW v, NEW x, v[x] \in Int
    PROVE  SumFunctionOnSet(v, {x}) = v[x]
<1>1. IsFiniteSet({x})
    BY FS_Singleton
<1>2. /\ SumFunctionOnSet(v, {}) = 0
      /\ SumFunctionOnSet(v, {x}) = v[x] + SumFunctionOnSet(v, {x} \ {x})
    BY <1>1, SumTakeOut
<1>3. {x} \ {x} = {}
    OBVIOUS
<1>4. SumFunctionOnSet(v, {x}) = v[x] + 0
    BY <1>2, <1>3
<1> QED BY <1>4

\* SetToSeq lists nothing twice.
LEMMA ListsOnce ==
    ASSUME NEW S, IsFiniteSet(S)
    PROVE  \A i, j \in DOMAIN SetToSeq(S) : SetToSeq(S)[i] = SetToSeq(S)[j] => i = j
<1> DEFINE n == Cardinality(S)
           IsList(f) == f \in [1 .. n -> S] /\ IsInjective(f)
<1>1. n \in Nat /\ ExistsBijection(1 .. n, S)
    BY FS_CardinalityType
<1>2. \E f : IsList(f)
    BY <1>1 DEF ExistsBijection, Bijection, Injection
<1>3. IsList(SetToSeq(S))
    BY <1>2 DEF SetToSeq
<1> QED BY <1>3 DEF IsInjective

\* The row of a key is read back as that key, an absent part filled in.
ExportRow(k, copies) ==
    [scryfall |-> k[1], foil |-> k[2], language |-> OrEnglish(k[3]),
     condition |-> ct_condition_to_manabox(k[4]), quantity |-> copies]

LEMMA KeyReadBack ==
    ASSUME NEW k, k = <<k[1], k[2], k[3], k[4]>>, normalize_language(k[3]) = k[3],
           normalize_condition(ct_condition_to_manabox(k[4]))
               = IF k[4] = "" THEN "near mint" ELSE k[4],
           NEW copies
    PROVE  CsvKey(ExportRow(k, copies), FALSE) = ReadAs(k)
<1>1. normalize_language(OrEnglish(OrEnglish(k[3]))) = IF k[3] = "" THEN "en" ELSE k[3]
    BY DEF OrEnglish, normalize_language
<1> QED BY <1>1 DEF ExportRow, CsvKey, MatchKey, ReadAs

LEMMA ReadBack ==
    ASSUME NEW l, NEW found, NEW k, k = ListingKey(l, Catalog, found, FALSE), NEW copies
    PROVE  CsvKey(ExportRow(k, copies), FALSE) = ReadAs(k)
<1>1. /\ k = <<k[1], k[2], k[3], k[4]>>
      /\ k[3] = normalize_language(l.language) /\ k[4] = normalize_condition(l.condition)
    BY DEF ListingKey, MatchKey
<1>2. normalize_language(k[3]) = k[3]
    BY <1>1, LanguageTwice
<1>3. normalize_condition(ct_condition_to_manabox(k[4]))
          = IF k[4] = "" THEN "near mint" ELSE k[4]
    BY <1>1, GradeRoundTrip
<1> QED BY <1>1, <1>2, <1>3, KeyReadBack

\* What is in stock of a key is all that the inventory has of it.
Stocked(stock) == Restrict(stock, {n \in DOMAIN stock : stock[n].quantity > 0})

StockIsAll(stock, found) ==
    LET stocked == CtAggregate(Stocked(stock), Catalog, found, FALSE).qty
        all == CtAggregate(stock, Catalog, found, FALSE).qty
    IN  /\ IsFiniteSet(DOMAIN stocked) /\ DOMAIN stocked \subseteq DOMAIN all
        /\ \A k \in DOMAIN stocked : stocked[k] \in Nat \ {0} /\ all[k] = stocked[k]
        /\ \A k \in DOMAIN all \ DOMAIN stocked : all[k] = 0

LEMMA StockCounts ==
    ASSUME NEW stock, IsFiniteSet(DOMAIN stock),
           \A n \in DOMAIN stock : stock[n].quantity \in Nat, NEW found
    PROVE  StockIsAll(stock, found)
<1> DEFINE kept == {n \in DOMAIN stock : stock[n].quantity > 0}
           part == Stocked(stock)
           stocked == CtAggregate(part, Catalog, found, FALSE).qty
           all == CtAggregate(stock, Catalog, found, FALSE).qty
           v == Quantities(part)
           w == Quantities(stock)
           Part(k) == ListingsOf(part, found, k)
           All(k) == ListingsOf(stock, found, k)
<1>1. DOMAIN part = kept /\ \A n \in kept : part[n] = stock[n]
    BY DEF Stocked, Restrict
<1> HIDE DEF part
<1>2. \A k : Part(k) = All(k) \cap kept
  <2>1. \A k, n : n \in Part(k) <=> n \in All(k) /\ n \in kept
      BY <1>1 DEF ListingsOf
  <2> QED BY <2>1
<1>3. /\ \A k : k \in DOMAIN stocked <=> Part(k) # {}
      /\ \A k \in DOMAIN stocked : stocked[k] = SumFunctionOnSet(v, Part(k))
    BY CtCounts
<1>4. /\ \A k : k \in DOMAIN all <=> All(k) # {}
      /\ \A k \in DOMAIN all : all[k] = SumFunctionOnSet(w, All(k))
    BY CtCounts
<1>5. IsFiniteSet(DOMAIN stocked)
  <2> DEFINE keys == {ListingKey(stock[n], Catalog, found, FALSE) : n \in DOMAIN stock}
             key == [n \in DOMAIN stock |-> ListingKey(stock[n], Catalog, found, FALSE)]
  <2>1. IsFiniteSet(keys)
    <3>1. key \in Surjection(DOMAIN stock, keys)
        BY DEF Surjection
    <3> QED BY <3>1, FS_Surjection
  <2>2. DOMAIN stocked \subseteq keys
      BY <1>2, <1>3 DEF ListingsOf
  <2> QED BY <2>1, <2>2, FS_Subset
<1>6. ASSUME NEW k
      PROVE  /\ IsFiniteSet(All(k)) /\ All(k) \subseteq DOMAIN stock
             /\ IsFiniteSet(Part(k))
  <2>1. All(k) \subseteq DOMAIN stock
      BY DEF ListingsOf
  <2> QED BY <1>2, <2>1, FS_Subset
<1>7. /\ \A n \in DOMAIN stock : w[n] \in Nat /\ w[n] = stock[n].quantity
      /\ \A n \in kept : v[n] \in Nat \ {0} /\ v[n] = w[n]
      /\ \A n \in DOMAIN stock : w[n] > 0 => n \in kept
    BY <1>1 DEF Quantities
<1> HIDE DEF stocked, all, v, w, Part, All
<1> DEFINE same == [n \in DOMAIN stock |-> n]
<1>8. \A n \in DOMAIN stock : same[n] = n
    OBVIOUS
<1> HIDE DEF same
<1>9. ASSUME NEW k
      PROVE  /\ SumFunctionOnSet(v, Part(k)) \in Nat /\ SumFunctionOnSet(w, All(k)) \in Nat
             /\ SumFunctionOnSet(v, Part(k)) = SumFunctionOnSet(w, All(k))
  <2>1. Part(k) \subseteq All(k) /\ Part(k) \subseteq kept /\ All(k) \subseteq DOMAIN stock
      BY <1>2, <1>6
  <2>2. /\ \A n \in Part(k) : v[n] \in Nat /\ same[n] \in All(k) /\ v[n] <= w[same[n]]
        /\ \A n \in All(k) : w[n] \in Nat /\ same[n] = n
        /\ \A n \in All(k) : w[n] > 0 => same[n] \in Part(k) /\ w[n] <= v[same[n]]
      BY <1>2, <1>7, <1>8, <2>1
  <2>3. SumFunctionOnSet(v, Part(k)) \in Nat /\ SumFunctionOnSet(w, All(k)) \in Nat
      BY <1>6, <2>2, SumIsNat
  <2>4. SumFunctionOnSet(v, Part(k)) <= SumFunctionOnSet(w, All(k))
      BY <1>6, <2>1, <2>2, SumAtMost
  <2>5. SumFunctionOnSet(w, All(k)) <= SumFunctionOnSet(v, Part(k))
      BY <1>6, <2>1, <2>2, SumAtMost
  <2> QED BY <2>3, <2>4, <2>5
<1>10. DOMAIN stocked \subseteq DOMAIN all
    BY <1>2, <1>3, <1>4
<1>11. ASSUME NEW k \in DOMAIN all \ DOMAIN stocked PROVE all[k] = 0
  <2>1. Part(k) = {}
      BY <1>3
  <2>2. SumFunctionOnSet(v, {}) = 0
    <3>1. IsFiniteSet(Part(k)) /\ \A n \in Part(k) : v[n] \in Int
        BY <1>6, <2>1
    <3> QED BY <3>1, SumTakeOut
  <2> QED BY <1>4, <1>9, <2>1, <2>2
<1>12. \A k \in DOMAIN stocked : stocked[k] \in Nat \ {0} /\ all[k] = stocked[k]
  <2> SUFFICES ASSUME NEW k \in DOMAIN stocked
               PROVE  stocked[k] \in Nat \ {0} /\ all[k] = stocked[k]
      OBVIOUS
  <2>1. PICK n \in Part(k) : v[n] \in Nat \ {0}
      BY <1>2, <1>3, <1>7
  <2>2. IsFiniteSet(Part(k)) /\ \A m \in Part(k) : v[m] \in Nat /\ v[m] \in Int
      BY <1>2, <1>6, <1>7
  <2>3. SumFunctionOnSet(v, Part(k)) = v[n] + SumFunctionOnSet(v, Part(k) \ {n})
      BY <2>2, SumTakeOut
  <2>4. SumFunctionOnSet(v, Part(k) \ {n}) \in Nat
    <3>1. IsFiniteSet(Part(k) \ {n}) /\ \A m \in Part(k) \ {n} : v[m] \in Nat
        BY <2>2, FS_Subset
    <3> QED BY <3>1, SumIsNat
  <2>5. SumFunctionOnSet(v, Part(k)) \in Nat \ {0}
      BY <2>1, <2>3, <2>4
  <2> QED BY <1>3, <1>4, <1>9, <1>10, <2>5
<1> QED BY <1>5, <1>10, <1>11, <1>12 DEF StockIsAll, stocked, all, part

\* What the comparison of an inventory with its own export is to show.
ComparesEqual(stock, found) ==
    LET file == CsvAggregate(ExportRows(stock, Catalog, found), FALSE)
        here == CtAggregate(stock, Catalog, found, FALSE)
        diff == compare_aggregates(file, here)
        stocked == {k \in DOMAIN here.qty : here.qty[k] > 0}
        differ == diff.mismatch \cup diff.only_in_csv \cup (diff.only_on_ct \cap stocked)
    IN  /\ DOMAIN file.qty = {ReadAs(k) : k \in stocked}
        /\ \A k \in DOMAIN file.qty :
              file.qty[k] = SumFunctionOnSet(here.qty, {e \in stocked : ReadAs(e) = k})
        /\ \A k \in differ : \E e \in stocked : ReadAs(e) # e /\ k \in {e, ReadAs(e)}

\* Every key in stock is exported once, with its copies, and read back.
LEMMA ExportCompares ==
    ASSUME NEW stock, IsFiniteSet(DOMAIN stock),
           \A n \in DOMAIN stock : stock[n].quantity \in Nat,
           NEW found
    PROVE  ComparesEqual(stock, found)
<1> DEFINE part == Stocked(stock)
           qty == CtAggregate(part, Catalog, found, FALSE).qty
           rows == ExportRows(stock, Catalog, found)
           file == CsvAggregate(rows, FALSE)
           here == CtAggregate(stock, Catalog, found, FALSE)
           keys == DOMAIN qty
           order == SetToSeq(keys)
           Group(k) == {e \in keys : ReadAs(e) = k}
           stocked == {k \in DOMAIN here.qty : here.qty[k] > 0}
           v == Quantities(rows)
<1>1. /\ IsFiniteSet(keys) /\ keys \subseteq DOMAIN here.qty
      /\ \A k \in keys : qty[k] \in Nat \ {0} /\ here.qty[k] = qty[k]
      /\ \A k \in DOMAIN here.qty \ keys : here.qty[k] = 0
  <2>1. StockIsAll(stock, found)
      BY StockCounts
  <2> QED BY <2>1 DEF StockIsAll
<1>2. ASSUME NEW k \in keys
      PROVE  LET row == ExportRow(k, qty[k])
             IN  row.scryfall # None /\ row.quantity = qty[k] /\ CsvKey(row, FALSE) = ReadAs(k)
  <2> HIDE DEF part
  <2>1. ListingsOf(part, found, k) # {}
      BY CtCounts
  <2>2. PICK n \in DOMAIN part : /\ ScryfallOf(Catalog[part[n].blueprint], found) # None
                                 /\ k = ListingKey(part[n], Catalog, found, FALSE)
      BY <2>1 DEF ListingsOf
  <2>3. PICK copies : copies = qty[k]
      OBVIOUS
  <2> HIDE DEF qty
  <2>4. CsvKey(ExportRow(k, copies), FALSE) = ReadAs(k)
      BY <2>2, ReadBack
  <2>5. ExportRow(k, copies).quantity = copies /\ ExportRow(k, copies).scryfall = k[1]
      BY DEF ExportRow
  <2>6. k[1] = ScryfallOf(Catalog[part[n].blueprint], found)
      BY <2>2 DEF ListingKey, MatchKey
  <2> QED BY <2>2, <2>3, <2>4, <2>5, <2>6
<1>3. rows = [i \in DOMAIN order |-> ExportRow(order[i], qty[order[i]])]
    BY DEF ExportRows, ExportRow, Stocked
<1>4. stocked = keys
  <2> HIDE DEF qty, part, here
  <2> QED BY <1>1
<1> HIDE DEF qty, part, rows, here, order, stocked
<1>5. /\ order \in Seq(keys) /\ ToSet(order) = keys
      /\ \A i, j \in DOMAIN order : order[i] = order[j] => i = j
    BY <1>1, ListsAll, ListsOnce DEF order
<1>6. /\ IsFiniteSet(DOMAIN order) /\ \A i \in DOMAIN order : order[i] \in keys
      /\ \A k \in keys : \E i \in DOMAIN order : order[i] = k
  <2>1. DOMAIN order = 1 .. Len(order) /\ Len(order) \in Nat
      BY <1>5
  <2>2. IsFiniteSet(DOMAIN order)
      BY <2>1, FS_Interval
  <2> QED BY <1>5, <2>2 DEF ToSet
<1>7. /\ DOMAIN rows = DOMAIN order
      /\ \A i \in DOMAIN order : /\ rows[i].scryfall # None /\ CsvKey(rows[i], FALSE) = ReadAs(order[i])
                                 /\ rows[i].quantity = qty[order[i]]
    BY <1>2, <1>3, <1>6
<1> HIDE DEF keys
<1>8. \A k : RowsOf(rows, k) = {i \in DOMAIN order : ReadAs(order[i]) = k}
    BY <1>7 DEF RowsOf
<1>9. \A k : k \in DOMAIN file.qty <=> Group(k) # {}
  <2>1. ASSUME NEW k PROVE RowsOf(rows, k) # {} <=> Group(k) # {}
      BY <1>6, <1>8
  <2> HIDE DEF Group
  <2> QED BY <2>1, CsvCounts
<1>10. ASSUME NEW k \in DOMAIN file.qty
       PROVE  file.qty[k] = SumFunctionOnSet(here.qty, Group(k))
  <2> DEFINE S == RowsOf(rows, k)
             T == Group(k)
             w == here.qty
             place == [e \in keys |-> CHOOSE i \in DOMAIN order : order[i] = e]
  <2>1. file.qty[k] = SumFunctionOnSet(v, S)
      BY CsvCounts
  <2>2. \A e \in keys : place[e] \in DOMAIN order /\ order[place[e]] = e
      BY <1>6
  <2> HIDE DEF place
  <2>3. IsFiniteSet(S) /\ IsFiniteSet(T)
      BY <1>1, <1>6, <1>8, FS_Subset
  <2>4. \A i \in S : /\ i \in DOMAIN order /\ order[i] \in T
                     /\ v[i] = w[order[i]] /\ v[i] \in Nat /\ v[i] \in Int
    <3> SUFFICES ASSUME NEW i \in S
                 PROVE  /\ i \in DOMAIN order /\ order[i] \in T
                        /\ v[i] = w[order[i]] /\ v[i] \in Nat /\ v[i] \in Int
        OBVIOUS
    <3>1. i \in DOMAIN order /\ ReadAs(order[i]) = k /\ order[i] \in keys
        BY <1>6, <1>8
    <3>2. qty[order[i]] \in Nat /\ w[order[i]] = qty[order[i]]
        BY <1>1, <3>1
    <3>3. v[i] = rows[i].quantity
        BY <1>7, <3>1 DEF Quantities
    <3>4. rows[i].quantity = qty[order[i]]
        BY <1>7, <3>1
    <3> QED BY <3>1, <3>2, <3>3, <3>4
  <2>5. \A e \in T : e \in keys /\ w[e] \in Nat /\ w[e] \in Int
      BY <1>1
  <2>6. \A e \in T : place[e] \in S
      BY <1>8, <2>2
  <2> HIDE DEF S, T, v, w
  <2>7. SumFunctionOnSet(v, S) <= SumFunctionOnSet(w, T)
    <3>1. \A i \in S : v[i] > 0 => order[i] \in T /\ v[i] <= w[order[i]]
        BY <2>4
    <3>2. \A i, j \in S : v[i] > 0 /\ v[j] > 0 /\ order[i] = order[j] => i = j
        BY <1>5, <2>4
    <3> QED BY <2>3, <2>4, <2>5, <3>1, <3>2, SumAtMost
  <2>8. SumFunctionOnSet(w, T) <= SumFunctionOnSet(v, S)
    <3>1. \A e \in T : w[e] > 0 => place[e] \in S /\ w[e] <= v[place[e]]
        BY <2>2, <2>4, <2>5, <2>6
    <3>2. \A e, d \in T : w[e] > 0 /\ w[d] > 0 /\ place[e] = place[d] => e = d
        BY <2>2, <2>5
    <3> QED BY <2>3, <2>4, <2>5, <3>1, <3>2, SumAtMost
  <2>9. SumFunctionOnSet(v, S) \in Nat /\ SumFunctionOnSet(w, T) \in Nat
      BY <2>3, <2>4, <2>5, SumIsNat
  <2>10. SumFunctionOnSet(v, S) = SumFunctionOnSet(w, T)
      BY <2>7, <2>8, <2>9
  <2> QED BY <2>1, <2>10 DEF T, w
<1> HIDE DEF file
<1>11. DOMAIN file.qty = {ReadAs(k) : k \in stocked}
    BY <1>4, <1>9
<1>12. \A k \in DOMAIN file.qty :
           file.qty[k] = SumFunctionOnSet(here.qty, {e \in stocked : ReadAs(e) = k})
    BY <1>4, <1>10
<1> DEFINE diff == compare_aggregates(file, here)
<1>13. ASSUME NEW k \in diff.mismatch \cup diff.only_in_csv \cup (diff.only_on_ct \cap stocked)
       PROVE  \E e \in stocked : ReadAs(e) # e /\ k \in {e, ReadAs(e)}
  <2>1. \/ k \in DOMAIN file.qty /\ k \in DOMAIN here.qty /\ file.qty[k] # here.qty[k]
        \/ k \in DOMAIN file.qty /\ k \notin DOMAIN here.qty
        \/ k \in stocked /\ k \notin DOMAIN file.qty
      BY <1>13 DEF compare_aggregates
  <2>2. CASE k \notin keys
      BY <1>4, <1>9, <2>1, <2>2
  <2>3. CASE k \in keys
    <3> SUFFICES ASSUME \A e \in keys : ReadAs(e) # e => k \notin {e, ReadAs(e)} PROVE FALSE
        BY <1>4
    <3>1. Group(k) = {k}
        BY <2>3
    <3>2. k \in DOMAIN file.qty /\ k \in DOMAIN here.qty
        BY <1>1, <1>9, <2>3, <3>1
    <3>3. here.qty[k] \in Int
        BY <1>1, <2>3
    <3>4. file.qty[k] = here.qty[k]
        BY <1>10, <3>1, <3>2, <3>3, SumOfOne
    <3> QED BY <2>1, <3>2, <3>4
  <2> QED BY <2>2, <2>3
<1> HIDE DEF diff
<1> QED BY <1>11, <1>12, <1>13 DEF ComparesEqual, diff, file, here, rows, stocked

\* Whatever the import and CardTrader's jobs made of the inventory, its export
\* for ManaBox compares equal with it but where listings lack the grade or the
\* language, and no copy is lost: for every inventory and catalog, with listings
\* of one card under any spelling of its grade and language, or under none.
THEOREM ExportRoundTrip == Spec => []ExportComparesEqual
<1>1. ImportInv /\ DoneInv => ExportComparesEqual
  <2> SUFFICES ASSUME ImportInv, DoneInv, NEW found \in Lookups
               PROVE  ComparesEqual(inventory, found)
      BY DEF ExportComparesEqual, ComparesEqual
  <2>1. inventory \in Seq(ToSet(inventory))
      BY DEF ImportInv, ImportTypes
  <2>2. DOMAIN inventory = 1 .. Len(inventory) /\ Len(inventory) \in Nat
      BY <2>1
  <2>3. IsFiniteSet(DOMAIN inventory)
      BY <2>2, FS_Interval
  <2>4. \A n \in DOMAIN inventory : inventory[n].quantity \in Nat
      BY DEF DoneInv
  <2> QED BY <2>3, <2>4, ExportCompares
<1> QED BY <1>1, ImportHolds, DoneHolds, PTL
=============================================================================
