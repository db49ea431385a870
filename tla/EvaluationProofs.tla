--------------------------- MODULE EvaluationProofs ---------------------------
(***************************************************************************)
(* Theorems about Evaluation, for every store and every query.             *)
(***************************************************************************)
EXTENDS Evaluation, SetLemmas

-----------------------------------------------------------------------------
(***************************************************************************)
(* Samples in the order of time.                                           *)
(***************************************************************************)

\* WindowSamples has the samples after `from' up to `to', in the same order.
LEMMA WindowIs ==
  ASSUME NEW ss, InTime(ss), NEW from \in Int, NEW to \in Int
  PROVE  /\ InTime(WindowSamples(ss, from, to))
         /\ ToSet(WindowSamples(ss, from, to)) = {p \in ToSet(ss) : from < p.t /\ p.t <= to}
<1>1. WindowSamples(ss, from, to) = Between(ss, from, to)
  BY DEF WindowSamples, FirstAfter, Between, PlaceAfter
<1>2. QED
  BY <1>1, BetweenIs

\* InstantValue is that of the last sample at or before t, if there is a fresh one.
LEMMA InstantIs ==
  ASSUME NEW ss, InTime(ss), NEW t \in Int
  PROVE  InstantValue(ss, t) =
           {p.v : p \in {p \in NewestOf(ss, t) : p.t >= t - Staleness /\ p.v # Stale}}
<1> DEFINE idx == PlaceAfter(ss, t) - 1
<1>1. NewestOf(ss, t) = IF idx = 0 THEN {} ELSE {ss[idx]}
  BY NewestIs
<1>2. FirstAfter(ss, t) - 1 = idx
  BY DEF FirstAfter, PlaceAfter
<1> HIDE DEF idx
<1>3. InstantValue(ss, t) =
        IF idx = 0 THEN {}
        ELSE {s.v : s \in {p \in {ss[idx]} : p.t >= t - Staleness /\ p.v # Stale}}
  BY <1>2 DEF InstantValue
<1>4. QED
  BY <1>1, <1>3

-----------------------------------------------------------------------------
(***************************************************************************)
(* What is fetched, and the values computed from it.                       *)
(***************************************************************************)

\* A series has at most one value at a time.
LEMMA ValueIsOne ==
  ASSUME NEW ss, NEW e, NEW t
  PROVE  \A x, y \in ComputeValue(ss, e, t) : x = y
<1>1. \A x, y \in InstantValue(ss, t - e.offset) : x = y
  BY DEF InstantValue
<1>2. \A w : \A x, y \in CountOverTime(w) : x = y
  BY DEF CountOverTime
<1>3. QED
  BY <1>1, <1>2 DEF ComputeValue

\* The values of a series, from what is fetched, are those it has in the table, at every
\* step of a query: the fetched window begins where the reference sees nothing any more.
LEMMA ValueIs ==
  ASSUME NEW q, q.start \in Int, q.end \in Int, NEW e, e.range \in Nat, e.offset \in Int,
         NEW s, InTime(s.samples), NEW t \in Int, t <= q.end,
         e.fn \in {"last", "count"}
  PROVE  ComputeValue(WindowSamples(s.samples, DataStart(q, e), DataEnd(q, e)), e, t) =
           IF e.fn = "count" THEN CountedAt(q, e, s, t - e.offset)
           ELSE SelectedAt(q, e, s, t - e.offset)
<1> DEFINE from == DataStart(q, e)
           to == DataEnd(q, e)
           ss == s.samples
           w == WindowSamples(ss, from, to)
           u == t - e.offset
<1>1. /\ Staleness \in Nat /\ From(q) \in Int /\ from \in Int /\ to \in Int /\ u \in Int /\ u <= to
      /\ \A p : p.t \in Int => (IsSeen(q, e, p) <=> from < p.t)
  <2>1. Staleness \in Nat
    BY StalenessAssumption
  <2>2. From(q) \in Int
    BY <2>1 DEF From
  <2>3. from = From(q) - e.range - Staleness - e.offset /\ to = q.end - e.offset
    BY DEF DataStart, DataEnd
  <2>4. ASSUME NEW p, p.t \in Int  PROVE IsSeen(q, e, p) <=> from < p.t
    BY <2>1, <2>2, <2>3, <2>4 DEF IsSeen
  <2>5. QED
    BY <2>1, <2>2, <2>3, <2>4
<1> HIDE DEF from, to
<1>2. InTime(w) /\ ToSet(w) = {p \in ToSet(ss) : from < p.t /\ p.t <= to}
  BY <1>1, WindowIs
<1>3. \A p \in ToSet(ss) : p.t \in Int
  BY SamplesAre
<1> HIDE DEF w, u
<1>4. ASSUME e.fn = "count"  PROVE ComputeValue(w, e, t) = CountedAt(q, e, s, u)
  <2> DEFINE x == WindowSamples(w, u - e.range, u)
             W == {p \in ToSet(ss) : u - p.t \in 0..(e.range - 1) /\ IsSeen(q, e, p)}
  <2>1. t - e.offset - e.range = u - e.range /\ u - e.range \in Int
    BY <1>1 DEF u
  <2>2. ComputeValue(w, e, t) = CountOverTime(x)
    BY <1>4, <2>1 DEF ComputeValue, u
  <2>3. InTime(x) /\ ToSet(x) = {p \in ToSet(w) : u - e.range < p.t /\ p.t <= u}
    BY <1>1, <1>2, <2>1, WindowIs
  <2>4. ToSet(x) = W
    <3>1. ASSUME NEW p \in ToSet(ss)
          PROVE  (from < p.t /\ p.t <= to /\ u - e.range < p.t /\ p.t <= u)
                   <=> (u - p.t \in 0..(e.range - 1) /\ IsSeen(q, e, p))
      <4>1. p.t \in Int
        BY <1>3
      <4>2. IsSeen(q, e, p) <=> from < p.t
        BY <1>1, <4>1
      <4>3. (u - e.range < p.t /\ p.t <= u) <=> u - p.t \in 0..(e.range - 1)
        BY <4>1, <1>1
      <4>4. p.t <= u => p.t <= to
        BY <4>1, <1>1
      <4>5. QED
        BY <4>2, <4>3, <4>4
    <3>2. QED
      BY <1>2, <2>3, <3>1
  <2>5. CountedAt(q, e, s, u) = {Cardinality(V) : V \in {W} \ {{}}}
    BY DEF CountedAt
  <2> HIDE DEF x, W
  <2>6. Cardinality(W) = Len(x) /\ Len(x) \in Nat /\ (x = <<>> <=> W = {})
    <3>1. Cardinality(ToSet(x)) = Len(x) /\ Len(x) \in Nat /\ ToSet(x) = {x[i] : i \in 1..Len(x)}
      BY <2>3, CountIs, SamplesAre
    <3>2. x = <<>> <=> Len(x) = 0
      BY <2>3, EmptySeq DEF InTime
    <3>3. Len(x) = 0 <=> ToSet(x) = {}
      <4> DEFINE n == Len(x)
      <4>1. n \in Nat /\ ToSet(x) = {x[i] : i \in 1..n}
        BY <3>1
      <4> HIDE DEF n
      <4>2. n # 0 => 1 \in 1..n
        BY <4>1
      <4>3. n = 0 => 1..n = {}
        BY <4>1
      <4>4. n = 0 <=> ToSet(x) = {}
        BY <4>1, <4>2, <4>3
      <4>5. QED
        BY <4>4 DEF n
    <3>4. QED
      BY <3>1, <3>2, <3>3, <2>4
  <2>7. CountOverTime(x) = IF x = <<>> THEN {} ELSE {Len(x)}
    BY DEF CountOverTime
  <2>8. QED
    BY <2>2, <2>5, <2>6, <2>7
<1>5. ASSUME e.fn # "count"  PROVE ComputeValue(w, e, t) = SelectedAt(q, e, s, u)
  <2> DEFINE fresh == {p \in NewestOf(w, u) : p.t >= u - Staleness /\ p.v # Stale}
             selected == {p \in Newest(s, u) : u - p.t <= Staleness /\ p.v # Stale /\ IsSeen(q, e, p)}
  <2>1. ComputeValue(w, e, t) = {p.v : p \in fresh}
    BY <1>5, <1>1, <1>2, InstantIs DEF ComputeValue, u
  <2>2. SelectedAt(q, e, s, u) = {p.v : p \in selected}
    BY DEF SelectedAt
  <2>3. ASSUME NEW p \in fresh  PROVE p \in selected
    <3>1. /\ p \in ToSet(w) /\ p \in ToSet(ss) /\ from < p.t /\ p.t <= u /\ p.t \in Int
          /\ p.t >= u - Staleness /\ p.v # Stale
          /\ \A r \in ToSet(w) : r.t <= u => r.t <= p.t
      BY <2>3, <1>2, <1>3 DEF NewestOf
    <3>2. ASSUME NEW r \in ToSet(ss), r.t <= u  PROVE r.t <= p.t
      <4>1. r.t \in Int
        BY <1>3
      <4>2. CASE from < r.t
        BY <4>1, <4>2, <3>1, <3>2, <1>1, <1>2
      <4>3. CASE r.t <= from
        BY <4>1, <4>3, <3>1, <1>1
      <4>4. QED
        BY <4>1, <4>2, <4>3, <1>1
    <3>3. p \in Newest(s, u)
      BY <3>1, <3>2 DEF Newest
    <3>4. u - p.t <= Staleness /\ IsSeen(q, e, p)
      BY <3>1, <1>1
    <3>5. QED
      BY <3>1, <3>3, <3>4
  <2>4. ASSUME NEW p \in selected  PROVE p \in fresh
    <3>1. /\ p \in ToSet(ss) /\ p.t \in Int /\ p.t <= u /\ u - p.t <= Staleness /\ p.v # Stale
          /\ \A r \in ToSet(ss) : r.t <= u => r.t <= p.t
      BY <2>4, <1>3 DEF Newest
    <3>2. from < p.t
      BY <2>4, <3>1, <1>1
    <3>3. p.t <= to /\ p.t >= u - Staleness
      BY <3>1, <1>1
    <3>4. p \in NewestOf(w, u)
      BY <3>1, <3>2, <3>3, <1>2 DEF NewestOf
    <3>5. QED
      BY <3>1, <3>3, <3>4
  <2>5. fresh = selected
    BY <2>3, <2>4
  <2>6. QED
    BY <2>1, <2>2, <2>5
<1>6. QED
  BY <1>4, <1>5 DEF w, u, from, to

\* Values of growing times, where some may be missing: those that are there, in order.
LEMMA PresentIs ==
  ASSUME NEW n \in Nat, NEW values, DOMAIN values = 1..n, NEW ts,
         \A i \in 1..n : ts[i] \in Int,
         \A i, j \in 1..n : i < j => ts[i] < ts[j],
         \A i \in 1..n : \A x \in values[i] : x.t = ts[i],
         \A i \in 1..n : \A x, y \in values[i] : x = y
  PROVE  /\ InTime(Present(values))
         /\ ToSet(Present(values)) = UNION {values[i] : i \in 1..n}
<1> DEFINE there == {i \in 1..n : values[i] # {}}
           m == Cardinality(there)
           nth(k) == CHOOSE i \in there : Cardinality({j \in there : j < i}) = k - 1
           place == [k \in 1..m |-> nth(k)]
           p == Present(values)
<1>1. p = [k \in 1..m |-> CHOOSE x \in values[nth(k)] : TRUE]
  BY DEF Present
<1>2. IsFiniteSet(there) /\ there \in SUBSET Int
  <2>1. 1 \in Int /\ n \in Int
    OBVIOUS
  <2>2. IsFiniteSet(1..n) /\ there \subseteq 1..n
    BY <2>1, FS_Interval
  <2>3. QED
    BY <2>2, FS_Subset
<1>3. /\ m \in Nat /\ place \in [1..m -> there]
      /\ \A k, l \in 1..m : k < l => place[k] < place[l]
      /\ \A i \in there : \E k \in 1..m : place[k] = i
  <2> HIDE DEF there
  <2>1. QED
    BY <1>2, IntsInOrder
<1>4. \A k \in 1..m : place[k] = nth(k)
  OBVIOUS
<1> HIDE DEF nth, m, place
<1>5. \A k \in 1..m : place[k] \in 1..n /\ values[place[k]] = {p[k]}
  <2>1. SUFFICES ASSUME NEW k \in 1..m  PROVE place[k] \in 1..n /\ values[place[k]] = {p[k]}
    OBVIOUS
  <2>2. place[k] \in 1..n /\ values[place[k]] # {}
    BY <1>3
  <2>3. p[k] = CHOOSE x \in values[place[k]] : TRUE
    BY <1>1, <1>4
  <2>4. p[k] \in values[place[k]]
    BY <2>2, <2>3
  <2>5. \A x \in values[place[k]] : x = p[k]
    BY <2>2, <2>4
  <2>6. QED
    BY <2>2, <2>4, <2>5
<1>6. p = [k \in 1..m |-> p[k]]
  BY <1>1
<1> HIDE DEF p
<1>7. \A k \in 1..m : p[k].t = ts[place[k]] /\ p[k].t \in Int
  BY <1>5
<1>8. \A k, l \in 1..m : k < l => p[k].t < p[l].t
  BY <1>3, <1>5, <1>7
<1>9. InTime(p)
  BY <1>3, <1>6, <1>7, <1>8, InTimeIs
<1>10. ToSet(p) = {p[k] : k \in 1..m}
  BY <1>6 DEF ToSet
<1>11. ASSUME NEW i \in 1..n, NEW x \in values[i]  PROVE x \in ToSet(p)
  <2>1. i \in there
    BY <1>11
  <2>2. PICK k \in 1..m : place[k] = i
    BY <2>1, <1>3
  <2>3. x = p[k]
    BY <2>2, <1>5, <1>11
  <2>4. QED
    BY <2>3, <1>10
<1>12. ASSUME NEW x \in ToSet(p)  PROVE \E i \in 1..n : x \in values[i]
  <2>1. PICK k \in 1..m : x = p[k]
    BY <1>10
  <2>2. QED
    BY <2>1, <1>5
<1>13. QED
  BY <1>9, <1>11, <1>12 DEF p

\* The steps of a query grow and end before its end.
LEMMA StepsAre ==
  ASSUME NEW q, q.start \in Int, q.end \in Int, q.step \in Nat
  PROVE  /\ Len(StepsOf(q)) \in Nat \ {0}
         /\ DOMAIN StepsOf(q) = 1..Len(StepsOf(q))
         /\ ToSet(StepsOf(q)) = {StepsOf(q)[i] : i \in 1..Len(StepsOf(q))}
         /\ \A i \in 1..Len(StepsOf(q)) : StepsOf(q)[i] \in Int /\ StepsOf(q)[i] <= q.end
         /\ \A i, j \in 1..Len(StepsOf(q)) : i < j => StepsOf(q)[i] < StepsOf(q)[j]
         /\ Len(StepsOf(q)) = 1 => StepsOf(q) = <<StepsOf(q)[1]>> /\ Head(StepsOf(q)) = StepsOf(q)[1]
<1> DEFINE s == StepsOf(q)
           d == (q.end - q.start) \div q.step
<1>1. CASE q.step <= 0 \/ q.end < q.start
  <2>1. s = <<q.end>>
    BY <1>1 DEF StepsOf, Steps
  <2>2. Len(s) = 1 /\ DOMAIN s = 1..1 /\ s[1] = q.end /\ Head(s) = q.end
    BY <2>1
  <2> HIDE DEF s
  <2>3. ToSet(s) = {s[i] : i \in 1..1}
    BY <2>2 DEF ToSet
  <2>4. \A i \in 1..1 : i = 1
    OBVIOUS
  <2>5. QED
    BY <2>1, <2>2, <2>3, <2>4 DEF s
<1>2. CASE ~(q.step <= 0 \/ q.end < q.start)
  <2>1. s = [i \in 1..(d + 1) |-> q.start + (i - 1) * q.step]
    BY <1>2 DEF StepsOf, Steps
  <2>2. d \in Nat /\ q.step * d <= q.end - q.start /\ q.step \in Nat \ {0}
    <3> DEFINE a == q.end - q.start
               b == q.step
    <3>1. a \in Nat /\ b \in Nat \ {0}
      BY <1>2
    <3> HIDE DEF a, b
    <3>2. a \div b \in Nat /\ b * (a \div b) <= a
      BY <3>1
    <3>3. QED
      BY <3>1, <3>2 DEF a, b
  <2> HIDE DEF s, d
  <2>3. s \in [1..(d + 1) -> Int]
    BY <2>1, <2>2
  <2>4. s \in Seq(Int) /\ DOMAIN s = 1..(d + 1)
    BY <2>2, <2>3, SeqDef
  <2>5. Len(s) = d + 1
    BY <2>2, <2>4, LenProperties
  <2>6. ToSet(s) = {s[i] : i \in 1..Len(s)}
    BY <2>4, <2>5 DEF ToSet
  <2>7. \A i \in 1..(d + 1) : s[i] \in Int /\ s[i] <= q.end
    <3>1. SUFFICES ASSUME NEW i \in 1..(d + 1)  PROVE s[i] \in Int /\ s[i] <= q.end
      OBVIOUS
    <3> DEFINE k == i - 1
    <3>2. k \in Nat /\ k <= d /\ s[i] = q.start + k * q.step
      BY <2>1, <2>2
    <3> HIDE DEF k
    <3>3. k * q.step <= q.step * d /\ k * q.step \in Int /\ q.step * d \in Int
      BY <2>2, <3>2
    <3>4. QED
      BY <2>2, <3>2, <3>3
  <2>8. \A i, j \in 1..(d + 1) : i < j => s[i] < s[j]
    <3>1. SUFFICES ASSUME NEW i \in 1..(d + 1), NEW j \in 1..(d + 1), i < j  PROVE s[i] < s[j]
      OBVIOUS
    <3> DEFINE k == i - 1
               l == j - 1
    <3>2. k \in Nat /\ l \in Nat /\ k < l /\ s[i] = q.start + k * q.step /\ s[j] = q.start + l * q.step
      BY <2>1, <2>2, <3>1
    <3> HIDE DEF k, l
    <3>3. k * q.step < l * q.step /\ k * q.step \in Int /\ l * q.step \in Int
      BY <2>2, <3>2
    <3>4. QED
      BY <3>2, <3>3
  <2>9. Len(s) = 1 => s = <<s[1]>> /\ Head(s) = s[1]
    <3>1. SUFFICES ASSUME Len(s) = 1  PROVE s = <<s[1]>> /\ Head(s) = s[1]
      OBVIOUS
    <3>2. DOMAIN s = 1..1
      BY <3>1, <2>4, <2>5
    <3>3. s = [i \in 1..1 |-> s[i]]
      BY <3>2, <2>3
    <3>4. QED
      BY <3>1, <3>3, <2>4
  <2>10. QED
    BY <2>2, <2>4, <2>5, <2>6, <2>7, <2>8, <2>9 DEF s
<1>3. QED
  BY <1>1, <1>2

\* Without samples there is no value.
LEMMA EmptyHasNone ==
  ASSUME NEW ss, InTime(ss), ToSet(ss) = {}, NEW e, e.range \in Nat, e.offset \in Int,
         NEW t \in Int
  PROVE  ComputeValue(ss, e, t) = {}
<1>1. t - e.offset \in Int /\ t - e.offset - e.range \in Int
  OBVIOUS
<1>2. InstantValue(ss, t - e.offset) = {}
  BY <1>1, InstantIs DEF NewestOf
<1>3. CountOverTime(WindowSamples(ss, t - e.offset - e.range, t - e.offset)) = {}
  <2> DEFINE w == WindowSamples(ss, t - e.offset - e.range, t - e.offset)
  <2>1. InTime(w) /\ ToSet(w) = {}
    BY <1>1, WindowIs
  <2> HIDE DEF w
  <2>2. Len(w) = 0
    <3>1. IsFiniteSet(ToSet(w)) /\ Cardinality(ToSet(w)) = Len(w)
      BY <2>1, CountIs
    <3>2. QED
      BY <3>1, <2>1, FS_EmptySet
  <2>3. w = <<>>
    BY <2>1, <2>2, EmptySeq DEF InTime
  <2>4. QED
    BY <2>3 DEF CountOverTime, w
<1>4. QED
  BY <1>2, <1>3 DEF ComputeValue

\* The rows of an operand before its aggregation.
RawAt(q, e, t) ==
  UNION {{[labels |-> s.labels, v |-> x] :
            x \in IF e.fn = "count" THEN CountedAt(q, e, s, t - e.offset)
                  ELSE SelectedAt(q, e, s, t - e.offset)} : s \in store[e.metric]}

\* The same, from what has been fetched.
RowsFrom(series, e, t) ==
  UNION {{[labels |-> s.labels, v |-> x] : x \in ComputeValue(s.samples, e, t)} : s \in series}

\* A set of series as the evaluator has them.
Orderly(series) ==
  /\ IsFiniteSet(series) /\ SeriesSet(series)
  /\ \A s \in series : InTime(s.samples)
  /\ \A r, s \in series : r.labels = s.labels => r = s

\* What the table has of a metric is in order: StoresAssumption, in the terms of this module.
LEMMA StoreIs ==
  ASSUME NEW st \in Stores, NEW m \in DOMAIN st
  PROVE  Orderly(st[m])
<1>1. IsFiniteSet(st[m]) /\ SeriesSet(st[m]) /\ \A r, s \in st[m] : r.labels = s.labels => r = s
  BY StoresAssumption DEF SeriesSet
<1>2. ASSUME NEW s \in st[m]  PROVE InTime(s.samples)
  <2> DEFINE ss == s.samples
             n == Len(ss)
  <2>1. ss \in Seq(Sample) /\ \A i, j \in DOMAIN ss : i < j => ss[i].t < ss[j].t
    BY <1>2, StoresAssumption
  <2> HIDE DEF ss
  <2>2. n \in Nat /\ DOMAIN ss = 1..n /\ ss \in [1..n -> Sample]
    BY <2>1, LenProperties
  <2>3. \A i \in 1..n : ss[i].t \in Int
    BY <2>2 DEF Sample
  <2> HIDE DEF n
  <2>4. InTime(ss)
    BY <2>1, <2>2, <2>3, InTimeIs
  <2>5. QED
    BY <2>4 DEF ss
<1>3. QED
  BY <1>1, <1>2 DEF Orderly

\* What is fetched are series of the store, and has the same values at every step.
LEMMA FetchedIs ==
  ASSUME store \in Stores, NEW q \in Queries, NEW x \in Used(q)
  PROVE  LET e == OperandOf(q, x)
         IN /\ Orderly(Rows(q, e))
            /\ \A t \in Int : t <= q.end => RowsFrom(Rows(q, e), e, t) = RawAt(q, e, t)
<1> DEFINE e == OperandOf(q, x)
           R == store[e.metric]
           w(s) == WindowSamples(s.samples, DataStart(q, e), DataEnd(q, e))
           rec(s) == [labels |-> s.labels, samples |-> w(s)]
           all == {rec(s) : s \in R}
<1>1. /\ q.start \in Int /\ q.end \in Int /\ e.range \in Nat /\ e.offset \in Int
      /\ e.fn \in {"last", "count"} /\ e.metric \in DOMAIN store
  BY QueriesAssumption
<1> HIDE DEF e
<1>2. Orderly(R)
  BY <1>1, StoreIs
<1>3. DataStart(q, e) \in Int /\ DataEnd(q, e) \in Int
  <2>1. From(q) \in Int /\ Staleness \in Nat
    BY <1>1, StalenessAssumption DEF From
  <2>2. QED
    BY <1>1, <2>1 DEF DataStart, DataEnd
<1>4. Rows(q, e) = {s \in all : s.samples # <<>>}
  BY DEF Rows
<1>5. \A s \in R : InTime(w(s)) /\ InTime(s.samples)
  BY <1>2, <1>3, WindowIs DEF Orderly
<1> HIDE DEF w, R
<1>6. \A a \in Rows(q, e) : \E s \in R : a = rec(s)
  BY <1>4
<1>7. Orderly(Rows(q, e))
  <2>1. IsFiniteSet(Rows(q, e))
    <3> DEFINE f == [s \in R |-> rec(s)]
    <3>1. IsFiniteSet(DOMAIN f)
      BY <1>2 DEF Orderly
    <3>2. IsFiniteSet({f[s] : s \in DOMAIN f})
      BY <3>1, ImageIsFinite
    <3>3. {f[s] : s \in DOMAIN f} = all
      OBVIOUS
    <3>4. QED
      BY <3>2, <3>3, <1>4, FS_Subset
  <2>2. SeriesSet(Rows(q, e))
    BY <1>4, <1>6 DEF SeriesSet
  <2>3. \A a \in Rows(q, e) : InTime(a.samples)
    BY <1>5, <1>6
  <2>4. ASSUME NEW a \in Rows(q, e), NEW b \in Rows(q, e), a.labels = b.labels  PROVE a = b
    <3>1. PICK r \in R, s \in R : a = rec(r) /\ b = rec(s)
      BY <1>6
    <3>2. r = s
      BY <3>1, <2>4, <1>2 DEF Orderly
    <3>3. QED
      BY <3>1, <3>2
  <2>5. QED
    BY <2>1, <2>2, <2>3, <2>4 DEF Orderly
<1>8. ASSUME NEW t \in Int, t <= q.end  PROVE RowsFrom(Rows(q, e), e, t) = RawAt(q, e, t)
  <2> DEFINE val(s) == IF e.fn = "count" THEN CountedAt(q, e, s, t - e.offset)
                       ELSE SelectedAt(q, e, s, t - e.offset)
  <2>1. ASSUME NEW s \in R  PROVE ComputeValue(w(s), e, t) = val(s)
    BY <1>1, <1>5, <1>8, <2>1, ValueIs DEF w
  <2>2. ASSUME NEW s \in R, w(s) = <<>>  PROVE val(s) = {}
    <3>1. InTime(w(s)) /\ ToSet(w(s)) = {}
      BY <1>5, <2>2 DEF ToSet
    <3>2. ComputeValue(w(s), e, t) = {}
      BY <1>1, <3>1, EmptyHasNone
    <3>3. QED
      BY <3>2, <2>1
  <2>3. RawAt(q, e, t) = UNION {{[labels |-> s.labels, v |-> y] : y \in val(s)} : s \in R}
    BY DEF RawAt, R
  <2> HIDE DEF val
  <2>4. ASSUME NEW r \in RowsFrom(Rows(q, e), e, t)  PROVE r \in RawAt(q, e, t)
    <3>1. PICK a \in Rows(q, e) : \E y \in ComputeValue(a.samples, e, t) : r = [labels |-> a.labels, v |-> y]
      BY DEF RowsFrom
    <3>2. PICK s \in R : a = rec(s)
      BY <1>6
    <3>3. PICK y \in val(s) : r = [labels |-> s.labels, v |-> y]
      BY <3>1, <3>2, <2>1
    <3>4. QED
      BY <3>3, <2>3
  <2>5. ASSUME NEW r \in RawAt(q, e, t)  PROVE r \in RowsFrom(Rows(q, e), e, t)
    <3>1. PICK s \in R : \E y \in val(s) : r = [labels |-> s.labels, v |-> y]
      BY <2>3
    <3>2. w(s) # <<>>
      BY <3>1, <2>2
    <3>3. rec(s) \in Rows(q, e)
      BY <3>2, <1>4
    <3>4. \E y \in ComputeValue(rec(s).samples, e, t) : r = [labels |-> rec(s).labels, v |-> y]
      BY <3>1, <2>1
    <3> HIDE DEF rec
    <3>5. QED
      BY <3>3, <3>4 DEF RowsFrom
  <2>6. QED
    BY <2>4, <2>5
<1>9. QED
  BY <1>7, <1>8 DEF e

-----------------------------------------------------------------------------
(***************************************************************************)
(* Results over steps.                                                     *)
(***************************************************************************)
Growing(steps) ==
  /\ Len(steps) \in Nat /\ DOMAIN steps = 1..Len(steps)
  /\ ToSet(steps) = {steps[i] : i \in 1..Len(steps)}
  /\ \A i \in 1..Len(steps) : steps[i] \in Int
  /\ \A i, j \in 1..Len(steps) : i < j => steps[i] < steps[j]

\* A series at growing steps has the values it has at each of them.
LEMMA AtStepsIs ==
  ASSUME NEW s, NEW e, NEW steps, Growing(steps)
  PROVE  LET a == AtSteps(s, e, steps)
         IN /\ DOMAIN a = {"labels", "samples"} /\ a.labels = s.labels
            /\ InTime(a.samples)
            /\ ToSet(a.samples) = {[t |-> tx[1], v |-> tx[2]] :
                 tx \in UNION {{<<t, x>> : x \in ComputeValue(s.samples, e, t)} : t \in ToSet(steps)}}
<1> DEFINE a == AtSteps(s, e, steps)
           n == Len(steps)
           vals == [i \in DOMAIN steps |->
                      {[t |-> steps[i], v |-> x] : x \in ComputeValue(s.samples, e, steps[i])}]
           pairs == UNION {{<<t, x>> : x \in ComputeValue(s.samples, e, t)} : t \in ToSet(steps)}
<1>1. a = [labels |-> s.labels, samples |-> Present(vals)]
  BY DEF AtSteps
<1>2. /\ n \in Nat /\ DOMAIN steps = 1..n /\ ToSet(steps) = {steps[i] : i \in 1..n}
      /\ \A i \in 1..n : steps[i] \in Int
      /\ \A i, j \in 1..n : i < j => steps[i] < steps[j]
  BY DEF Growing
<1>3. DOMAIN vals = 1..n /\ \A i \in 1..n : vals[i] =
        {[t |-> steps[i], v |-> x] : x \in ComputeValue(s.samples, e, steps[i])}
  BY <1>2
<1> HIDE DEF n, vals, a
<1>4. \A i \in 1..n : \A p \in vals[i] : p.t = steps[i]
  BY <1>3
<1>5. \A i \in 1..n : \A p, r \in vals[i] : p = r
  <2>1. SUFFICES ASSUME NEW i \in 1..n, NEW p \in vals[i], NEW r \in vals[i]  PROVE p = r
    OBVIOUS
  <2>2. PICK x \in ComputeValue(s.samples, e, steps[i]) : p = [t |-> steps[i], v |-> x]
    BY <1>3
  <2>3. PICK y \in ComputeValue(s.samples, e, steps[i]) : r = [t |-> steps[i], v |-> y]
    BY <1>3
  <2>4. x = y
    BY ValueIsOne
  <2>5. QED
    BY <2>2, <2>3, <2>4
<1>6. InTime(Present(vals)) /\ ToSet(Present(vals)) = UNION {vals[i] : i \in 1..n}
  BY <1>2, <1>3, <1>4, <1>5, PresentIs
<1>7. UNION {vals[i] : i \in 1..n} = {[t |-> tx[1], v |-> tx[2]] : tx \in pairs}
  <2>1. ASSUME NEW i \in 1..n, NEW p \in vals[i]
        PROVE  \E tx \in pairs : p = [t |-> tx[1], v |-> tx[2]]
    <3>1. PICK x \in ComputeValue(s.samples, e, steps[i]) : p = [t |-> steps[i], v |-> x]
      BY <1>3
    <3>2. <<steps[i], x>> \in pairs
      BY <1>2
    <3>3. QED
      BY <3>1, <3>2
  <2>2. ASSUME NEW tx \in pairs
        PROVE  \E i \in 1..n : [t |-> tx[1], v |-> tx[2]] \in vals[i]
    <3>1. PICK t \in ToSet(steps) : \E x \in ComputeValue(s.samples, e, t) : tx = <<t, x>>
      OBVIOUS
    <3>2. PICK i \in 1..n : t = steps[i]
      BY <1>2
    <3>3. QED
      BY <3>1, <3>2, <1>3
  <2>3. QED
    BY <2>1, <2>2
<1>8. QED
  BY <1>1, <1>6, <1>7 DEF a

\* What a set of series has at each time of T, and nothing else.
Shows(series, f, T) ==
  /\ Orderly(series)
  /\ \A s \in series : \A p \in ToSet(s.samples) : p.t \in T
  /\ \A t \in T : VecAt(series, t) = f[t]

\* The rows of a result at a time.
LEMMA VecAtIs ==
  ASSUME NEW series, NEW t, NEW r
  PROVE  r \in VecAt(series, t) <=>
           \E s \in series : \E p \in ToSet(s.samples) : p.t = t /\ r = [labels |-> s.labels, v |-> p.v]
BY DEF VecAt

\* Fetched series at steps, also those that have no value at any.
Built(R, e, steps) == {AtSteps(s, e, steps) : s \in R}

\* The values computed from fetched series are those of f.
Computes(f, R, e, steps) == \A t \in ToSet(steps) : f[t] = RowsFrom(R, e, t)

\* buildMatrixSD shows what has been fetched, and so does the single step of an instant.
LEMMA MatrixIs ==
  ASSUME NEW R, Orderly(R), NEW e, NEW steps, Growing(steps), NEW f, Computes(f, R, e, steps)
  PROVE  /\ \A t \in ToSet(steps) : VecAt(Built(R, e, steps), t) = f[t]
         /\ Shows({s \in Built(R, e, steps) : s.samples # <<>>}, f, ToSet(steps))
<1> DEFINE upon(s) == AtSteps(s, e, steps)
           all == {upon(s) : s \in R}
           M == {s \in all : s.samples # <<>>}
<1>1. ASSUME NEW s
      PROVE  /\ DOMAIN upon(s) = {"labels", "samples"} /\ upon(s).labels = s.labels
             /\ InTime(upon(s).samples)
             /\ \A p \in ToSet(upon(s).samples) : p.t \in ToSet(steps)
             /\ \A t \in ToSet(steps) : \A y :
                  (\E p \in ToSet(upon(s).samples) : p.t = t /\ p.v = y)
                    <=> y \in ComputeValue(s.samples, e, t)
  <2> DEFINE pairs == UNION {{<<t, x>> : x \in ComputeValue(s.samples, e, t)} : t \in ToSet(steps)}
  <2>1. /\ DOMAIN upon(s) = {"labels", "samples"} /\ upon(s).labels = s.labels
        /\ InTime(upon(s).samples)
        /\ ToSet(upon(s).samples) = {[t |-> tx[1], v |-> tx[2]] : tx \in pairs}
    BY AtStepsIs
  <2> HIDE DEF upon
  <2>2. \A p \in ToSet(upon(s).samples) : p.t \in ToSet(steps) /\ p.v \in ComputeValue(s.samples, e, p.t)
    BY <2>1
  <2>3. ASSUME NEW t \in ToSet(steps), NEW y \in ComputeValue(s.samples, e, t)
        PROVE  \E p \in ToSet(upon(s).samples) : p.t = t /\ p.v = y
    <3>1. <<t, y>> \in pairs
      OBVIOUS
    <3> HIDE DEF pairs
    <3>2. [t |-> <<t, y>>[1], v |-> <<t, y>>[2]] \in ToSet(upon(s).samples)
      BY <2>1, <3>1
    <3>3. QED
      BY <3>2
  <2>4. QED
    BY <2>1, <2>2, <2>3
<1> HIDE DEF upon
<1>2. ASSUME NEW t \in ToSet(steps)  PROVE VecAt(all, t) = f[t] /\ VecAt(M, t) = f[t]
  <2>1. f[t] = RowsFrom(R, e, t)
    BY <1>2 DEF Computes
  <2>2. ASSUME NEW r \in VecAt(all, t)  PROVE r \in RowsFrom(R, e, t)
    <3>1. PICK a \in all : \E p \in ToSet(a.samples) : p.t = t /\ r = [labels |-> a.labels, v |-> p.v]
      BY <2>2, VecAtIs
    <3>2. PICK s \in R : a = upon(s)
      BY <3>1
    <3>3. PICK p \in ToSet(a.samples) : p.t = t /\ r = [labels |-> a.labels, v |-> p.v]
      BY <3>1
    <3>4. p.v \in ComputeValue(s.samples, e, t) /\ a.labels = s.labels
      BY <1>1, <3>2, <3>3
    <3>5. QED
      BY <3>2, <3>3, <3>4 DEF RowsFrom
  <2>3. ASSUME NEW r \in RowsFrom(R, e, t)  PROVE r \in VecAt(M, t)
    <3>1. PICK s \in R : \E y \in ComputeValue(s.samples, e, t) : r = [labels |-> s.labels, v |-> y]
      BY <2>3 DEF RowsFrom
    <3>2. PICK p \in ToSet(upon(s).samples) : p.t = t /\ r = [labels |-> s.labels, v |-> p.v]
      <4>1. PICK y \in ComputeValue(s.samples, e, t) : r = [labels |-> s.labels, v |-> y]
        BY <3>1
      <4>2. PICK p \in ToSet(upon(s).samples) : p.t = t /\ p.v = y
        BY <1>1, <1>2, <4>1
      <4>3. QED
        BY <4>1, <4>2
    <3>3. upon(s).samples # <<>>
      BY <3>2 DEF ToSet
    <3>4. upon(s) \in M /\ upon(s).labels = s.labels
      BY <3>3, <1>1
    <3> HIDE DEF M
    <3>5. QED
      BY <3>2, <3>4, VecAtIs
  <2>4. \A r \in VecAt(M, t) : r \in VecAt(all, t)
    BY VecAtIs
  <2>5. QED
    BY <2>1, <2>2, <2>3, <2>4
<1>3. Orderly(M)
  <2>1. IsFiniteSet(M)
    <3> DEFINE g == [s \in R |-> upon(s)]
    <3>1. IsFiniteSet(DOMAIN g)
      BY DEF Orderly
    <3>2. IsFiniteSet({g[s] : s \in DOMAIN g})
      BY <3>1, ImageIsFinite
    <3>3. {g[s] : s \in DOMAIN g} = all
      OBVIOUS
    <3>4. QED
      BY <3>2, <3>3, FS_Subset
  <2>2. SeriesSet(M) /\ \A a \in M : InTime(a.samples)
    BY <1>1 DEF SeriesSet
  <2>3. ASSUME NEW a \in M, NEW b \in M, a.labels = b.labels  PROVE a = b
    <3>1. PICK r \in R, s \in R : a = upon(r) /\ b = upon(s)
      OBVIOUS
    <3>2. r.labels = s.labels
      BY <3>1, <2>3, <1>1
    <3>3. r = s
      BY <3>2 DEF Orderly
    <3>4. QED
      BY <3>1, <3>3
  <2>4. QED
    BY <2>1, <2>2, <2>3 DEF Orderly
<1>4. \A a \in M : \A p \in ToSet(a.samples) : p.t \in ToSet(steps)
  BY <1>1
<1>5. Shows(M, f, ToSet(steps))
  BY <1>2, <1>3, <1>4 DEF Shows
<1>6. QED
  BY <1>2, <1>5 DEF upon, Built

-----------------------------------------------------------------------------
(***************************************************************************)
(* Vectors, and what is accumulated from them.                             *)
(***************************************************************************)

\* Rows with labels of their own.
IsVector(rows) ==
  /\ IsFiniteSet(rows)
  /\ \A r \in rows : r = [labels |-> r.labels, v |-> r.v]
  /\ \A r, s \in rows : r.labels = s.labels => r = s

\* The rows of series at a time are a vector.
LEMMA VecAtIsVector ==
  ASSUME NEW series, Orderly(series), NEW t
  PROVE  IsVector(VecAt(series, t))
<1> DEFINE here == {s \in series : \E p \in ToSet(s.samples) : p.t = t}
           value(s) == CHOOSE p \in ToSet(s.samples) : p.t = t
           g == [s \in here |-> [labels |-> s.labels, v |-> value(s).v]]
<1>1. \A s \in here : value(s) \in ToSet(s.samples) /\ value(s).t = t
  OBVIOUS
<1>2. \A s \in series : \A p, r \in ToSet(s.samples) : p.t = r.t => p = r
  BY SamplesAre DEF Orderly
<1> HIDE DEF value
<1>3. ASSUME NEW r \in VecAt(series, t)  PROVE \E s \in here : r = g[s]
  <2>1. PICK s \in series : \E p \in ToSet(s.samples) : p.t = t /\ r = [labels |-> s.labels, v |-> p.v]
    BY VecAtIs
  <2>2. PICK p \in ToSet(s.samples) : p.t = t /\ r = [labels |-> s.labels, v |-> p.v]
    BY <2>1
  <2>3. s \in here /\ p = value(s)
    BY <2>1, <2>2, <1>1, <1>2
  <2>4. QED
    BY <2>2, <2>3
<1>4. IsFiniteSet(VecAt(series, t))
  <2>1. IsFiniteSet(here)
    BY FS_Subset DEF Orderly
  <2>2. IsFiniteSet({g[s] : s \in DOMAIN g})
    <3> HIDE DEF here
    <3>1. IsFiniteSet(DOMAIN g)
      BY <2>1
    <3>2. g = [s \in DOMAIN g |-> g[s]]
      OBVIOUS
    <3> HIDE DEF g
    <3>3. QED
      BY <3>1, <3>2, ImageIsFinite
  <2>3. VecAt(series, t) \subseteq {g[s] : s \in DOMAIN g}
    BY <1>3
  <2>4. QED
    BY <2>2, <2>3, FS_Subset
<1>5. \A r \in VecAt(series, t) : r = [labels |-> r.labels, v |-> r.v]
  BY <1>3
<1>6. ASSUME NEW a \in VecAt(series, t), NEW b \in VecAt(series, t), a.labels = b.labels
      PROVE  a = b
  <2>1. PICK r \in here, s \in here : a = g[r] /\ b = g[s]
    BY <1>3
  <2>2. r.labels = s.labels
    BY <2>1, <1>6
  <2>3. r = s
    BY <2>2 DEF Orderly
  <2>4. QED
    BY <2>1, <2>3
<1>7. QED
  BY <1>4, <1>5, <1>6 DEF IsVector

\* An aggregation has one row for each group, and none where there are no rows.
LEMMA AggregateIsVector ==
  ASSUME NEW rows, IsFiniteSet(rows), NEW op, NEW names, NEW without
  PROVE  /\ IsVector(AggregateVector(rows, op, names, without))
         /\ rows = {} => AggregateVector(rows, op, names, without) = {}
<1> DEFINE Group(r) == GroupLabels(r.labels, names, without)
           val(l) == Aggregated(op, {r \in rows : Group(r) = l})
           g == [r \in rows |-> [labels |-> Group(r), v |-> val(Group(r))]]
           A == AggregateVector(rows, op, names, without)
<1>1. A = {[labels |-> l, v |-> val(l)] : l \in {Group(r) : r \in rows}}
  BY DEF AggregateVector
<1> HIDE DEF A, val, Group
<1>2. A = {g[r] : r \in DOMAIN g}
  BY <1>1
<1>3. IsFiniteSet(A)
  <2>1. IsFiniteSet(DOMAIN g) /\ g = [r \in DOMAIN g |-> g[r]]
    OBVIOUS
  <2> HIDE DEF g
  <2>2. QED
    BY <1>2, <2>1, ImageIsFinite
<1>4. QED
  BY <1>1, <1>3 DEF IsVector, A

\* One more sample, later than the others.
LEMMA OneMore ==
  ASSUME NEW ss, InTime(ss), NEW p, p.t \in Int, \A r \in ToSet(ss) : r.t < p.t
  PROVE  LET more == ss \o <<p>>
         IN InTime(more) /\ more # <<>> /\ ToSet(more) = ToSet(ss) \union {p}
<1> DEFINE n == Len(ss)
           more == ss \o <<p>>
<1>1. /\ n \in Nat /\ ToSet(ss) = {ss[i] : i \in 1..n}
      /\ \A i \in 1..n : ss[i].t \in Int
      /\ \A i, j \in 1..n : i < j => ss[i].t < ss[j].t
      /\ ss \in Seq(ToSet(ss) \union {p}) /\ <<p>> \in Seq(ToSet(ss) \union {p})
  <2>1. ss \in [1..n -> ToSet(ss)] /\ n \in Nat
    BY LenProperties DEF InTime
  <2>2. ss \in [1..n -> ToSet(ss) \union {p}]
    BY <2>1
  <2>3. ss \in Seq(ToSet(ss) \union {p})
    BY <2>1, <2>2, SeqDef
  <2>4. QED
    BY <2>3, SamplesAre
<1>2. /\ more \in Seq(ToSet(ss) \union {p}) /\ Len(more) = n + 1
      /\ \A i \in 1..(n + 1) : more[i] = IF i <= n THEN ss[i] ELSE p
  <2>1. Len(<<p>>) = 1 /\ <<p>>[1] = p
    OBVIOUS
  <2>2. /\ more \in Seq(ToSet(ss) \union {p}) /\ Len(more) = n + Len(<<p>>)
        /\ \A i \in 1..(n + Len(<<p>>)) : more[i] = IF i <= n THEN ss[i] ELSE <<p>>[i - n]
    BY <1>1, ConcatProperties
  <2> HIDE DEF n, more
  <2>3. ASSUME NEW i \in 1..(n + 1)  PROVE more[i] = IF i <= n THEN ss[i] ELSE p
    <3>1. i <= n \/ i - n = 1
      BY <1>1
    <3>2. QED
      BY <3>1, <2>1, <2>2
  <2>4. QED
    BY <2>1, <2>2, <2>3
<1> HIDE DEF n, more
<1>3. more \in [1..(n + 1) -> ToSet(ss) \union {p}] /\ DOMAIN more = 1..(n + 1)
  BY <1>1, <1>2, LenProperties
<1>4. more = [i \in 1..(n + 1) |-> more[i]]
  BY <1>3
<1>5. \A i \in 1..(n + 1) : more[i].t \in Int
  BY <1>1, <1>2
<1>6. \A i, j \in 1..(n + 1) : i < j => more[i].t < more[j].t
  <2>1. SUFFICES ASSUME NEW i \in 1..(n + 1), NEW j \in 1..(n + 1), i < j
                 PROVE  more[i].t < more[j].t
    OBVIOUS
  <2>2. i \in 1..n /\ more[i] = ss[i] /\ ss[i] \in ToSet(ss)
    BY <2>1, <1>1, <1>2
  <2>3. CASE j <= n
    BY <2>1, <2>2, <2>3, <1>1, <1>2
  <2>4. CASE ~(j <= n)
    BY <2>2, <2>4, <1>2
  <2>5. QED
    BY <2>3, <2>4
<1>7. InTime(more)
  <2>1. n + 1 \in Nat
    BY <1>1
  <2>2. QED
    BY <2>1, <1>4, <1>5, <1>6, InTimeIs
<1>8. ToSet(more) = ToSet(ss) \union {p}
  <2>1. ToSet(more) = {more[i] : i \in 1..(n + 1)}
    BY <1>3 DEF ToSet
  <2>2. \A i \in 1..n : i \in 1..(n + 1) /\ more[i] = ss[i]
    BY <1>1, <1>2
  <2>3. n + 1 \in 1..(n + 1) /\ more[n + 1] = p
    BY <1>1, <1>2
  <2>4. \A i \in 1..(n + 1) : more[i] \in ToSet(ss) \union {p}
    BY <1>3
  <2>5. QED
    BY <2>1, <2>2, <2>3, <2>4, <1>1
<1>9. more # <<>>
  <2>1. n + 1 # 0
    BY <1>1
  <2>2. QED
    BY <2>1, <1>2, EmptySeq
<1>10. QED
  BY <1>7, <1>8, <1>9 DEF more

\* The labels of a set of accumulated series are finitely many when the series are.
LEMMA LabelsAreFinite ==
  ASSUME NEW sofar, IsFiniteSet(AsSeries(sofar))
  PROVE  IsFiniteSet(DOMAIN sofar)
<1> DEFINE g == [s \in AsSeries(sofar) |-> s.labels]
<1>1. IsFiniteSet(DOMAIN g) /\ g = [s \in DOMAIN g |-> g[s]]
  OBVIOUS
<1>2. {g[s] : s \in DOMAIN g} = DOMAIN sofar
  <2>1. \A l \in DOMAIN sofar : [labels |-> l, samples |-> sofar[l]] \in DOMAIN g
    BY DEF AsSeries
  <2>2. \A s \in DOMAIN g : g[s] \in DOMAIN sofar
    BY DEF AsSeries
  <2>3. \A l \in DOMAIN sofar : l = g[[labels |-> l, samples |-> sofar[l]]]
    BY <2>1
  <2>4. QED
    BY <2>1, <2>2, <2>3
<1>3. QED
  <2> HIDE DEF g
  <2>1. QED
    BY <1>1, <1>2, ImageIsFinite

\* And the other way round.
LEMMA SeriesAreFinite ==
  ASSUME NEW sofar, IsFiniteSet(DOMAIN sofar)
  PROVE  IsFiniteSet(AsSeries(sofar))
<1> DEFINE g == [l \in DOMAIN sofar |-> [labels |-> l, samples |-> sofar[l]]]
<1>1. IsFiniteSet(DOMAIN g) /\ g = [l \in DOMAIN g |-> g[l]]
  OBVIOUS
<1>2. {g[l] : l \in DOMAIN g} = AsSeries(sofar)
  BY DEF AsSeries
<1>3. QED
  <2> HIDE DEF g
  <2>1. QED
    BY <1>1, <1>2, ImageIsFinite

\* The rows of accumulated series at a time.
LEMMA VecOfIs ==
  ASSUME NEW sofar, NEW t, NEW r
  PROVE  r \in VecAt(AsSeries(sofar), t) <=>
           \E l \in DOMAIN sofar : \E p \in ToSet(sofar[l]) : p.t = t /\ r = [labels |-> l, v |-> p.v]
<1> DEFINE rec(l) == [labels |-> l, samples |-> sofar[l]]
<1>1. \A s : s \in AsSeries(sofar) <=> \E l \in DOMAIN sofar : s = rec(l)
  BY DEF AsSeries
<1>2. \A l : rec(l).labels = l /\ rec(l).samples = sofar[l]
  OBVIOUS
<1> HIDE DEF rec
<1>3. QED
  BY <1>1, <1>2, VecAtIs

\* No samples.
LEMMA NothingInTime == InTime(<<>>) /\ ToSet(<<>>) = {}
<1>1. <<>> \in Seq(ToSet(<<>>)) /\ DOMAIN <<>> = {}
  OBVIOUS
<1>2. QED
  BY <1>1 DEF InTime, ToSet

\* What has been accumulated for a set of labels, and what is added to it.
OldOf(sofar, l) == IF l \in DOMAIN sofar THEN sofar[l] ELSE <<>>
NewOf(rows, l, t) ==
  LET new == SetToSeq({r \in rows : r.labels = l})
  IN [i \in DOMAIN new |-> [t |-> t, v |-> new[i].v]]

\* What is accumulated for one set of labels, when the rows have labels of their own.
LEMMA OneAdded ==
  ASSUME NEW old, InTime(old), NEW t \in Int, \A p \in ToSet(old) : p.t < t,
         NEW rows, NEW l, \A r, s \in rows : r.labels = s.labels => r = s
  PROVE  LET more == old \o NewOf(rows, l, t)
         IN /\ InTime(more)
            /\ \A p : p \in ToSet(more) <=>
                        \/ p \in ToSet(old)
                        \/ \E r \in rows : r.labels = l /\ p = [t |-> t, v |-> r.v]
            /\ old # <<>> \/ (\E r \in rows : r.labels = l) => more # <<>>
<1> DEFINE mine == {r \in rows : r.labels = l}
           new == SetToSeq(mine)
           added == [i \in DOMAIN new |-> [t |-> t, v |-> new[i].v]]
           more == old \o added
<1>0. NewOf(rows, l, t) = added
  BY DEF NewOf
<1>1. CASE mine = {}
  <2>1. new = <<>>
    BY <1>1, SmallSetToSeq
  <2> HIDE DEF new
  <2>2. added = <<>>
    BY <2>1
  <2> HIDE DEF added
  <2>3. more = old
    BY <2>2, ConcatEmptySeq DEF InTime
  <2> HIDE DEF more
  <2>4. QED
    BY <1>0, <1>1, <2>3 DEF more, added, new
<1>2. CASE mine # {}
  <2>1. PICK r \in rows : r.labels = l
    BY <1>2
  <2>2. mine = {r}
    BY <2>1
  <2>3. new = <<r>>
    BY <2>2, SmallSetToSeq
  <2> DEFINE p == [t |-> t, v |-> r.v]
  <2> HIDE DEF new
  <2>4. added = <<p>>
    BY <2>3
  <2> HIDE DEF added
  <2>5. p.t = t
    OBVIOUS
  <2> HIDE DEF p
  <2>6. InTime(more) /\ more # <<>> /\ ToSet(more) = ToSet(old) \union {p}
    BY <2>4, <2>5, OneMore
  <2> HIDE DEF more
  <2>7. \A s \in rows : s.labels = l => s = r
    BY <2>1
  <2>8. QED
    BY <1>0, <2>1, <2>6, <2>7 DEF more, added, new, p
<1>3. QED
  BY <1>1, <1>2

\* What Added gives for a set of labels.
LabelsOf(sofar, rows) == DOMAIN sofar \union {r.labels : r \in rows}

\* Each set of labels, old or new, has its samples so far and then what the rows add.
LEMMA AddedIs ==
  ASSUME NEW sofar, NEW rows, NEW t
  PROVE  /\ DOMAIN Added(sofar, rows, t) = LabelsOf(sofar, rows)
         /\ \A l \in DOMAIN Added(sofar, rows, t) :
              Added(sofar, rows, t)[l] = OldOf(sofar, l) \o NewOf(rows, l, t)
BY DEF Added, OldOf, NewOf, LabelsOf

\* Accumulated series show one time more when rows are added that are shown at it.
LEMMA AddedShows ==
  ASSUME NEW sofar, NEW f, NEW T \in SUBSET Int, Shows(AsSeries(sofar), f, T),
         NEW t \in Int, \A u \in T : u < t,
         NEW rows, IsFiniteSet(rows), \A r, s \in rows : r.labels = s.labels => r = s,
         f[t] = {[labels |-> r.labels, v |-> r.v] : r \in rows}
  PROVE  Shows(AsSeries(Added(sofar, rows, t)), f, T \union {t})
<1> DEFINE old(l) == OldOf(sofar, l)
           more == Added(sofar, rows, t)
           mine(l) == \E r \in rows : r.labels = l
<1>1. /\ DOMAIN more = DOMAIN sofar \union {r.labels : r \in rows}
      /\ \A l \in DOMAIN more : more[l] = old(l) \o NewOf(rows, l, t)
  <2>1. DOMAIN Added(sofar, rows, t) = LabelsOf(sofar, rows)
    BY AddedIs
  <2>2. \A l \in DOMAIN Added(sofar, rows, t) :
          Added(sofar, rows, t)[l] = OldOf(sofar, l) \o NewOf(rows, l, t)
    BY AddedIs
  <2>3. QED
    BY <2>1, <2>2 DEF LabelsOf
<1>2. \A l \in DOMAIN sofar :
        sofar[l] # <<>> /\ InTime(sofar[l]) /\ \A p \in ToSet(sofar[l]) : p.t \in T
  <2>1. SUFFICES ASSUME NEW l \in DOMAIN sofar
                 PROVE  sofar[l] # <<>> /\ InTime(sofar[l]) /\ \A p \in ToSet(sofar[l]) : p.t \in T
    OBVIOUS
  <2> DEFINE s == [labels |-> l, samples |-> sofar[l]]
  <2>2. s \in AsSeries(sofar) /\ s.samples = sofar[l]
    BY DEF AsSeries
  <2> HIDE DEF s
  <2>3. s.samples # <<>> /\ InTime(s.samples) /\ \A p \in ToSet(s.samples) : p.t \in T
    BY <2>2 DEF Shows, Orderly, SeriesSet
  <2>4. QED
    BY <2>2, <2>3
<1>3. \A l : InTime(old(l)) /\ (\A p \in ToSet(old(l)) : p.t < t /\ p.t \in T)
  <2>1. SUFFICES ASSUME NEW l
                 PROVE  InTime(old(l)) /\ \A p \in ToSet(old(l)) : p.t < t /\ p.t \in T
    OBVIOUS
  <2>2. CASE l \in DOMAIN sofar
    BY <2>2, <1>2 DEF OldOf
  <2>3. CASE l \notin DOMAIN sofar
    BY <2>3, NothingInTime DEF OldOf
  <2>4. QED
    BY <2>2, <2>3
<1>4. \A l \in DOMAIN sofar : old(l) = sofar[l] /\ old(l) # <<>>
  BY <1>2 DEF OldOf
<1>5. \A l : l \notin DOMAIN sofar => ToSet(old(l)) = {}
  BY NothingInTime DEF OldOf
<1> HIDE DEF more, old
<1>6. ASSUME NEW l \in DOMAIN more
      PROVE  /\ InTime(more[l]) /\ more[l] # <<>>
             /\ \A p : p \in ToSet(more[l]) <=>
                         p \in ToSet(old(l)) \/ \E r \in rows : r.labels = l /\ p = [t |-> t, v |-> r.v]
  <2> DEFINE m == old(l) \o NewOf(rows, l, t)
  <2>1. /\ InTime(m)
        /\ \A p : p \in ToSet(m) <=>
                    p \in ToSet(old(l)) \/ \E r \in rows : r.labels = l /\ p = [t |-> t, v |-> r.v]
        /\ old(l) # <<>> \/ mine(l) => m # <<>>
    BY <1>3, OneAdded
  <2>2. m = more[l]
    BY <1>1, <1>6
  <2> HIDE DEF m
  <2>3. old(l) # <<>> \/ mine(l)
    BY <1>1, <1>4, <1>6
  <2>4. QED
    BY <2>1, <2>2, <2>3
<1>7. Orderly(AsSeries(more))
  <2>1. IsFiniteSet(DOMAIN more)
    <3>1. IsFiniteSet(DOMAIN sofar)
      BY LabelsAreFinite DEF Shows, Orderly
    <3>2. IsFiniteSet({r.labels : r \in rows})
      <4> DEFINE g == [r \in rows |-> r.labels]
      <4>1. IsFiniteSet(DOMAIN g) /\ g = [r \in DOMAIN g |-> g[r]] /\ {g[r] : r \in DOMAIN g} = {r.labels : r \in rows}
        OBVIOUS
      <4> HIDE DEF g
      <4>2. QED
        BY <4>1, ImageIsFinite
    <3>3. IsFiniteSet(DOMAIN sofar \union {r.labels : r \in rows})
      BY <3>1, <3>2, FS_Union
    <3>4. QED
      BY <1>1, <3>3
  <2>2. IsFiniteSet(AsSeries(more))
    BY <2>1, SeriesAreFinite
  <2>3. \A s \in AsSeries(more) : s.labels \in DOMAIN more /\ s = [labels |-> s.labels, samples |-> more[s.labels]]
    BY DEF AsSeries
  <2>4. SeriesSet(AsSeries(more)) /\ \A s \in AsSeries(more) : InTime(s.samples)
    BY <2>3, <1>6 DEF SeriesSet
  <2>5. QED
    BY <2>2, <2>3, <2>4 DEF Orderly
<1>8. ASSUME NEW s \in AsSeries(more), NEW p \in ToSet(s.samples)  PROVE p.t \in T \union {t}
  <2>1. PICK l \in DOMAIN more : s.samples = more[l]
    BY DEF AsSeries
  <2>2. p \in ToSet(old(l)) \/ \E r \in rows : r.labels = l /\ p = [t |-> t, v |-> r.v]
    BY <2>1, <1>6, <1>8
  <2>3. QED
    BY <2>2, <1>3
<1>9. ASSUME NEW u \in T  PROVE VecAt(AsSeries(more), u) = f[u]
  <2>1. u # t
    BY <1>9
  <2>2. f[u] = VecAt(AsSeries(sofar), u)
    BY DEF Shows
  <2>3. ASSUME NEW r \in VecAt(AsSeries(more), u)  PROVE r \in VecAt(AsSeries(sofar), u)
    <3>1. PICK l \in DOMAIN more : \E p \in ToSet(more[l]) : p.t = u /\ r = [labels |-> l, v |-> p.v]
      BY <2>3, VecOfIs
    <3>2. PICK p \in ToSet(more[l]) : p.t = u /\ r = [labels |-> l, v |-> p.v]
      BY <3>1
    <3>3. p \in ToSet(old(l))
      BY <3>2, <2>1, <1>6
    <3>4. l \in DOMAIN sofar /\ old(l) = sofar[l]
      BY <3>3, <1>4, <1>5
    <3>5. QED
      BY <3>2, <3>3, <3>4, VecOfIs
  <2>4. ASSUME NEW r \in VecAt(AsSeries(sofar), u)  PROVE r \in VecAt(AsSeries(more), u)
    <3>1. PICK l \in DOMAIN sofar : \E p \in ToSet(sofar[l]) : p.t = u /\ r = [labels |-> l, v |-> p.v]
      BY <2>4, VecOfIs
    <3>2. PICK p \in ToSet(sofar[l]) : p.t = u /\ r = [labels |-> l, v |-> p.v]
      BY <3>1
    <3>3. l \in DOMAIN more /\ p \in ToSet(more[l])
      BY <3>2, <1>1, <1>4, <1>6
    <3>4. QED
      BY <3>2, <3>3, VecOfIs
  <2>5. QED
    BY <2>2, <2>3, <2>4
<1>10. VecAt(AsSeries(more), t) = f[t]
  <2>1. ASSUME NEW r \in VecAt(AsSeries(more), t)
        PROVE  \E w \in rows : r = [labels |-> w.labels, v |-> w.v]
    <3>1. PICK l \in DOMAIN more : \E p \in ToSet(more[l]) : p.t = t /\ r = [labels |-> l, v |-> p.v]
      BY <2>1, VecOfIs
    <3>2. PICK p \in ToSet(more[l]) : p.t = t /\ r = [labels |-> l, v |-> p.v]
      BY <3>1
    <3>3. p \notin ToSet(old(l))
      BY <3>2, <1>3
    <3>4. PICK w \in rows : w.labels = l /\ p = [t |-> t, v |-> w.v]
      BY <3>2, <3>3, <1>6
    <3>5. QED
      BY <3>2, <3>4
  <2>2. ASSUME NEW w \in rows  PROVE [labels |-> w.labels, v |-> w.v] \in VecAt(AsSeries(more), t)
    <3> DEFINE p == [t |-> t, v |-> w.v]
    <3>1. w.labels \in DOMAIN more
      BY <1>1
    <3>2. p \in ToSet(more[w.labels]) /\ p.t = t /\ p.v = w.v
      BY <3>1, <1>6
    <3> HIDE DEF p
    <3>3. QED
      BY <3>1, <3>2, VecOfIs
  <2>3. QED
    BY <2>1, <2>2
<1>11. QED
  BY <1>7, <1>8, <1>9, <1>10 DEF Shows, more

\* Nothing is shown by nothing at no time.
LEMMA EmptyShows ==
  ASSUME NEW f
  PROVE  Shows(AsSeries(Empty), f, {}) /\ AsSeries(Empty) = {} /\ DOMAIN Empty = {}
<1>1. DOMAIN Empty = {} /\ AsSeries(Empty) = {}
  BY DEF Empty, AsSeries
<1>2. QED
  BY <1>1, FS_EmptySet DEF Shows, Orderly, SeriesSet

\* Where nothing is to be shown, more times can be named.
LEMMA ShowsMore ==
  ASSUME NEW series, NEW f, NEW T, NEW U, Shows(series, f, U), U \subseteq T,
         \A t \in T \ U : f[t] = {}
  PROVE  Shows(series, f, T)
<1>1. ASSUME NEW t \in T \ U  PROVE VecAt(series, t) = {}
  <2>1. \A s \in series : \A p \in ToSet(s.samples) : p.t # t
    BY <1>1 DEF Shows
  <2>2. \A r : r \notin VecAt(series, t)
    BY <2>1, VecAtIs
  <2>3. QED
    BY <2>2
<1>2. QED
  BY <1>1 DEF Shows

\* And the function may be any that has the same rows.
LEMMA ShowsSame ==
  ASSUME NEW series, NEW f, NEW g, NEW T, Shows(series, f, T), \A t \in T : f[t] = g[t]
  PROVE  Shows(series, g, T)
BY DEF Shows

\* The points of series that show rows are those rows.
LEMMA PointsAre ==
  ASSUME NEW series, NEW f, NEW T, Shows(series, f, T)
  PROVE  Points(series) = UNION {{<<r.labels, t, r.v>> : r \in f[t]} : t \in T}
<1>1. ASSUME NEW x \in Points(series)  PROVE \E t \in T : \E r \in f[t] : x = <<r.labels, t, r.v>>
  <2>1. PICK s \in series : \E p \in ToSet(s.samples) : x = <<s.labels, p.t, p.v>>
    BY <1>1 DEF Points
  <2>2. PICK p \in ToSet(s.samples) : x = <<s.labels, p.t, p.v>>
    BY <2>1
  <2> DEFINE r == [labels |-> s.labels, v |-> p.v]
  <2>3. p.t \in T
    BY DEF Shows
  <2>4. r \in f[p.t]
    BY <2>3, VecAtIs DEF Shows
  <2>5. r.labels = s.labels /\ r.v = p.v
    OBVIOUS
  <2> HIDE DEF r
  <2>6. QED
    BY <2>2, <2>3, <2>4, <2>5
<1>2. ASSUME NEW t \in T, NEW r \in f[t]  PROVE <<r.labels, t, r.v>> \in Points(series)
  <2>1. r \in VecAt(series, t)
    BY <1>2 DEF Shows
  <2>2. PICK s \in series : \E p \in ToSet(s.samples) : p.t = t /\ r = [labels |-> s.labels, v |-> p.v]
    BY <2>1, VecAtIs
  <2>3. QED
    BY <2>2 DEF Points
<1>3. QED
  BY <1>1, <1>2

\* Accumulated samples, whatever their times.
Accumulated(sofar) == \A l \in DOMAIN sofar : sofar[l] \in Seq(ToSet(sofar[l])) /\ sofar[l] # <<>>

\* Whatever rows are added, no series is without samples.
LEMMA AddedAccumulates ==
  ASSUME NEW sofar, Accumulated(sofar), NEW rows, IsFiniteSet(rows), NEW t
  PROVE  Accumulated(Added(sofar, rows, t))
<1> DEFINE more == Added(sofar, rows, t)
<1>1. \A l \in DOMAIN more : more[l] = OldOf(sofar, l) \o NewOf(rows, l, t)
  BY AddedIs
<1>2. DOMAIN more = LabelsOf(sofar, rows)
  BY AddedIs
<1> HIDE DEF more
<1>3. ASSUME NEW l \in DOMAIN more  PROVE more[l] \in Seq(ToSet(more[l])) /\ more[l] # <<>>
  <2> DEFINE mine == {r \in rows : r.labels = l}
             new == SetToSeq(mine)
             a == OldOf(sofar, l)
             b == NewOf(rows, l, t)
             V == ToSet(a) \union ToSet(b)
             m == a \o b
  <2>1. IsFiniteSet(mine)
    BY FS_Subset
  <2> HIDE DEF mine
  <2>2. new \in Seq(mine) /\ ToSet(new) = mine
    BY <2>1, SetToSeqIs
  <2>3. b = [i \in DOMAIN new |-> [t |-> t, v |-> new[i].v]]
    BY DEF NewOf, mine
  <2> HIDE DEF new, b
  <2>4. Len(new) \in Nat /\ DOMAIN new = 1..Len(new)
    BY <2>2, LenProperties
  <2>5. b \in [1..Len(new) -> ToSet(b)] /\ DOMAIN b = 1..Len(new)
    BY <2>3, <2>4 DEF ToSet
  <2>6. b \in Seq(ToSet(b)) /\ Len(b) = Len(new)
    <3>1. b \in Seq(ToSet(b))
      BY <2>4, <2>5, SeqDef
    <3>2. QED
      BY <3>1, <2>4, <2>5, LenProperties
  <2>7. a \in Seq(ToSet(a))
    BY NothingInTime DEF OldOf, Accumulated, InTime
  <2>8. a # <<>> \/ b # <<>>
    <3>1. CASE l \in DOMAIN sofar
      BY <3>1 DEF OldOf, Accumulated
    <3>2. CASE l \notin DOMAIN sofar
      <4>1. \E r \in rows : r.labels = l
        BY <1>2, <1>3, <3>2 DEF LabelsOf
      <4>2. mine # {}
        BY <4>1 DEF mine
      <4>3. DOMAIN new # {}
        BY <4>2, <2>2 DEF ToSet
      <4>4. DOMAIN b # {}
        BY <4>3, <2>3
      <4>5. QED
        BY <4>4
    <3>3. QED
      BY <3>1, <3>2
  <2> HIDE DEF a
  <2>9. a \in Seq(V) /\ b \in Seq(V)
    <3>1. a \in [1..Len(a) -> ToSet(a)] /\ Len(a) \in Nat
      BY <2>7, LenProperties
    <3>2. a \in [1..Len(a) -> V] /\ b \in [1..Len(new) -> V]
      BY <3>1, <2>5
    <3>3. QED
      BY <3>1, <3>2, <2>4, SeqDef
  <2> HIDE DEF V
  <2>10. m \in Seq(V) /\ Len(m) = Len(a) + Len(b) /\ Len(a) \in Nat /\ Len(b) \in Nat
    BY <2>9, ConcatProperties, LenProperties
  <2>11. Len(m) # 0
    BY <2>8, <2>9, <2>10, EmptySeq
  <2> HIDE DEF m
  <2>12. m \in Seq(ToSet(m)) /\ m # <<>>
    <3>1. Len(m) \in Nat /\ m \in [1..Len(m) -> V] /\ DOMAIN m = 1..Len(m)
      BY <2>10, LenProperties
    <3>2. m \in [1..Len(m) -> ToSet(m)]
      BY <3>1 DEF ToSet
    <3>3. m \in Seq(ToSet(m))
      BY <3>1, <3>2, SeqDef
    <3>4. QED
      BY <3>3, <2>10, <2>11, EmptySeq
  <2>13. m = more[l]
    BY <1>1, <1>3 DEF m, a, b
  <2>14. QED
    BY <2>12, <2>13
<1>4. QED
  BY <1>3 DEF Accumulated, more

\* An operation with numbers has at most one value.
LEMMA OperationIsOne ==
  ASSUME NEW op \in {"-", ">"} \union SetOps, NEW bool, NEW a, NEW b
  PROVE  \A x, y \in Value(op, bool, a, b) : x = y
<1>1. \A x, y \in ApplyBinaryOp(op, a, b) : x = y
  BY DEF ApplyBinaryOp, SetOps
<1>2. QED
  BY <1>1 DEF Value

\* The rows that a literal makes of others.
RowsWithNumber(q, rows, scalar, onLeft) ==
  UNION {{[labels |-> r.labels, v |-> x] :
            x \in IF onLeft THEN Value(q.op, q.bool, scalar, r.v) ELSE Value(q.op, q.bool, r.v, scalar)}
           : r \in rows}

\* applyScalarBinary shows what the literal makes of the rows at each time.
LEMMA ScalarShows ==
  ASSUME NEW series, NEW f, NEW T, Shows(series, f, T),
         query.op \in {"-", ">"} \union SetOps, NEW scalar, NEW onLeft, NEW g,
         \A t \in T : g[t] = RowsWithNumber(query, f[t], scalar, onLeft)
  PROVE  Shows(ApplyScalarBinary(series, scalar, onLeft), g, T)
<1> DEFINE Of(x) == IF onLeft THEN Value(query.op, query.bool, scalar, x)
                    ELSE Value(query.op, query.bool, x, scalar)
           vals(s) == [i \in DOMAIN s.samples |-> {[t |-> s.samples[i].t, v |-> x] : x \in Of(s.samples[i].v)}]
           rec(s) == [labels |-> s.labels, samples |-> Present(vals(s))]
           all == {rec(s) : s \in series}
           A == ApplyScalarBinary(series, scalar, onLeft)
<1>1. A = {s \in all : s.samples # <<>>}
  BY DEF ApplyScalarBinary
<1>2. \A a : \A x, y \in Of(a) : x = y
  BY OperationIsOne
<1>3. \A t \in T : \A r : r \in g[t] <=> \E w \in f[t] : \E x \in Of(w.v) : r = [labels |-> w.labels, v |-> x]
  BY DEF RowsWithNumber
<1> HIDE DEF Of, A
<1>4. ASSUME NEW s \in series
      PROVE  /\ InTime(Present(vals(s)))
             /\ \A p : p \in ToSet(Present(vals(s))) <=>
                         \E r \in ToSet(s.samples) : \E x \in Of(r.v) : p = [t |-> r.t, v |-> x]
  <2> DEFINE ss == s.samples
             n == Len(ss)
             w == vals(s)
             ts == [i \in 1..n |-> ss[i].t]
  <2>1. /\ n \in Nat /\ DOMAIN ss = 1..n /\ ToSet(ss) = {ss[i] : i \in 1..n}
        /\ \A i \in 1..n : ss[i].t \in Int
        /\ \A i, j \in 1..n : i < j => ss[i].t < ss[j].t
    BY <1>4, SamplesAre DEF Shows, Orderly
  <2>2. w = [i \in DOMAIN ss |-> {[t |-> ss[i].t, v |-> x] : x \in Of(ss[i].v)}]
    OBVIOUS
  <2> HIDE DEF n, ss, w
  <2>3. DOMAIN w = 1..n /\ \A i \in 1..n : w[i] = {[t |-> ss[i].t, v |-> x] : x \in Of(ss[i].v)}
    BY <2>1, <2>2
  <2>4. \A i \in 1..n : \A p \in w[i] : p.t = ts[i]
    BY <2>3
  <2>5. \A i \in 1..n : \A p, r \in w[i] : p = r
    BY <2>3, <1>2
  <2>6. /\ \A i \in 1..n : ts[i] \in Int
        /\ \A i, j \in 1..n : i < j => ts[i] < ts[j]
    BY <2>1
  <2> HIDE DEF ts
  <2>7. InTime(Present(w)) /\ ToSet(Present(w)) = UNION {w[i] : i \in 1..n}
    BY <2>1, <2>3, <2>4, <2>5, <2>6, PresentIs
  <2>8. ASSUME NEW p
        PROVE  p \in ToSet(Present(w)) <=>
                 \E r \in ToSet(ss) : \E x \in Of(r.v) : p = [t |-> r.t, v |-> x]
    <3>1. p \in ToSet(Present(w)) <=> \E i \in 1..n : p \in w[i]
      BY <2>7
    <3>2. \A i \in 1..n : p \in w[i] <=> \E x \in Of(ss[i].v) : p = [t |-> ss[i].t, v |-> x]
      BY <2>3
    <3>3. QED
      BY <3>1, <3>2, <2>1
  <2>9. QED
    BY <2>7, <2>8 DEF w, ss
<1> HIDE DEF vals
<1>5. \A a \in A : \E s \in series : a = rec(s)
  BY <1>1
<1>6. Orderly(A)
  <2>1. IsFiniteSet(A)
    <3> DEFINE h == [s \in series |-> rec(s)]
    <3>1. IsFiniteSet(DOMAIN h) /\ h = [s \in DOMAIN h |-> h[s]]
      BY DEF Shows, Orderly
    <3>2. {h[s] : s \in DOMAIN h} = all
      OBVIOUS
    <3> HIDE DEF h
    <3>3. IsFiniteSet(all)
      BY <3>1, <3>2, ImageIsFinite
    <3>4. QED
      BY <3>3, <1>1, FS_Subset
  <2>2. SeriesSet(A)
    BY <1>1, <1>5 DEF SeriesSet
  <2>3. \A a \in A : InTime(a.samples)
    BY <1>4, <1>5
  <2>4. ASSUME NEW a \in A, NEW b \in A, a.labels = b.labels  PROVE a = b
    <3>1. PICK r \in series, s \in series : a = rec(r) /\ b = rec(s)
      BY <1>5
    <3>2. r = s
      BY <3>1, <2>4 DEF Shows, Orderly
    <3>3. QED
      BY <3>1, <3>2
  <2>5. QED
    BY <2>1, <2>2, <2>3, <2>4 DEF Orderly
<1>7. ASSUME NEW a \in A, NEW p \in ToSet(a.samples)  PROVE p.t \in T
  <2>1. PICK s \in series : a = rec(s)
    BY <1>5
  <2>2. PICK r \in ToSet(s.samples) : p.t = r.t
    BY <1>4, <1>7, <2>1
  <2>3. QED
    BY <2>2 DEF Shows
<1>8. ASSUME NEW t \in T  PROVE VecAt(A, t) = g[t]
  <2>1. f[t] = VecAt(series, t)
    BY DEF Shows
  <2>2. ASSUME NEW r \in VecAt(A, t)  PROVE r \in g[t]
    <3>1. PICK a \in A : \E p \in ToSet(a.samples) : p.t = t /\ r = [labels |-> a.labels, v |-> p.v]
      BY <2>2, VecAtIs
    <3>2. PICK p \in ToSet(a.samples) : p.t = t /\ r = [labels |-> a.labels, v |-> p.v]
      BY <3>1
    <3>3. PICK s \in series : a = rec(s)
      BY <1>5
    <3>4. PICK o \in ToSet(s.samples) : \E x \in Of(o.v) : p = [t |-> o.t, v |-> x]
      BY <1>4, <3>2, <3>3
    <3> DEFINE w == [labels |-> s.labels, v |-> o.v]
    <3>5. w \in f[t]
      BY <2>1, <3>2, <3>4, VecAtIs
    <3>6. w.labels = a.labels /\ w.v = o.v
      BY <3>3
    <3> HIDE DEF w
    <3>7. QED
      BY <3>2, <3>4, <3>5, <3>6, <1>3
  <2>3. ASSUME NEW r \in g[t]  PROVE r \in VecAt(A, t)
    <3>1. PICK w \in f[t] : \E x \in Of(w.v) : r = [labels |-> w.labels, v |-> x]
      BY <1>3, <2>3
    <3>2. PICK x \in Of(w.v) : r = [labels |-> w.labels, v |-> x]
      BY <3>1
    <3>3. PICK s \in series : \E o \in ToSet(s.samples) : o.t = t /\ w = [labels |-> s.labels, v |-> o.v]
      BY <2>1, VecAtIs
    <3>4. PICK o \in ToSet(s.samples) : o.t = t /\ w = [labels |-> s.labels, v |-> o.v]
      BY <3>3
    <3> DEFINE p == [t |-> o.t, v |-> x]
    <3>5. p \in ToSet(Present(vals(s))) /\ p.t = t /\ p.v = x
      BY <1>4, <3>2, <3>4
    <3> HIDE DEF p
    <3>6. Present(vals(s)) # <<>>
      BY <3>5 DEF ToSet
    <3>7. rec(s) \in A
      BY <3>6, <1>1
    <3>8. rec(s).labels = w.labels /\ rec(s).samples = Present(vals(s))
      BY <3>4
    <3> HIDE DEF rec
    <3>9. QED
      BY <3>2, <3>5, <3>7, <3>8, VecAtIs
  <2>4. QED
    BY <2>2, <2>3
<1>9. QED
  BY <1>6, <1>7, <1>8 DEF Shows, A

\* The set operators make a vector of two: what `or' adds has other labels than what is there.
LEMMA SetOpIsVector ==
  ASSUME NEW op \in SetOps, NEW m, NEW lhs, IsVector(lhs), NEW rhs, IsVector(rhs)
  PROVE  IsVector(VectorSetOp(op, m, lhs, rhs))
<1> DEFINE V == VectorSetOp(op, m, lhs, rhs)
<1>1. V \subseteq lhs \/ V \subseteq lhs \union (rhs \ Matched(rhs, lhs, m))
  BY DEF VectorSetOp, SetOps, Matched
<1>2. V \subseteq lhs \union (rhs \ Matched(rhs, lhs, m))
  BY <1>1
<1> HIDE DEF V
<1>3. \A r \in lhs : \A s \in rhs \ Matched(rhs, lhs, m) : r.labels # s.labels
  BY DEF Matched, SameKey
<1>4. IsFiniteSet(lhs \union rhs)
  BY FS_Union DEF IsVector
<1>5. IsFiniteSet(V)
  BY <1>2, <1>4, FS_Subset
<1>6. \A r \in V : r = [labels |-> r.labels, v |-> r.v]
  BY <1>2 DEF IsVector
<1>7. ASSUME NEW r \in V, NEW s \in V, r.labels = s.labels  PROVE r = s
  <2>1. CASE r \in lhs /\ s \in lhs
    BY <2>1, <1>7 DEF IsVector
  <2>2. CASE r \in rhs /\ s \in rhs
    BY <2>2, <1>7 DEF IsVector
  <2>3. QED
    BY <2>1, <2>2, <1>2, <1>3, <1>7
<1>8. QED
  BY <1>5, <1>6, <1>7 DEF IsVector, V

\* A binary operation has at most one row for each pair.
LEMMA BinaryOpIsFinite ==
  ASSUME NEW op \in {"-", ">"} \union SetOps, NEW bool, NEW m,
         NEW lhs, IsFiniteSet(lhs), NEW rhs, IsFiniteSet(rhs)
  PROVE  IsFiniteSet(VectorBinaryOp(op, bool, m, lhs, rhs))
<1> DEFINE of(p) == Value(op, bool, p[1].v, p[2].v)
           row(p, x) == [labels |-> OutputLabels(p[1], p[2], m), v |-> x, of |-> p]
           P == lhs \X rhs
           g == [p \in P |-> row(p, CHOOSE x \in of(p) : TRUE)]
           B == VectorBinaryOp(op, bool, m, lhs, rhs)
<1>1. \A r \in B : \E p \in P : \E x \in of(p) : r = row(p, x)
  BY DEF VectorBinaryOp
<1>2. \A p : \A x \in of(p) : x = CHOOSE y \in of(p) : TRUE
  BY OperationIsOne
<1> HIDE DEF of, row, B
<1>3. \A r \in B : \E p \in P : r = g[p]
  BY <1>1, <1>2
<1>4. IsFiniteSet(P)
  BY FS_Product
<1> HIDE DEF P
<1>5. IsFiniteSet({g[p] : p \in DOMAIN g})
  <2>1. IsFiniteSet(DOMAIN g) /\ g = [p \in DOMAIN g |-> g[p]]
    BY <1>4
  <2> HIDE DEF g
  <2>2. QED
    BY <2>1, ImageIsFinite
<1>6. B \subseteq {g[p] : p \in DOMAIN g}
  BY <1>3
<1>7. QED
  BY <1>5, <1>6, FS_Subset DEF B

-----------------------------------------------------------------------------
(***************************************************************************)
(* One operand.                                                            *)
(***************************************************************************)
RawFun(q, e) == [t \in Int |-> RawAt(q, e, t)]
OperandFun(q, e) == [t \in Int |-> OperandAt(q, e, t)]

\* A query, one of its operands, and its steps.
LEMMA OperandIs ==
  ASSUME NEW q \in Queries, NEW x \in Used(q)
  PROVE  LET e == OperandOf(q, x)
         IN /\ q.start \in Int /\ q.end \in Int /\ q.step \in Nat
            /\ Growing(StepsOf(q)) /\ Len(StepsOf(q)) \in Nat \ {0}
            /\ IsFiniteSet(ToSet(StepsOf(q))) /\ ToSet(StepsOf(q)) \subseteq Int
            /\ \A t \in ToSet(StepsOf(q)) : t <= q.end
            /\ \A t \in Int : OperandAt(q, e, t) =
                 IF e.agg = "none" THEN RawAt(q, e, t)
                 ELSE AggregateVector(RawAt(q, e, t), e.agg, e.names, e.without)
<1> DEFINE e == OperandOf(q, x)
           s == StepsOf(q)
           n == Len(s)
<1>1. q.start \in Int /\ q.end \in Int /\ q.step \in Nat
  BY QueriesAssumption
<1>2. /\ n \in Nat \ {0} /\ DOMAIN s = 1..n /\ ToSet(s) = {s[i] : i \in 1..n}
      /\ \A i \in 1..n : s[i] \in Int /\ s[i] <= q.end
      /\ \A i, j \in 1..n : i < j => s[i] < s[j]
  BY <1>1, StepsAre
<1>3. Growing(s)
  BY <1>2 DEF Growing
<1> HIDE DEF s, n
<1>4. IsFiniteSet(ToSet(s))
  <2> DEFINE g == [i \in 1..n |-> s[i]]
  <2>1. 1 \in Int /\ n \in Int
    BY <1>2
  <2>2. IsFiniteSet(1..n)
    BY <2>1, FS_Interval
  <2>3. IsFiniteSet(DOMAIN g) /\ g = [i \in DOMAIN g |-> g[i]] /\ {g[i] : i \in DOMAIN g} = ToSet(s)
    BY <1>2, <2>2
  <2> HIDE DEF g
  <2>4. QED
    BY <2>3, ImageIsFinite
<1>5. \A t \in Int : OperandAt(q, e, t) =
        IF e.agg = "none" THEN RawAt(q, e, t)
        ELSE AggregateVector(RawAt(q, e, t), e.agg, e.names, e.without)
  <2> HIDE DEF e
  <2>1. QED
    BY DEF OperandAt, RawAt
<1>6. ToSet(s) \subseteq Int /\ \A t \in ToSet(s) : t <= q.end
  BY <1>2
<1>7. QED
  BY <1>1, <1>2, <1>3, <1>4, <1>5, <1>6 DEF s, n, e

\* buildMatrixSD shows the operand before its aggregation.
LEMMA BuiltIs ==
  ASSUME store \in Stores, NEW q \in Queries, NEW x \in Used(q)
  PROVE  LET e == OperandOf(q, x)
             all == {AtSteps(s, e, StepsOf(q)) : s \in Rows(q, e)}
             M == {s \in all : s.samples # <<>>}
         IN /\ Shows(M, RawFun(q, e), ToSet(StepsOf(q)))
            /\ \A t \in ToSet(StepsOf(q)) : VecAt(all, t) = RawAt(q, e, t) /\ IsVector(RawAt(q, e, t))
<1> DEFINE e == OperandOf(q, x)
           R == Rows(q, e)
           T == ToSet(StepsOf(q))
           all == {AtSteps(s, e, StepsOf(q)) : s \in R}
           M == {s \in all : s.samples # <<>>}
           f == RawFun(q, e)
<1>1. Orderly(R) /\ \A t \in Int : t <= q.end => RowsFrom(R, e, t) = RawAt(q, e, t)
  BY FetchedIs
<1>2. Growing(StepsOf(q)) /\ T \subseteq Int /\ \A t \in T : t <= q.end
  BY OperandIs
<1>3. \A t \in T : f[t] = RawAt(q, e, t)
  BY <1>2 DEF RawFun
<1> HIDE DEF e, R, f
<1>4. \A t \in T : f[t] = RowsFrom(R, e, t)
  BY <1>1, <1>2, <1>3
<1>5. (\A t \in T : VecAt(all, t) = f[t]) /\ Shows(M, f, T)
  <2> DEFINE steps == StepsOf(q)
  <2>1. Growing(steps) /\ Computes(f, R, e, steps)
    BY <1>2, <1>4 DEF Computes
  <2> HIDE DEF steps
  <2>2. /\ \A t \in ToSet(steps) : VecAt(Built(R, e, steps), t) = f[t]
        /\ Shows({s \in Built(R, e, steps) : s.samples # <<>>}, f, ToSet(steps))
    BY <1>1, <2>1, MatrixIs
  <2>3. QED
    BY <2>2 DEF steps, Built
<1> HIDE DEF all, M, T
<1>6. \A t \in T : IsVector(VecAt(M, t)) /\ VecAt(M, t) = f[t]
  BY <1>5, VecAtIsVector DEF Shows
<1>7. QED
  BY <1>3, <1>5, <1>6 DEF all, M, T, e, R, f

\* evalInstantSD shows the operand.
LEMMA InstantShows ==
  ASSUME store \in Stores, NEW q \in Queries, NEW x \in Used(q), Len(StepsOf(q)) = 1
  PROVE  LET e == OperandOf(q, x)
             t == Head(StepsOf(q))
             vec == VecAt({AtSteps(s, e, <<t>>) : s \in Rows(q, e)}, t)
             result == IF e.agg = "none" THEN vec ELSE AggregateVector(vec, e.agg, e.names, e.without)
         IN Shows(AsSeries(Added(Empty, result, t)), OperandFun(q, e), ToSet(StepsOf(q)))
<1> DEFINE e == OperandOf(q, x)
           t == Head(StepsOf(q))
           vec == VecAt({AtSteps(s, e, <<t>>) : s \in Rows(q, e)}, t)
           result == IF e.agg = "none" THEN vec ELSE AggregateVector(vec, e.agg, e.names, e.without)
           f == OperandFun(q, e)
<1>1. StepsOf(q) = <<t>>
  BY StepsAre, OperandIs
<1>2. ToSet(StepsOf(q)) = {t} /\ t \in Int
  <2>1. ToSet(<<t>>) = {t}
    BY DEF ToSet
  <2>2. ToSet(StepsOf(q)) = {t}
    BY <1>1, <2>1
  <2> HIDE DEF t
  <2>3. QED
    BY <2>2, OperandIs
<1>3. vec = RawAt(q, e, t) /\ IsVector(vec)
  <2>1. VecAt({AtSteps(s, e, StepsOf(q)) : s \in Rows(q, e)}, t) = RawAt(q, e, t) /\ IsVector(RawAt(q, e, t))
    BY <1>2, BuiltIs
  <2>2. QED
    BY <2>1, <1>1
<1>4. f[t] = result
  <2>1. f[t] = OperandAt(q, e, t)
    BY <1>2 DEF OperandFun
  <2>2. QED
    BY <1>2, <1>3, <2>1, OperandIs
<1> HIDE DEF vec, t, e, f
<1>5. IsVector(result)
  <2>1. IsVector(AggregateVector(vec, e.agg, e.names, e.without))
    BY <1>3, AggregateIsVector DEF IsVector
  <2>2. QED
    BY <2>1, <1>3
<1> HIDE DEF result
<1>6. f[t] = {[labels |-> r.labels, v |-> r.v] : r \in result}
  BY <1>4, <1>5 DEF IsVector
<1>7. Shows(AsSeries(Empty), f, {})
  BY EmptyShows
<1>8. Shows(AsSeries(Added(Empty, result, t)), f, {} \union {t})
  BY <1>2, <1>5, <1>6, <1>7, AddedShows DEF IsVector
<1>9. QED
  BY <1>2, <1>8 DEF vec, t, e, f, result

\* A cursor stays where it is: what lies before it is over, and it is at the next sample.
LEMMA ReachIs ==
  ASSUME NEW ss, InTime(ss), NEW c \in 1..(Len(ss) + 1), NEW t \in Int,
         \A i \in 1..Len(ss) : i >= c => ss[i].t >= t
  PROVE  Reach(ss, c, t) = c
<1> DEFINE n == Len(ss)
           S == {i \in c..(n + 1) : i <= n => ss[i].t >= t}
<1>1. n \in Nat
  BY SamplesAre
<1>2. Reach(ss, c, t) = Min(S)
  BY DEF Reach
<1> HIDE DEF n
<1>3. c \in Int /\ c >= 1 /\ c <= n + 1
  BY <1>1 DEF n
<1>4. c \in S
  <2>1. c <= n => c \in 1..n /\ c >= c
    BY <1>1, <1>3
  <2>2. c <= n => ss[c].t >= t
    BY <2>1 DEF n
  <2>3. QED
    BY <2>2, <1>1, <1>3
<1>5. IsFiniteSet(S) /\ S \in SUBSET Int /\ \A i \in S : c <= i
  <2>1. c \in Int /\ n + 1 \in Int
    BY <1>1, <1>3
  <2>2. IsFiniteSet(c..(n + 1)) /\ S \subseteq c..(n + 1)
    BY <2>1, FS_Interval
  <2>3. IsFiniteSet(S)
    BY <2>2, FS_Subset
  <2>4. QED
    BY <2>2, <2>3, <1>1, <1>3
<1> HIDE DEF S
<1>6. Min(S) \in S /\ Min(S) <= c
  BY <1>4, <1>5, ExtremesAre
<1>7. Min(S) \in Int /\ c <= Min(S)
  BY <1>5, <1>6
<1>8. QED
  BY <1>2, <1>3, <1>6, <1>7

\* The steps before all those that are left.
Before(times, q) == {t \in ToSet(StepsOf(q)) : \A u \in times : t < u}

\* The work of aggregateMatrix: the cursors are at the first samples of the times that are
\* left, and the groups show what comes before those.
Aggregates(w, q, e) ==
  /\ Shows(w.series, RawFun(q, e), ToSet(StepsOf(q)))
  /\ w.times \subseteq ToSet(StepsOf(q))
  /\ \A s \in w.series : \A p \in ToSet(s.samples) : p.t \in w.times \/ \A u \in w.times : p.t < u
  /\ \A s \in w.series : w.cursor[s] \in 1..(Len(s.samples) + 1)
  /\ \A s \in w.series : \A i \in 1..Len(s.samples) : i >= w.cursor[s] <=> s.samples[i].t \in w.times
  /\ Shows(AsSeries(w.groups), OperandFun(q, e), Before(w.times, q))

\* Where no series has a sample an aggregation has no rows.
LEMMA NoneIsShown ==
  ASSUME NEW q \in Queries, NEW x \in Used(q), OperandOf(q, x).agg # "none",
         NEW series, Shows(series, RawFun(q, OperandOf(q, x)), ToSet(StepsOf(q))),
         NEW t \in ToSet(StepsOf(q)), \A s \in series : \A p \in ToSet(s.samples) : p.t # t
  PROVE  OperandFun(q, OperandOf(q, x))[t] = {}
<1> DEFINE e == OperandOf(q, x)
<1>1. t \in Int
  BY OperandIs
<1>2. VecAt(series, t) = RawFun(q, e)[t]
  BY DEF Shows
<1>3. VecAt(series, t) = {}
  <2>1. \A r : r \notin VecAt(series, t)
    BY VecAtIs
  <2>2. QED
    BY <2>1
<1>4. RawAt(q, e, t) = {}
  BY <1>1, <1>2, <1>3 DEF RawFun
<1>5. OperandAt(q, e, t) = AggregateVector({}, e.agg, e.names, e.without)
  BY <1>1, <1>4, OperandIs
<1>6. AggregateVector({}, e.agg, e.names, e.without) = {}
  BY FS_EmptySet, AggregateIsVector
<1>7. QED
  BY <1>1, <1>5, <1>6 DEF OperandFun

\* aggregateMatrix begins at the first sample of every series, with no groups.
LEMMA AggregateBegins ==
  ASSUME NEW q \in Queries, NEW x \in Used(q), OperandOf(q, x).agg # "none", NEW w,
         Shows(w.series, RawFun(q, OperandOf(q, x)), ToSet(StepsOf(q))),
         w.cursor = [s \in w.series |-> 1],
         w.times = UNION {{p.t : p \in ToSet(s.samples)} : s \in w.series},
         w.groups = Empty
  PROVE  Aggregates(w, q, OperandOf(q, x))
<1> DEFINE e == OperandOf(q, x)
           T == ToSet(StepsOf(q))
           f == OperandFun(q, e)
           B == Before(w.times, q)
<1>1. \A t : t \in w.times <=> \E s \in w.series : \E p \in ToSet(s.samples) : t = p.t
  OBVIOUS
<1>2. w.times \subseteq T
  BY <1>1 DEF Shows
<1>3. \A s \in w.series : /\ Len(s.samples) \in Nat
                          /\ \A i \in 1..Len(s.samples) : s.samples[i] \in ToSet(s.samples)
  BY SamplesAre DEF Shows, Orderly
<1>4. \A s \in w.series : w.cursor[s] = 1
  OBVIOUS
<1>5. \A s \in w.series : w.cursor[s] \in 1..(Len(s.samples) + 1)
  BY <1>3, <1>4
<1>6. \A s \in w.series : \A i \in 1..Len(s.samples) : i >= w.cursor[s] <=> s.samples[i].t \in w.times
  BY <1>1, <1>3, <1>4
<1>7. Shows(AsSeries(w.groups), f, B)
  <2>1. Shows(AsSeries(w.groups), f, {})
    BY EmptyShows
  <2>2. ASSUME NEW t \in B  PROVE f[t] = {}
    <3>1. t \in T /\ t \in Int /\ \A u \in w.times : t < u
      BY <2>2, OperandIs DEF Before
    <3>2. t \notin w.times
      BY <3>1
    <3>3. \A s \in w.series : \A p \in ToSet(s.samples) : p.t # t
      BY <1>1, <3>2
    <3>4. QED
      BY <3>1, <3>3, NoneIsShown
  <2> HIDE DEF f, B
  <2>3. QED
    BY <2>1, <2>2, ShowsMore
<1>8. QED
  BY <1>1, <1>2, <1>5, <1>6, <1>7 DEF Aggregates

\* The work w2 is w after one round of aggregateMatrix for the operand e.
GoesOn(w, w2, e) ==
  LET t == Min(w.times)
      stop == [s \in w.series |-> Reach(s.samples, w.cursor[s], t)]
      here == {s \in w.series : IsAt(s.samples, stop[s], t)}
      vec == {[labels |-> s.labels, v |-> s.samples[stop[s]].v] : s \in here}
  IN /\ w2.series = w.series
     /\ w2.times = w.times \ {t}
     /\ w2.cursor = [s \in w.series |-> IF s \in here THEN stop[s] + 1 ELSE stop[s]]
     /\ w2.groups = Added(w.groups, AggregateVector(vec, e.agg, e.names, e.without), t)

\* A round takes the rows that the operand has at the least of the times that are left, and
\* goes on behind them.
LEMMA AggregateGoesOn ==
  ASSUME NEW q \in Queries, NEW x \in Used(q), OperandOf(q, x).agg # "none", NEW w,
         Aggregates(w, q, OperandOf(q, x)), w.times # {}, NEW w2, GoesOn(w, w2, OperandOf(q, x))
  PROVE  Aggregates(w2, q, OperandOf(q, x))
<1> DEFINE e == OperandOf(q, x)
           T == ToSet(StepsOf(q))
           S == w.series
           t == Min(w.times)
           stop == [s \in S |-> Reach(s.samples, w.cursor[s], t)]
           here == {s \in S : IsAt(s.samples, stop[s], t)}
           vec == {[labels |-> s.labels, v |-> s.samples[stop[s]].v] : s \in here}
           f == OperandFun(q, e)
<1>1. /\ IsFiniteSet(T) /\ T \subseteq Int
      /\ \A u \in Int : OperandAt(q, e, u) = AggregateVector(RawAt(q, e, u), e.agg, e.names, e.without)
  BY OperandIs
<1>2. /\ Shows(S, RawFun(q, e), T)
      /\ w.times \subseteq T
      /\ \A s \in S : \A p \in ToSet(s.samples) : p.t \in w.times \/ \A u \in w.times : p.t < u
      /\ \A s \in S : w.cursor[s] \in 1..(Len(s.samples) + 1)
      /\ \A s \in S : \A i \in 1..Len(s.samples) : i >= w.cursor[s] <=> s.samples[i].t \in w.times
      /\ Shows(AsSeries(w.groups), f, Before(w.times, q))
  BY DEF Aggregates
<1>3. t \in w.times /\ t \in T /\ t \in Int /\ \A u \in w.times : t <= u
  <2>1. IsFiniteSet(w.times) /\ w.times \in SUBSET Int
    BY <1>1, <1>2, FS_Subset
  <2>2. QED
    BY <2>1, <1>1, <1>2, ExtremesAre
<1>4. /\ w2.series = S /\ w2.times = w.times \ {t}
      /\ w2.cursor = [s \in S |-> IF s \in here THEN stop[s] + 1 ELSE stop[s]]
      /\ w2.groups = Added(w.groups, AggregateVector(vec, e.agg, e.names, e.without), t)
  BY DEF GoesOn
<1> HIDE DEF t, T, S, e, f
<1>5. \A s \in S :
        /\ InTime(s.samples)
        /\ Len(s.samples) \in Nat /\ ToSet(s.samples) = {s.samples[i] : i \in 1..Len(s.samples)}
        /\ \A i \in 1..Len(s.samples) : s.samples[i].t \in Int
        /\ \A i, j \in 1..Len(s.samples) : i < j => s.samples[i].t < s.samples[j].t
  BY <1>2, SamplesAre DEF Shows, Orderly
<1>6. \A s \in S : stop[s] = w.cursor[s]
  <2>1. SUFFICES ASSUME NEW s \in S  PROVE Reach(s.samples, w.cursor[s], t) = w.cursor[s]
    OBVIOUS
  <2> DEFINE ss == s.samples
             c == w.cursor[s]
  <2>2. InTime(ss) /\ c \in 1..(Len(ss) + 1) /\ \A i \in 1..Len(ss) : i >= c => ss[i].t >= t
    BY <1>1, <1>2, <1>3, <1>5
  <2> HIDE DEF ss, c
  <2>3. Reach(ss, c, t) = c
    BY <2>2, <1>3, ReachIs
  <2>4. QED
    BY <2>3 DEF ss, c
<1> HIDE DEF stop
<1>7. \A s \in S : s \in here <=> \E p \in ToSet(s.samples) : p.t = t
  <2>1. SUFFICES ASSUME NEW s \in S  PROVE s \in here <=> \E p \in ToSet(s.samples) : p.t = t
    OBVIOUS
  <2> DEFINE ss == s.samples
             c == w.cursor[s]
             n == Len(ss)
  <2>2. /\ n \in Nat /\ ToSet(ss) = {ss[i] : i \in 1..n} /\ c \in 1..(n + 1)
        /\ \A i \in 1..n : ss[i].t \in Int
        /\ \A i, j \in 1..n : i < j => ss[i].t < ss[j].t
        /\ \A i \in 1..n : i >= c <=> ss[i].t \in w.times
    BY <1>2, <1>5
  <2>3. s \in here <=> c <= n /\ ss[c].t = t
    BY <1>6 DEF IsAt
  <2> HIDE DEF ss, c, n
  <2>4. ASSUME c <= n, ss[c].t = t  PROVE \E p \in ToSet(ss) : p.t = t
    BY <2>2, <2>4
  <2>5. ASSUME NEW p \in ToSet(ss), p.t = t  PROVE c <= n /\ ss[c].t = t
    <3>1. PICK j \in 1..n : p = ss[j]
      BY <2>2
    <3>2. j >= c /\ j \in Int /\ c \in Int /\ j <= n
      BY <2>2, <2>5, <3>1, <1>3
    <3>3. c \in 1..n /\ c <= n
      BY <2>2, <3>2
    <3>4. ss[c].t \in w.times /\ ss[c].t \in Int
      BY <2>2, <3>3
    <3>5. t <= ss[c].t
      BY <1>3, <3>4
    <3>6. j = c \/ ss[c].t < ss[j].t
      BY <2>2, <3>2, <3>3
    <3>7. QED
      BY <2>5, <3>1, <3>3, <3>4, <3>5, <3>6, <1>3
  <2>6. QED
    BY <2>3, <2>4, <2>5 DEF ss
<1>8. \A s \in here : /\ w.cursor[s] \in 1..Len(s.samples) /\ s.samples[w.cursor[s]].t = t
                      /\ s.samples[w.cursor[s]] \in ToSet(s.samples)
  <2>1. SUFFICES ASSUME NEW s \in here
                 PROVE  /\ w.cursor[s] \in 1..Len(s.samples) /\ s.samples[w.cursor[s]].t = t
                        /\ s.samples[w.cursor[s]] \in ToSet(s.samples)
    OBVIOUS
  <2> DEFINE ss == s.samples
             c == w.cursor[s]
             n == Len(ss)
  <2>2. n \in Nat /\ ToSet(ss) = {ss[i] : i \in 1..n} /\ c \in 1..(n + 1)
    BY <1>2, <1>5
  <2>3. c <= n /\ ss[c].t = t
    BY <1>6 DEF IsAt
  <2> HIDE DEF ss, c, n
  <2>4. c \in 1..n
    BY <2>2, <2>3
  <2>5. ss[c] \in ToSet(ss)
    BY <2>2, <2>4
  <2>6. QED
    BY <2>3, <2>4, <2>5 DEF ss, c, n
<1>9. vec = VecAt(S, t)
  <2>1. \A s \in S : \A p, r \in ToSet(s.samples) : p.t = r.t => p = r
    BY <1>5, SamplesAre
  <2>2. ASSUME NEW r \in VecAt(S, t)  PROVE r \in vec
    <3>1. PICK s \in S : \E p \in ToSet(s.samples) : p.t = t /\ r = [labels |-> s.labels, v |-> p.v]
      BY <2>2, VecAtIs
    <3>2. PICK p \in ToSet(s.samples) : p.t = t /\ r = [labels |-> s.labels, v |-> p.v]
      BY <3>1
    <3>3. s \in here /\ p = s.samples[stop[s]]
      BY <3>1, <3>2, <1>6, <1>7, <1>8, <2>1
    <3>4. QED
      BY <3>2, <3>3
  <2>3. ASSUME NEW r \in vec  PROVE r \in VecAt(S, t)
    <3>1. PICK s \in here : r = [labels |-> s.labels, v |-> s.samples[stop[s]].v]
      BY <2>3
    <3>2. s \in S /\ s.samples[stop[s]] \in ToSet(s.samples) /\ s.samples[stop[s]].t = t
      BY <1>6, <1>8
    <3>3. QED
      BY <3>1, <3>2, VecAtIs
  <2>4. QED
    BY <2>2, <2>3
<1> HIDE DEF vec
<1>10. IsVector(vec) /\ vec = RawAt(q, e, t)
  <2>1. IsVector(VecAt(S, t))
    BY <1>2, VecAtIsVector DEF Shows
  <2>2. VecAt(S, t) = RawFun(q, e)[t]
    BY <1>2, <1>3 DEF Shows
  <2>3. QED
    BY <1>3, <1>9, <2>1, <2>2 DEF RawFun
<1> DEFINE rows == AggregateVector(vec, e.agg, e.names, e.without)
           groups == Added(w.groups, rows, t)
           B == Before(w.times, q)
<1>11. Shows(AsSeries(groups), f, B \union {t})
  <2>1. IsVector(rows)
    BY <1>10, AggregateIsVector DEF IsVector
  <2>2. f[t] = rows
    BY <1>1, <1>3, <1>10 DEF OperandFun, f
  <2> HIDE DEF rows
  <2>3. f[t] = {[labels |-> r.labels, v |-> r.v] : r \in rows}
    BY <2>1, <2>2 DEF IsVector
  <2>4. B \in SUBSET Int /\ \A u \in B : u < t
    BY <1>1, <1>3 DEF Before, T
  <2> HIDE DEF B
  <2>5. Shows(AsSeries(w.groups), f, B)
    BY <1>2 DEF B
  <2>6. IsFiniteSet(rows) /\ \A r, s \in rows : r.labels = s.labels => r = s
    BY <2>1 DEF IsVector
  <2>7. QED
    BY <2>3, <2>4, <2>5, <2>6, <1>3, AddedShows
<1>12. Shows(AsSeries(w2.groups), f, Before(w2.times, q))
  <2> DEFINE C == Before(w2.times, q)
  <2>1. B \union {t} \subseteq C
    <3>1. \A u \in w.times \ {t} : t < u
      <4>1. \A u \in w.times : u \in Int
        BY <1>1, <1>2
      <4>2. QED
        BY <4>1, <1>3
    <3>2. QED
      BY <3>1, <1>3, <1>4 DEF Before, T
  <2>2. ASSUME NEW u \in C \ (B \union {t})  PROVE f[u] = {}
    <3>1. u \in T /\ u \in Int /\ u # t /\ u \notin B /\ \A y \in w.times \ {t} : u < y
      BY <2>2, <1>1, <1>4 DEF Before, T
    <3>2. u \notin w.times
      BY <3>1
    <3>3. ~(u < t)
      <4>1. u < t => \A y \in w.times : u < y
        BY <3>1
      <4>2. QED
        BY <4>1, <3>1 DEF Before, T
    <3>4. \A s \in S : \A p \in ToSet(s.samples) : p.t # u
      BY <3>2, <3>3, <1>2, <1>3
    <3>5. QED
      BY <3>1, <3>4, <1>2, NoneIsShown DEF e, T, f
  <2>3. w2.groups = groups
    BY <1>4
  <2> HIDE DEF C, B, groups
  <2>4. Shows(AsSeries(w2.groups), f, B \union {t})
    BY <1>11, <2>3
  <2> DEFINE U == B \union {t}
  <2>5. U \subseteq C /\ (\A u \in C \ U : f[u] = {}) /\ Shows(AsSeries(w2.groups), f, U)
    BY <2>1, <2>2, <2>4
  <2> HIDE DEF U
  <2>6. Shows(AsSeries(w2.groups), f, C)
    BY <2>5, ShowsMore
  <2>7. QED
    BY <2>6 DEF C
<1>13. \A s \in S : w2.cursor[s] = IF s \in here THEN w.cursor[s] + 1 ELSE w.cursor[s]
  BY <1>4, <1>6
<1>14. \A s \in S : w2.cursor[s] \in 1..(Len(s.samples) + 1)
  <2>1. SUFFICES ASSUME NEW s \in S  PROVE w2.cursor[s] \in 1..(Len(s.samples) + 1)
    OBVIOUS
  <2> DEFINE c == w.cursor[s]
             n == Len(s.samples)
  <2>2. n \in Nat /\ c \in 1..(n + 1) /\ (s \in here => c \in 1..n)
    BY <1>2, <1>5, <1>8
  <2>3. w2.cursor[s] = IF s \in here THEN c + 1 ELSE c
    BY <1>13
  <2> HIDE DEF c, n
  <2>4. CASE s \in here
    <3>1. \A k \in Nat : \A m \in 1..k : m + 1 \in 1..(k + 1)
      OBVIOUS
    <3>2. c + 1 \in 1..(n + 1)
      BY <2>2, <2>4, <3>1
    <3>3. QED
      BY <2>3, <2>4, <3>2 DEF n
  <2>5. CASE s \notin here
    <3>1. w2.cursor[s] = c /\ c \in 1..(n + 1)
      BY <2>2, <2>3, <2>5
    <3>2. QED
      BY <3>1 DEF n
  <2>6. QED
    BY <2>4, <2>5
<1>15. ASSUME NEW s \in S, NEW i \in 1..Len(s.samples)
       PROVE  i >= w2.cursor[s] <=> s.samples[i].t \in w2.times
  <2> DEFINE ss == s.samples
             c == w.cursor[s]
             n == Len(ss)
  <2>1. /\ n \in Nat /\ i \in 1..n /\ c \in 1..(n + 1) /\ ss[i] \in ToSet(ss)
        /\ \A j, k \in 1..n : j < k => ss[j].t < ss[k].t
        /\ \A j \in 1..n : ss[j].t \in Int
        /\ i >= c <=> ss[i].t \in w.times
    BY <1>2, <1>5, <1>15
  <2>2. CASE s \in here
    <3>1. c \in 1..n /\ ss[c].t = t /\ w2.cursor[s] = c + 1
      BY <2>2, <1>8, <1>13
    <3> HIDE DEF ss, c, n
    <3>2. i = c <=> ss[i].t = t
      <4>1. i < c \/ i = c \/ c < i
        <5>1. i \in Int /\ c \in Int
          BY <2>1, <3>1
        <5>2. \A k, m \in Int : k < m \/ k = m \/ m < k
          OBVIOUS
        <5>3. QED
          BY <5>1, <5>2
      <4>2. i < c => ss[i].t < t
        BY <2>1, <3>1
      <4>3. c < i => t < ss[i].t
        BY <2>1, <3>1
      <4>4. ss[i].t \in Int
        BY <2>1
      <4>5. QED
        BY <4>1, <4>2, <4>3, <4>4, <3>1, <1>3
    <3>3. i >= c + 1 <=> i >= c /\ i # c
      <4>1. i \in Int /\ c \in Int
        BY <2>1, <3>1
      <4>2. \A k, m \in Int : k >= m + 1 <=> k >= m /\ k # m
        OBVIOUS
      <4>3. QED
        BY <4>1, <4>2
    <3>4. i >= w2.cursor[s] <=> ss[i].t \in w2.times
      BY <2>1, <3>1, <3>2, <3>3, <1>4
    <3>5. QED
      BY <3>4 DEF ss
  <2>3. CASE s \notin here
    <3>1. ss[i].t # t /\ w2.cursor[s] = c
      BY <2>1, <2>3, <1>7, <1>13
    <3>2. QED
      BY <2>1, <3>1, <1>4
  <2>4. QED
    BY <2>2, <2>3
<1>16. \A s \in S : \A p \in ToSet(s.samples) : p.t \in w2.times \/ \A u \in w2.times : p.t < u
  <2>1. SUFFICES ASSUME NEW s \in S, NEW p \in ToSet(s.samples), p.t \notin w2.times
                 PROVE  \A u \in w2.times : p.t < u
    OBVIOUS
  <2>2. CASE p.t = t
    <3>1. \A u \in w.times : u \in Int
      BY <1>1, <1>2
    <3>2. QED
      BY <2>2, <3>1, <1>3, <1>4
  <2>3. CASE p.t # t
    BY <2>1, <2>3, <1>2, <1>4
  <2>4. QED
    BY <2>2, <2>3
<1>17. w2.times \subseteq T
  BY <1>2, <1>4
<1>18. Shows(w2.series, RawFun(q, e), T)
  BY <1>2, <1>4
<1>19. QED
  <2>1. /\ \A s \in w2.series : \A p \in ToSet(s.samples) : p.t \in w2.times \/ \A u \in w2.times : p.t < u
        /\ \A s \in w2.series : w2.cursor[s] \in 1..(Len(s.samples) + 1)
        /\ \A s \in w2.series : \A i \in 1..Len(s.samples) :
             i >= w2.cursor[s] <=> s.samples[i].t \in w2.times
    BY <1>4, <1>14, <1>15, <1>16
  <2>2. QED
    BY <2>1, <1>12, <1>17, <1>18 DEF Aggregates, T, e, f

\* When no time is left the groups show the operand at all steps.
LEMMA AggregateIsDone ==
  ASSUME NEW q, NEW e, NEW w, Aggregates(w, q, e), w.times = {}
  PROVE  Shows(AsSeries(w.groups), OperandFun(q, e), ToSet(StepsOf(q)))
<1>1. Before(w.times, q) = ToSet(StepsOf(q))
  BY DEF Before
<1>2. QED
  BY <1>1 DEF Aggregates

-----------------------------------------------------------------------------
(***************************************************************************)
(* The inductive invariant.                                                *)
(***************************************************************************)
IsWork(w) == w = [stage |-> w.stage, series |-> w.series, cursor |-> w.cursor,
                  times |-> w.times, groups |-> w.groups, failed |-> w.failed]

WorksAre == side = [x \in Sides |-> side[x]] /\ \A x \in Sides : IsWork(side[x])

\* What the evaluation of an operand has found at each stage.
SideIs(x) ==
  LET w == side[x]
      e == OperandOf(query, x)
  IN /\ w.stage \in {"fetching", "fetched", "aggregating", "ready", "sent", "received"}
     /\ w.failed \in BOOLEAN
     /\ w.stage = "fetching" => w.series = {} /\ w.groups = Empty /\ ~w.failed
     /\ w.stage = "fetched" => w.series = Rows(query, e) /\ w.groups = Empty /\ ~w.failed
     /\ w.stage = "aggregating" => e.agg # "none" /\ Aggregates(w, query, e) /\ ~w.failed
     /\ w.stage \in {"ready", "sent", "received"} =>
          IF w.failed THEN w.series = {}
          ELSE Shows(w.series, OperandFun(query, e), ToSet(StepsOf(query)))

Followed ==
  /\ query \in Queries
  /\ \A x \in Sides : IF x \in Used(query) THEN SideIs(x) ELSE side[x] = NoWork

QueryFun(q) == [t \in Int |-> QueryAt(q, t)]

\* The steps that have been combined when the i-th is next.
StepsBefore(i) == {StepsOf(query)[j] : j \in 1..(i - 1)}

\* The combination shows the query at the steps before the next, unless rows collapse.
Combined ==
  /\ AllReceived /\ ~SideFailed
  /\ Used(query) = Sides /\ ~SomeScalar
  /\ at \in 1..(Len(StepsOf(query)) + 1)
  /\ Collapses \/ Shows(AsSeries(acc), QueryFun(query), StepsBefore(at))
  /\ \A t \in StepsBefore(at) : ~AmbiguousAt(query, t)

\* The answer shows the query at its steps.
Answered ==
  /\ AllReceived /\ ~SideFailed
  /\ ~TakenForScalar =>
       /\ Collapses \/ Shows(answer, QueryFun(query), ToSet(StepsOf(query)))
       /\ \A t \in ToSet(StepsOf(query)) : ~AmbiguousAt(query, t)

Deserved == cancelled \/ SideFailed \/ \E t \in ToSet(StepsOf(query)) : AmbiguousAt(query, t)

IInv ==
  /\ store \in Stores
  /\ pc \in {"idle", "waiting", "combining", "answered", "failed"}
  /\ cancelled \in BOOLEAN
  /\ WorksAre
  /\ at \in Nat /\ Accumulated(acc) /\ SeriesSet(answer)
  /\ pc = "idle" => query = <<>> /\ side = [x \in Sides |-> NoWork]
  /\ pc # "idle" => Followed
  /\ pc \in {"idle", "waiting"} => at = 1 /\ acc = Empty
  /\ pc = "combining" => Combined
  /\ pc = "answered" => Answered
  /\ pc = "failed" => Deserved

\* What is fetched and what is to be shown depend on the store alone, which stays.
LEMMA StoreStays ==
  ASSUME store' = store
  PROVE  /\ \A q, e : Rows(q, e)' = Rows(q, e)
         /\ \A q, e : RawFun(q, e)' = RawFun(q, e)
         /\ \A q, e : OperandFun(q, e)' = OperandFun(q, e)
         /\ \A q, t : QueryAt(q, t)' = QueryAt(q, t)
         /\ \A q : QueryFun(q)' = QueryFun(q)
         /\ \A q, t : AmbiguousAt(q, t)' = AmbiguousAt(q, t)
         /\ \A q, t : CollapseAt(q, t)' = CollapseAt(q, t)
<1>1. ASSUME NEW q, NEW e  PROVE Rows(q, e)' = Rows(q, e)
  BY DEF Rows
<1>2. ASSUME NEW q, NEW e  PROVE RawFun(q, e)' = RawFun(q, e)
  BY DEF RawFun, RawAt
<1>3. ASSUME NEW q, NEW e  PROVE OperandFun(q, e)' = OperandFun(q, e)
  BY DEF OperandFun, OperandAt
<1>4. ASSUME NEW q, NEW t  PROVE QueryAt(q, t)' = QueryAt(q, t)
  BY DEF QueryAt, LeftAt, RightAt, OperandAt
<1>5. ASSUME NEW q  PROVE QueryFun(q)' = QueryFun(q)
  BY DEF QueryFun, QueryAt, LeftAt, RightAt, OperandAt
<1>6. ASSUME NEW q, NEW t  PROVE AmbiguousAt(q, t)' = AmbiguousAt(q, t)
  BY DEF AmbiguousAt, LeftAt, RightAt, OperandAt
<1>7. ASSUME NEW q, NEW t  PROVE CollapseAt(q, t)' = CollapseAt(q, t)
  BY DEF CollapseAt, LeftAt, RightAt, OperandAt
<1>8. QED
  BY <1>1, <1>2, <1>3, <1>4, <1>5, <1>6, <1>7

\* An operand of which nothing changes.
LEMMA SideStays ==
  ASSUME store' = store, query' = query, NEW x, side'[x] = side[x], SideIs(x)
  PROVE  SideIs(x)'
BY StoreStays DEF SideIs, Aggregates

\* An aggregation to which an operand is set.
LEMMA AggregatesStays ==
  ASSUME store' = store, query' = query, NEW x, NEW w, side'[x] = w,
         Aggregates(w, query, OperandOf(query, x))
  PROVE  Aggregates(side[x], query, OperandOf(query, x))'
BY StoreStays DEF Aggregates

\* A side that is at work belongs to a query.
LEMMA AtWork ==
  ASSUME IInv, NEW x \in Sides, side[x].stage # "unused"
  PROVE  /\ pc # "idle" /\ store \in Stores /\ query \in Queries
         /\ x \in Used(query) /\ SideIs(x)
<1>1. NoWork.stage = "unused"
  BY DEF NoWork
<1>2. pc # "idle"
  BY <1>1 DEF IInv
<1>3. QED
  BY <1>1, <1>2 DEF IInv, Followed

\* A step of one operand keeps the invariant when it leaves that operand as it must be.
LEMMA PutKeeps ==
  ASSUME IInv, NEW x \in Sides, side[x].stage # "unused", side[x].stage # "received",
         NEW work, Put(x, work), IsWork(work), side[x].failed => work.failed,
         SideIs(x)'
  PROVE  IInv'
<1>1. pc # "idle" /\ store \in Stores /\ query \in Queries /\ x \in Used(query)
  BY AtWork
<1>2. /\ store' = store /\ pc' = pc /\ query' = query /\ at' = at /\ acc' = acc
      /\ answer' = answer /\ cancelled' = cancelled
  BY DEF Put
<1>3. WorksAre' /\ side'[x] = work /\ \A y \in Sides \ {x} : side'[y] = side[y]
  BY DEF Put, IInv, WorksAre
<1>4. Followed'
  <2>1. ASSUME NEW y \in Sides  PROVE IF y \in Used(query)' THEN SideIs(y)' ELSE side'[y] = NoWork
    <3>1. CASE y = x
      BY <3>1, <1>1, <1>2
    <3>2. CASE y # x
      BY <3>2, <1>1, <1>2, <1>3, SideStays DEF IInv, Followed
    <3>3. QED
      BY <3>1, <3>2
  <2>2. QED
    BY <2>1, <1>1, <1>2 DEF Followed
<1>5. ~AllReceived
  BY <1>1 DEF AllReceived
<1>6. pc = "failed" => Deserved'
  <2>1. SUFFICES ASSUME pc = "failed"  PROVE Deserved'
    OBVIOUS
  <2>2. cancelled \/ SideFailed \/ \E t \in ToSet(StepsOf(query)) : AmbiguousAt(query, t)
    BY <2>1 DEF IInv, Deserved
  <2>3. SideFailed => SideFailed'
    <3>1. Used(query) \subseteq Sides
      BY DEF Used
    <3>2. QED
      BY <3>1, <1>2, <1>3 DEF SideFailed
  <2>4. \A t : AmbiguousAt(query, t)' = AmbiguousAt(query, t)
    BY <1>2, StoreStays
  <2>5. QED
    BY <2>2, <2>3, <2>4, <1>2 DEF Deserved
<1>7. pc \notin {"combining", "answered"}
  BY <1>5 DEF IInv, Combined, Answered
<1>8. QED
  BY <1>1, <1>2, <1>3, <1>4, <1>6, <1>7 DEF IInv

-----------------------------------------------------------------------------
(***************************************************************************)
(* The steps of an operand.                                                *)
(***************************************************************************)

\* What the translator asked for comes back, or it is too much.
LEMMA FetchReturnsKeeps ==
  ASSUME IInv, NEW x \in Sides, FetchReturns(x)
  PROVE  IInv'
<1> DEFINE rows == Rows(query, Operand(x))
           work == IF TooManySeries(rows)
                   THEN [side[x] EXCEPT !.stage = "ready", !.failed = TRUE]
                   ELSE [side[x] EXCEPT !.stage = "fetched", !.series = rows]
<1>1. side[x].stage = "fetching" /\ Put(x, work)
  BY DEF FetchReturns
<1>2. SideIs(x) /\ x \in Used(query)
  BY <1>1, AtWork
<1>3. IsWork(side[x]) /\ side = [y \in Sides |-> side[y]]
  BY DEF IInv, WorksAre
<1>4. /\ IsWork(work) /\ work.groups = side[x].groups
      /\ IF TooManySeries(rows)
         THEN work.stage = "ready" /\ work.failed = TRUE /\ work.series = side[x].series
         ELSE work.stage = "fetched" /\ work.failed = side[x].failed /\ work.series = rows
  BY <1>3 DEF IsWork
<1> HIDE DEF work
<1>5. side'[x] = work /\ store' = store /\ query' = query
  BY <1>1, <1>3 DEF Put
<1>6. SideIs(x)'
  <2>1. rows = Rows(query, OperandOf(query, x))
    BY DEF Operand
  <2> HIDE DEF rows
  <2>2. Rows(query, OperandOf(query, x))' = rows
    BY <2>1, <1>5, StoreStays
  <2>3. QED
    BY <2>2, <1>1, <1>2, <1>4, <1>5 DEF SideIs
<1>7. side[x].failed => work.failed
  BY <1>4
<1>8. QED
  BY <1>1, <1>4, <1>6, <1>7, PutKeeps

\* An operand whose fetch fails has nothing, and is marked as failed.
LEMMA FetchFailsKeeps ==
  ASSUME IInv, NEW x \in Sides, FetchFails(x)
  PROVE  IInv'
<1> DEFINE work == [side[x] EXCEPT !.stage = "ready", !.failed = TRUE]
<1>1. side[x].stage = "fetching" /\ Put(x, work)
  BY DEF FetchFails
<1>2. SideIs(x)
  BY <1>1, AtWork
<1>3. IsWork(side[x]) /\ side = [y \in Sides |-> side[y]]
  BY DEF IInv, WorksAre
<1>4. IsWork(work) /\ work.stage = "ready" /\ work.failed = TRUE /\ work.series = side[x].series
  <2> DEFINE w == side[x]
  <2>1. w = [stage |-> w.stage, series |-> w.series, cursor |-> w.cursor,
             times |-> w.times, groups |-> w.groups, failed |-> w.failed]
    BY <1>3 DEF IsWork
  <2>2. work = [w EXCEPT !.stage = "ready", !.failed = TRUE]
    OBVIOUS
  <2> HIDE DEF w, work
  <2>3. work = [stage |-> "ready", series |-> w.series, cursor |-> w.cursor,
                times |-> w.times, groups |-> w.groups, failed |-> TRUE]
    BY <2>1, <2>2
  <2>4. QED
    BY <2>3 DEF IsWork, w
<1> HIDE DEF work
<1>5. side'[x] = work
  BY <1>1, <1>3 DEF Put
<1>6. SideIs(x)'
  BY <1>1, <1>2, <1>4, <1>5 DEF SideIs
<1>7. QED
  BY <1>1, <1>4, <1>6, PutKeeps

\* A single step.
LEMMA EvalInstantKeeps ==
  ASSUME IInv, NEW x \in Sides, EvalInstant(x)
  PROVE  IInv'
<1> DEFINE e == Operand(x)
           t == Head(StepsOf(query))
           vec == VecAt({AtSteps(s, e, <<t>>) : s \in side[x].series}, t)
           result == IF e.agg = "none" THEN vec ELSE AggregateVector(vec, e.agg, e.names, e.without)
           series == AsSeries(Added(Empty, result, t))
           work == [side[x] EXCEPT !.stage = "ready", !.series = series]
<1>1. side[x].stage = "fetched" /\ Len(StepsOf(query)) = 1 /\ Put(x, work)
  BY DEF EvalInstant
<1>2. SideIs(x) /\ x \in Used(query) /\ query \in Queries /\ store \in Stores
  BY <1>1, AtWork
<1>3. side[x].series = Rows(query, e) /\ side[x].failed = FALSE
  BY <1>1, <1>2 DEF SideIs, Operand
<1>4. Shows(series, OperandFun(query, OperandOf(query, x)), ToSet(StepsOf(query)))
  BY <1>1, <1>2, <1>3, InstantShows DEF Operand
<1> HIDE DEF series
<1>5. IsWork(side[x]) /\ side = [y \in Sides |-> side[y]]
  BY DEF IInv, WorksAre
<1>6. IsWork(work) /\ work.stage = "ready" /\ work.failed = side[x].failed /\ work.series = series
  <2> DEFINE w == side[x]
  <2>1. w = [stage |-> w.stage, series |-> w.series, cursor |-> w.cursor,
             times |-> w.times, groups |-> w.groups, failed |-> w.failed]
    BY <1>5 DEF IsWork
  <2>2. work = [w EXCEPT !.stage = "ready", !.series = series]
    OBVIOUS
  <2> HIDE DEF w, work
  <2>3. work = [stage |-> "ready", series |-> series, cursor |-> w.cursor,
                times |-> w.times, groups |-> w.groups, failed |-> w.failed]
    BY <2>1, <2>2
  <2>4. QED
    BY <2>3 DEF IsWork, w
<1> HIDE DEF work
<1>7. side'[x] = work /\ store' = store /\ query' = query
  BY <1>1, <1>5 DEF Put
<1>8. OperandFun(query, OperandOf(query, x))' = OperandFun(query, OperandOf(query, x))
  BY <1>7, StoreStays
<1>9. SideIs(x)'
  BY <1>3, <1>4, <1>6, <1>7, <1>8 DEF SideIs
<1>10. QED
  BY <1>1, <1>3, <1>6, <1>9, PutKeeps

\* All steps, series by series.
LEMMA BuildMatrixKeeps ==
  ASSUME IInv, NEW x \in Sides, BuildMatrix(x)
  PROVE  IInv'
<1> DEFINE e == Operand(x)
           T == ToSet(StepsOf(query))
           matrix == {s \in {AtSteps(s, e, StepsOf(query)) : s \in side[x].series} : s.samples # <<>>}
           stage == IF e.agg = "none" THEN "ready" ELSE "aggregating"
           cursor == [s \in matrix |-> 1]
           times == UNION {{p.t : p \in ToSet(s.samples)} : s \in matrix}
           work == [side[x] EXCEPT !.stage = stage, !.series = matrix, !.cursor = cursor, !.times = times]
<1>1. side[x].stage = "fetched" /\ Put(x, work)
  BY DEF BuildMatrix
<1>2. SideIs(x) /\ x \in Used(query) /\ query \in Queries /\ store \in Stores
  BY <1>1, AtWork
<1>3. side[x].series = Rows(query, e) /\ side[x].failed = FALSE /\ side[x].groups = Empty
  BY <1>1, <1>2 DEF SideIs, Operand
<1>4. Shows(matrix, RawFun(query, OperandOf(query, x)), T)
  BY <1>2, <1>3, BuiltIs DEF Operand
<1>5. e = OperandOf(query, x)
  BY DEF Operand
<1> HIDE DEF e, matrix
<1>6. IsWork(side[x]) /\ side = [y \in Sides |-> side[y]]
  BY DEF IInv, WorksAre
<1>7. /\ IsWork(work) /\ work.stage = stage /\ work.failed = side[x].failed /\ work.series = matrix
      /\ work.cursor = cursor /\ work.times = times /\ work.groups = side[x].groups
  <2> DEFINE w == side[x]
  <2>1. w = [stage |-> w.stage, series |-> w.series, cursor |-> w.cursor,
             times |-> w.times, groups |-> w.groups, failed |-> w.failed]
    BY <1>6 DEF IsWork
  <2>2. work = [w EXCEPT !.stage = stage, !.series = matrix, !.cursor = cursor, !.times = times]
    OBVIOUS
  <2> HIDE DEF w, work, stage, cursor, times
  <2>3. work = [stage |-> stage, series |-> matrix, cursor |-> cursor,
                times |-> times, groups |-> w.groups, failed |-> w.failed]
    BY <2>1, <2>2
  <2>4. QED
    BY <2>3 DEF IsWork, w
<1> HIDE DEF work
<1>8. side'[x] = work /\ store' = store /\ query' = query
  BY <1>1, <1>6 DEF Put
<1>9. /\ RawFun(query, OperandOf(query, x))' = RawFun(query, OperandOf(query, x))
      /\ OperandFun(query, OperandOf(query, x))' = OperandFun(query, OperandOf(query, x))
  BY <1>8, StoreStays
<1>10. CASE e.agg = "none"
  <2>1. stage = "ready"
    BY <1>10
  <2>2. OperandFun(query, OperandOf(query, x)) = RawFun(query, OperandOf(query, x))
    <3>1. \A t \in Int : OperandAt(query, OperandOf(query, x), t) = RawAt(query, OperandOf(query, x), t)
      BY <1>2, <1>5, <1>10, OperandIs
    <3>2. QED
      BY <3>1 DEF OperandFun, RawFun
  <2> HIDE DEF stage, cursor, times
  <2>3. SideIs(x)'
    BY <1>3, <1>4, <1>7, <1>8, <1>9, <2>1, <2>2 DEF SideIs
  <2>4. QED
    BY <1>1, <1>3, <1>7, <2>3, PutKeeps
<1>11. CASE e.agg # "none"
  <2>1. stage = "aggregating"
    BY <1>11
  <2>2. Aggregates(work, query, OperandOf(query, x))
    <3>1. /\ work.cursor = [s \in work.series |-> 1] /\ work.groups = Empty
          /\ work.times = UNION {{p.t : p \in ToSet(s.samples)} : s \in work.series}
      BY <1>3, <1>7
    <3> HIDE DEF stage, cursor, times
    <3>2. QED
      BY <1>2, <1>4, <1>5, <1>7, <1>11, <3>1, AggregateBegins
  <2> HIDE DEF stage, cursor, times
  <2>3. Aggregates(side[x], query, OperandOf(query, x))'
    BY <2>2, <1>8, AggregatesStays
  <2>4. SideIs(x)'
    BY <1>3, <1>5, <1>7, <1>8, <1>11, <2>1, <2>3 DEF SideIs
  <2>5. QED
    BY <1>1, <1>3, <1>7, <2>4, PutKeeps
<1>12. QED
  BY <1>10, <1>11

\* One round of the aggregation.
LEMMA AggregateStepKeeps ==
  ASSUME IInv, NEW x \in Sides, AggregateStep(x)
  PROVE  IInv'
<1> DEFINE w == side[x]
           e == Operand(x)
           t == Min(w.times)
           stop == [s \in w.series |-> Reach(s.samples, w.cursor[s], t)]
           here == {s \in w.series : IsAt(s.samples, stop[s], t)}
           vec == {[labels |-> s.labels, v |-> s.samples[stop[s]].v] : s \in here}
           times == w.times \ {t}
           cursor == [s \in w.series |-> IF s \in here THEN stop[s] + 1 ELSE stop[s]]
           groups == Added(w.groups, AggregateVector(vec, e.agg, e.names, e.without), t)
           work == [w EXCEPT !.times = times, !.cursor = cursor, !.groups = groups]
<1>1. w.stage = "aggregating" /\ w.times # {} /\ Put(x, work)
  BY DEF AggregateStep
<1>2. SideIs(x) /\ x \in Used(query) /\ query \in Queries /\ store \in Stores
  BY <1>1, AtWork
<1>3. e = OperandOf(query, x)
  BY DEF Operand
<1>4. w.failed = FALSE /\ e.agg # "none" /\ Aggregates(w, query, OperandOf(query, x))
  BY <1>1, <1>2, <1>3 DEF SideIs
<1>5. IsWork(w) /\ side = [y \in Sides |-> side[y]]
  BY DEF IInv, WorksAre
<1>6. /\ IsWork(work) /\ work.stage = w.stage /\ work.failed = w.failed /\ work.series = w.series
      /\ work.cursor = cursor /\ work.times = times /\ work.groups = groups
  <2>1. w = [stage |-> w.stage, series |-> w.series, cursor |-> w.cursor,
             times |-> w.times, groups |-> w.groups, failed |-> w.failed]
    BY <1>5 DEF IsWork
  <2>2. work = [w EXCEPT !.times = times, !.cursor = cursor, !.groups = groups]
    OBVIOUS
  <2> HIDE DEF w, work, times, cursor, groups
  <2>3. work = [stage |-> w.stage, series |-> w.series, cursor |-> cursor,
                times |-> times, groups |-> groups, failed |-> w.failed]
    BY <2>1, <2>2
  <2>4. QED
    BY <2>3 DEF IsWork
<1>7. Aggregates(work, query, OperandOf(query, x))
  <2> HIDE DEF w, e, work
  <2>1. GoesOn(w, work, OperandOf(query, x))
    BY <1>3, <1>6 DEF GoesOn
  <2>2. /\ query \in Queries /\ x \in Used(query) /\ OperandOf(query, x).agg # "none"
        /\ w.times # {} /\ Aggregates(w, query, OperandOf(query, x))
    BY <1>1, <1>2, <1>3, <1>4
  <2>3. QED
    BY <2>1, <2>2, AggregateGoesOn
<1> HIDE DEF work, times, cursor, groups
<1>8. side'[x] = work /\ store' = store /\ query' = query
  BY <1>1, <1>5 DEF Put
<1>9. Aggregates(side[x], query, OperandOf(query, x))'
  BY <1>7, <1>8, AggregatesStays
<1>10. SideIs(x)'
  BY <1>1, <1>3, <1>4, <1>6, <1>8, <1>9 DEF SideIs
<1>11. QED
  BY <1>1, <1>4, <1>6, <1>10, PutKeeps

\* The groups become the result.
LEMMA AggregateEndKeeps ==
  ASSUME IInv, NEW x \in Sides, AggregateEnd(x)
  PROVE  IInv'
<1> DEFINE w == side[x]
           series == AsSeries(w.groups)
           work == [w EXCEPT !.stage = "ready", !.series = series]
<1>1. w.stage = "aggregating" /\ w.times = {} /\ Put(x, work)
  BY DEF AggregateEnd
<1>2. SideIs(x)
  BY <1>1, AtWork
<1>3. w.failed = FALSE /\ Aggregates(w, query, OperandOf(query, x))
  BY <1>1, <1>2 DEF SideIs
<1>4. Shows(series, OperandFun(query, OperandOf(query, x)), ToSet(StepsOf(query)))
  BY <1>1, <1>3, AggregateIsDone
<1>5. IsWork(w) /\ side = [y \in Sides |-> side[y]]
  BY DEF IInv, WorksAre
<1>6. IsWork(work) /\ work.stage = "ready" /\ work.failed = w.failed /\ work.series = series
  <2>1. w = [stage |-> w.stage, series |-> w.series, cursor |-> w.cursor,
             times |-> w.times, groups |-> w.groups, failed |-> w.failed]
    BY <1>5 DEF IsWork
  <2>2. work = [w EXCEPT !.stage = "ready", !.series = series]
    OBVIOUS
  <2> HIDE DEF w, work, series
  <2>3. work = [stage |-> "ready", series |-> series, cursor |-> w.cursor,
                times |-> w.times, groups |-> w.groups, failed |-> w.failed]
    BY <2>1, <2>2
  <2>4. QED
    BY <2>3 DEF IsWork
<1> HIDE DEF work, series
<1>7. side'[x] = work /\ store' = store /\ query' = query
  BY <1>1, <1>5 DEF Put
<1>8. OperandFun(query, OperandOf(query, x))' = OperandFun(query, OperandOf(query, x))
  BY <1>7, StoreStays
<1>9. SideIs(x)'
  BY <1>3, <1>4, <1>6, <1>7, <1>8 DEF SideIs
<1>10. QED
  BY <1>1, <1>3, <1>6, <1>9, PutKeeps

\* A result that is passed on is the same result.
LEMMA PassOnKeeps ==
  ASSUME IInv, NEW x \in Sides, side[x].stage \in {"ready", "sent"}, NEW stage \in {"sent", "received"},
         Put(x, [side[x] EXCEPT !.stage = stage])
  PROVE  IInv'
<1> DEFINE w == side[x]
           work == [w EXCEPT !.stage = stage]
<1>1. SideIs(x)
  BY AtWork
<1>2. IsWork(w) /\ side = [y \in Sides |-> side[y]]
  BY DEF IInv, WorksAre
<1>3. IsWork(work) /\ work.stage = stage /\ work.failed = w.failed /\ work.series = w.series
  <2>1. w = [stage |-> w.stage, series |-> w.series, cursor |-> w.cursor,
             times |-> w.times, groups |-> w.groups, failed |-> w.failed]
    BY <1>2 DEF IsWork
  <2>2. work = [w EXCEPT !.stage = stage]
    OBVIOUS
  <2> HIDE DEF w, work
  <2>3. work = [stage |-> stage, series |-> w.series, cursor |-> w.cursor,
                times |-> w.times, groups |-> w.groups, failed |-> w.failed]
    BY <2>1, <2>2
  <2>4. QED
    BY <2>3 DEF IsWork
<1>4. Put(x, work)
  OBVIOUS
<1> HIDE DEF work
<1>5. side'[x] = work /\ store' = store /\ query' = query
  BY <1>2, <1>4 DEF Put
<1>6. OperandFun(query, OperandOf(query, x))' = OperandFun(query, OperandOf(query, x))
  BY <1>5, StoreStays
<1>7. SideIs(x)'
  BY <1>1, <1>3, <1>5, <1>6 DEF SideIs
<1>8. QED
  BY <1>3, <1>4, <1>7, PutKeeps

\* No step of an operand breaks the invariant.
LEMMA OperateKeeps ==
  ASSUME IInv, NEW x \in Sides, Operate(x)
  PROVE  IInv'
<1>1. CASE FetchReturns(x)
  BY <1>1, FetchReturnsKeeps
<1>2. CASE FetchFails(x)
  BY <1>2, FetchFailsKeeps
<1>3. CASE EvalInstant(x)
  BY <1>3, EvalInstantKeeps
<1>4. CASE BuildMatrix(x)
  BY <1>4, BuildMatrixKeeps
<1>5. CASE AggregateStep(x)
  BY <1>5, AggregateStepKeeps
<1>6. CASE AggregateEnd(x)
  BY <1>6, AggregateEndKeeps
<1>7. CASE Send(x)
  BY <1>7, PassOnKeeps DEF Send
<1>8. QED
  BY <1>1, <1>2, <1>3, <1>4, <1>5, <1>6, <1>7 DEF Operate

-----------------------------------------------------------------------------
(***************************************************************************)
(* The steps of the request.                                               *)
(***************************************************************************)

\* A query of two series, what it is at an instant.
LEMMA BothAre ==
  ASSUME NEW q \in Queries, Used(q) = Sides
  PROVE  /\ q.op \in {"-", ">"} \union SetOps
         /\ \A t : QueryAt(q, t) =
              IF q.op \in SetOps THEN VectorSetOp(q.op, q.match, LeftAt(q, t), RightAt(q, t))
              ELSE {[labels |-> r.labels, v |-> r.v] :
                      r \in VectorBinaryOp(q.op, q.bool, q.match, LeftAt(q, t), RightAt(q, t))}
<1>1. q.op \in {"none", "-", ">"} \union SetOps
  BY QueriesAssumption
<1>2. "left" \in Used(q) /\ "right" \in Used(q)
  BY DEF Sides
<1>3. q.left.kind = "series" /\ IsBinary(q) /\ q.right.kind = "series"
  BY <1>2 DEF Used
<1>4. q.op \in {"-", ">"} \union SetOps
  BY <1>1, <1>3 DEF IsBinary
<1>5. ASSUME NEW t
      PROVE  QueryAt(q, t) =
              IF q.op \in SetOps THEN VectorSetOp(q.op, q.match, LeftAt(q, t), RightAt(q, t))
              ELSE {[labels |-> r.labels, v |-> r.v] :
                      r \in VectorBinaryOp(q.op, q.bool, q.match, LeftAt(q, t), RightAt(q, t))}
  BY <1>3 DEF QueryAt
<1>6. QED
  BY <1>4, <1>5

\* A query of one series.
LEMMA LeafIs ==
  ASSUME NEW q \in Queries, ~IsBinary(q)
  PROVE  /\ "left" \in Used(q) /\ Used(q) # Sides /\ OperandOf(q, "left") = q.left
         /\ \A t : QueryAt(q, t) = OperandAt(q, q.left, t)
<1>1. Used(q) # {} /\ "right" \notin Used(q) /\ Used(q) \subseteq Sides
  BY QueriesAssumption DEF Used
<1>2. "left" \in Used(q) /\ Used(q) # Sides
  BY <1>1 DEF Sides
<1>3. QED
  BY <1>2 DEF QueryAt, LeftAt, OperandOf

\* A query with a literal.
LEMMA NumberIs ==
  ASSUME NEW q \in Queries, IsBinary(q), Used(q) # Sides
  PROVE  /\ q.op \in {"-", ">"} \union SetOps
         /\ q.right.kind = "number" =>
              /\ "left" \in Used(q) /\ OperandOf(q, "left") = q.left
              /\ \A t : QueryAt(q, t) = RowsWithNumber(q, OperandAt(q, q.left, t), q.right.v, FALSE)
         /\ q.right.kind # "number" =>
              /\ "right" \in Used(q) /\ OperandOf(q, "right") = q.right
              /\ \A t : QueryAt(q, t) = RowsWithNumber(q, OperandAt(q, q.right, t), q.left.v, TRUE)
<1>1. /\ q.op \in {"none", "-", ">"} \union SetOps
      /\ q.left.kind \in {"number", "series"} /\ q.right.kind \in {"number", "series"}
      /\ Used(q) # {} /\ Used(q) \subseteq Sides
  BY QueriesAssumption DEF Used
<1>2. q.op \in {"-", ">"} \union SetOps
  BY <1>1 DEF IsBinary
<1>3. CASE q.right.kind = "number"
  <2>1. "right" \notin Used(q)
    BY <1>3 DEF Used
  <2>2. "left" \in Used(q) /\ OperandOf(q, "left") = q.left
    BY <1>1, <2>1 DEF Sides, OperandOf
  <2>3. q.left.kind = "series"
    BY <2>2 DEF Used
  <2>4. ASSUME NEW t
        PROVE  QueryAt(q, t) = RowsWithNumber(q, OperandAt(q, q.left, t), q.right.v, FALSE)
    <3>1. QueryAt(q, t) = UNION {{[labels |-> r.labels, v |-> x] : x \in Value(q.op, q.bool, r.v, q.right.v)}
                                  : r \in LeftAt(q, t)}
      BY <1>3, <2>3 DEF QueryAt, WithNumber
    <3>2. RowsWithNumber(q, LeftAt(q, t), q.right.v, FALSE) =
            UNION {{[labels |-> r.labels, v |-> x] : x \in Value(q.op, q.bool, r.v, q.right.v)}
                     : r \in LeftAt(q, t)}
      BY DEF RowsWithNumber
    <3>3. QED
      BY <3>1, <3>2 DEF LeftAt
  <2>5. QED
    BY <1>2, <1>3, <2>2, <2>4
<1>4. CASE q.right.kind # "number"
  <2>1. q.right.kind = "series" /\ "right" \in Used(q)
    BY <1>1, <1>4 DEF Used, Sides
  <2>2. "left" \notin Used(q)
    BY <1>1, <2>1 DEF Sides
  <2>3. q.left.kind = "number"
    BY <1>1, <2>2 DEF Used, Sides
  <2>4. OperandOf(q, "right") = q.right
    BY DEF OperandOf
  <2>5. ASSUME NEW t
        PROVE  QueryAt(q, t) = RowsWithNumber(q, OperandAt(q, q.right, t), q.left.v, TRUE)
    BY <1>4, <2>3 DEF QueryAt, WithNumber, RowsWithNumber, RightAt
  <2>6. QED
    BY <1>2, <1>4, <2>1, <2>4, <2>5
<1>5. QED
  BY <1>3, <1>4

\* The operands of a request that goes on.
LEMMA FollowedStays ==
  ASSUME Followed, store' = store, query' = query, side' = side
  PROVE  Followed'
<1>1. ASSUME NEW x \in Sides  PROVE IF x \in Used(query)' THEN SideIs(x)' ELSE side'[x] = NoWork
  BY SideStays DEF Followed
<1>2. QED
  BY <1>1 DEF Followed

\* What has been received shows its operand.
LEMMA ReceivedIs ==
  ASSUME IInv, pc # "idle", AllReceived, ~SideFailed, NEW x \in Used(query)
  PROVE  Shows(side[x].series, OperandFun(query, OperandOf(query, x)), ToSet(StepsOf(query)))
<1>1. x \in Sides
  BY DEF Used
<1>2. SideIs(x) /\ side[x].stage = "received" /\ ~side[x].failed
  BY <1>1 DEF IInv, Followed, AllReceived, SideFailed
<1>3. QED
  BY <1>2 DEF SideIs

\* An answer keeps the invariant when it shows the query and nothing was ambiguous.
LEMMA ReturnKeeps ==
  ASSUME IInv, pc # "idle", AllReceived, ~SideFailed,
         NEW series, Return(series), SeriesSet(series),
         \/ TakenForScalar
         \/ /\ Collapses \/ Shows(series, QueryFun(query), ToSet(StepsOf(query)))
            /\ \A t \in ToSet(StepsOf(query)) : ~AmbiguousAt(query, t)
  PROVE  IInv'
<1>1. /\ pc' = "answered" /\ answer' = series /\ store' = store /\ query' = query /\ side' = side
      /\ at' = at /\ acc' = acc /\ cancelled' = cancelled
  BY DEF Return
<1>2. Followed'
  BY <1>1, FollowedStays DEF IInv
<1>3. AllReceived' /\ ~SideFailed' /\ (TakenForScalar' <=> TakenForScalar)
  BY <1>1 DEF AllReceived, SideFailed, TakenForScalar, SomeScalar
<1>4. /\ QueryFun(query)' = QueryFun(query)
      /\ \A t : AmbiguousAt(query, t)' = AmbiguousAt(query, t)
      /\ \A t : CollapseAt(query, t)' = CollapseAt(query, t)
  BY <1>1, StoreStays
<1>5. Collapses' <=> Collapses
  BY <1>1, <1>4 DEF Collapses
<1>6. Answered'
  BY <1>1, <1>3, <1>4, <1>5 DEF Answered
<1>7. QED
  BY <1>1, <1>2, <1>6 DEF IInv, WorksAre

\* Without an operation the answer is what the operand has.
LEMMA ReturnLeafKeeps ==
  ASSUME IInv, ReturnLeaf
  PROVE  IInv'
<1> DEFINE series == side["left"].series
           T == ToSet(StepsOf(query))
<1>1. pc = "waiting" /\ AllReceived /\ ~SideFailed /\ ~IsBinary(query) /\ Return(series)
  BY DEF ReturnLeaf
<1>2. query \in Queries
  BY <1>1 DEF IInv, Followed
<1>3. /\ "left" \in Used(query) /\ Used(query) # Sides /\ OperandOf(query, "left") = query.left
      /\ \A t : QueryAt(query, t) = OperandAt(query, query.left, t)
  BY <1>1, <1>2, LeafIs
<1>4. Shows(series, OperandFun(query, query.left), T)
  BY <1>1, <1>3, ReceivedIs
<1>5. OperandFun(query, query.left) = QueryFun(query)
  BY <1>3 DEF OperandFun, QueryFun
<1>6. SeriesSet(series)
  BY <1>4 DEF Shows, Orderly
<1>7. \A t : ~AmbiguousAt(query, t)
  BY <1>3 DEF AmbiguousAt
<1> HIDE DEF series
<1>8. QED
  BY <1>1, <1>4, <1>5, <1>6, <1>7, ReturnKeeps

\* With a literal on one side, the answer is each row of the other combined with it.
LEMMA ReturnWithNumberKeeps ==
  ASSUME IInv, ReturnWithNumber
  PROVE  IInv'
<1> DEFINE T == ToSet(StepsOf(query))
           onRight == ApplyScalarBinary(side["left"].series, query.right.v, FALSE)
           onLeft == ApplyScalarBinary(side["right"].series, query.left.v, TRUE)
           series == IF query.right.kind = "number" THEN onRight ELSE onLeft
<1>1. /\ pc = "waiting" /\ AllReceived /\ ~SideFailed /\ IsBinary(query) /\ Used(query) # Sides
      /\ Return(series)
  BY DEF ReturnWithNumber
<1>2. query \in Queries
  BY <1>1 DEF IInv, Followed
<1>3. T \subseteq Int
  BY <1>2, QueriesAssumption, StepsAre
<1>4. /\ query.op \in {"-", ">"} \union SetOps
      /\ query.right.kind = "number" =>
              /\ "left" \in Used(query) /\ OperandOf(query, "left") = query.left
              /\ \A t : QueryAt(query, t) =
                          RowsWithNumber(query, OperandAt(query, query.left, t), query.right.v, FALSE)
      /\ query.right.kind # "number" =>
              /\ "right" \in Used(query) /\ OperandOf(query, "right") = query.right
              /\ \A t : QueryAt(query, t) =
                          RowsWithNumber(query, OperandAt(query, query.right, t), query.left.v, TRUE)
  BY <1>1, <1>2, NumberIs
<1> HIDE DEF T
<1>5. Shows(series, QueryFun(query), T)
  <2>1. CASE query.right.kind = "number"
    <3>1. Shows(side["left"].series, OperandFun(query, query.left), T)
      BY <1>1, <1>4, <2>1, ReceivedIs DEF T
    <3>2. \A t \in T : QueryFun(query)[t] =
                         RowsWithNumber(query, OperandFun(query, query.left)[t], query.right.v, FALSE)
      BY <1>3, <1>4, <2>1 DEF QueryFun, OperandFun
    <3>3. Shows(onRight, QueryFun(query), T)
      BY <1>4, <3>1, <3>2, ScalarShows
    <3>4. QED
      BY <2>1, <3>3
  <2>2. CASE query.right.kind # "number"
    <3>1. Shows(side["right"].series, OperandFun(query, query.right), T)
      BY <1>1, <1>4, <2>2, ReceivedIs DEF T
    <3>2. \A t \in T : QueryFun(query)[t] =
                         RowsWithNumber(query, OperandFun(query, query.right)[t], query.left.v, TRUE)
      BY <1>3, <1>4, <2>2 DEF QueryFun, OperandFun
    <3>3. Shows(onLeft, QueryFun(query), T)
      BY <1>4, <3>1, <3>2, ScalarShows
    <3>4. QED
      BY <2>2, <3>3
  <2>3. QED
    BY <2>1, <2>2
<1>6. SeriesSet(series)
  BY <1>5 DEF Shows, Orderly
<1>7. \A t : ~AmbiguousAt(query, t)
  BY <1>1 DEF AmbiguousAt
<1> HIDE DEF series
<1>8. QED
  BY <1>1, <1>5, <1>6, <1>7, ReturnKeeps DEF T

\* A side that is taken for a scalar: of the answer only its type is claimed.
LEMMA ReturnWithScalarKeeps ==
  ASSUME IInv, ReturnWithScalar
  PROVE  IInv'
<1> DEFINE series == IF IsScalarResult(side["right"].series)
                     THEN ApplyScalarBinary(side["left"].series, ScalarValue(side["right"].series), FALSE)
                     ELSE ApplyScalarBinary(side["right"].series, ScalarValue(side["left"].series), TRUE)
<1>1. pc = "waiting" /\ AllReceived /\ ~SideFailed /\ TakenForScalar /\ Return(series)
  BY DEF ReturnWithScalar, TakenForScalar
<1>2. \A S, v : SeriesSet(ApplyScalarBinary(S, v, TRUE)) /\ SeriesSet(ApplyScalarBinary(S, v, FALSE))
  BY DEF SeriesSet, ApplyScalarBinary
<1>3. SeriesSet(series)
  BY <1>2
<1> HIDE DEF series
<1>4. QED
  BY <1>1, <1>3, ReturnKeeps

\* Both sides are there: the combination begins with nothing.
LEMMA BeginCombineKeeps ==
  ASSUME IInv, BeginCombine
  PROVE  IInv'
<1>1. /\ pc = "waiting" /\ AllReceived /\ ~SideFailed /\ Used(query) = Sides /\ ~SomeScalar
      /\ pc' = "combining" /\ store' = store /\ query' = query /\ side' = side
      /\ at' = at /\ acc' = acc /\ answer' = answer /\ cancelled' = cancelled
  BY DEF BeginCombine
<1>2. query \in Queries /\ at = 1 /\ acc = Empty /\ Followed
  BY <1>1 DEF IInv, Followed
<1>3. Followed'
  BY <1>1, <1>2, FollowedStays
<1>4. AllReceived' /\ ~SideFailed' /\ ~SomeScalar'
  BY <1>1 DEF AllReceived, SideFailed, SomeScalar
<1>5. at' = 1 /\ 1 \in 1..(Len(StepsOf(query)) + 1)
  <2>1. Len(StepsOf(query)) \in Nat
    BY <1>2, QueriesAssumption, StepsAre
  <2>2. QED
    BY <2>1, <1>1, <1>2
<1>6. StepsBefore(at)' = {}
  <2>1. 1..(1 - 1) = {}
    OBVIOUS
  <2>2. QED
    BY <2>1, <1>5 DEF StepsBefore
<1>7. Shows(AsSeries(acc), QueryFun(query), StepsBefore(at))'
  <2>1. \A f : Shows(AsSeries(Empty), f, {})
    BY EmptyShows
  <2>2. QED
    BY <2>1, <1>1, <1>2, <1>6
<1>8. Combined'
  BY <1>1, <1>4, <1>5, <1>6, <1>7 DEF Combined
<1>9. QED
  BY <1>1, <1>3, <1>8 DEF IInv, WorksAre

\* The rows of both sides at the next step are those of the operands.
LEMMA NextRowsAre ==
  ASSUME IInv, pc = "combining", at <= Len(StepsOf(query))
  PROVE  /\ Now \in ToSet(StepsOf(query)) /\ Now \in Int
         /\ StepsBefore(at) \subseteq Int /\ \A u \in StepsBefore(at) : u < Now
         /\ StepsBefore(at + 1) = StepsBefore(at) \union {Now}
         /\ IsVector(Left) /\ Left = LeftAt(query, Now)
         /\ IsVector(Right) /\ Right = RightAt(query, Now)
<1> DEFINE s == StepsOf(query)
           n == Len(s)
           T == ToSet(s)
<1>1. query \in Queries /\ Combined
  BY DEF IInv, Followed
<1>2. /\ n \in Nat /\ T = {s[i] : i \in 1..n}
      /\ \A i \in 1..n : s[i] \in Int
      /\ \A i, j \in 1..n : i < j => s[i] < s[j]
  BY <1>1, QueriesAssumption, StepsAre
<1>3. Now = s[at]
  BY DEF Now
<1>4. \A i : StepsBefore(i) = {s[j] : j \in 1..(i - 1)}
  BY DEF StepsBefore
<1>5. at \in 1..(n + 1) /\ at <= n
  BY <1>1 DEF Combined
<1> HIDE DEF s, n
<1>6. at \in 1..n
  BY <1>2, <1>5
<1>7. Now \in T /\ Now \in Int
  BY <1>2, <1>3, <1>6
<1>8. StepsBefore(at) \subseteq Int /\ \A u \in StepsBefore(at) : u < Now
  <2>1. \A j \in 1..(at - 1) : j \in 1..n /\ j < at
    BY <1>2, <1>6
  <2>2. QED
    BY <2>1, <1>2, <1>3, <1>4, <1>6
<1>9. StepsBefore(at + 1) = StepsBefore(at) \union {Now}
  <2>1. \A j : j \in 1..(at + 1 - 1) <=> j \in 1..(at - 1) \/ j = at
    BY <1>2, <1>6
  <2>2. QED
    BY <2>1, <1>3, <1>4
<1>10. AllReceived /\ ~SideFailed /\ Used(query) = Sides
  BY <1>1 DEF Combined
<1>11. /\ Shows(side["left"].series, OperandFun(query, query.left), T)
       /\ Shows(side["right"].series, OperandFun(query, query.right), T)
  <2>1. "left" \in Used(query) /\ "right" \in Used(query)
    BY <1>10 DEF Sides
  <2>2. OperandOf(query, "left") = query.left /\ OperandOf(query, "right") = query.right
    BY DEF OperandOf
  <2>3. Shows(side["left"].series, OperandFun(query, OperandOf(query, "left")), T)
    BY <1>10, <2>1, ReceivedIs DEF s
  <2>4. Shows(side["right"].series, OperandFun(query, OperandOf(query, "right")), T)
    BY <1>10, <2>1, ReceivedIs DEF s
  <2>5. QED
    BY <2>2, <2>3, <2>4
<1>12. IsVector(Left) /\ Left = LeftAt(query, Now)
  <2>1. VecAt(side["left"].series, Now) = OperandFun(query, query.left)[Now]
    BY <1>7, <1>11 DEF Shows
  <2>2. IsVector(VecAt(side["left"].series, Now))
    BY <1>11, VecAtIsVector DEF Shows
  <2>3. QED
    BY <1>7, <2>1, <2>2 DEF Left, LeftAt, OperandFun
<1>13. IsVector(Right) /\ Right = RightAt(query, Now)
  <2>1. VecAt(side["right"].series, Now) = OperandFun(query, query.right)[Now]
    BY <1>7, <1>11 DEF Shows
  <2>2. IsVector(VecAt(side["right"].series, Now))
    BY <1>11, VecAtIsVector DEF Shows
  <2>3. QED
    BY <1>7, <2>1, <2>2 DEF Right, RightAt, OperandFun
<1>14. QED
  BY <1>7, <1>8, <1>9, <1>12, <1>13 DEF s

\* One round of the combination adds what the query is at that step.
LEMMA CombineStepKeeps ==
  ASSUME IInv, CombineStep
  PROVE  IInv'
<1> DEFINE rows == IF query.op \in SetOps THEN VectorSetOp(query.op, query.match, Left, Right)
                   ELSE VectorBinaryOp(query.op, query.bool, query.match, Left, Right)
           t == Now
           f == QueryFun(query)
<1>1. /\ pc = "combining" /\ at <= Len(StepsOf(query)) /\ ~Refused
      /\ acc' = Added(acc, rows, t) /\ at' = at + 1
      /\ pc' = pc /\ store' = store /\ query' = query /\ side' = side
      /\ answer' = answer /\ cancelled' = cancelled
  BY DEF CombineStep
<1>2. query \in Queries /\ Followed /\ Combined /\ at \in Nat /\ Accumulated(acc)
  BY <1>1 DEF IInv, Followed
<1>3. /\ t \in ToSet(StepsOf(query)) /\ t \in Int
      /\ StepsBefore(at) \subseteq Int /\ \A u \in StepsBefore(at) : u < t
      /\ StepsBefore(at + 1) = StepsBefore(at) \union {t}
      /\ IsVector(Left) /\ Left = LeftAt(query, t)
      /\ IsVector(Right) /\ Right = RightAt(query, t)
  BY <1>1, NextRowsAre
<1>4. /\ query.op \in {"-", ">"} \union SetOps
      /\ QueryAt(query, t) =
           IF query.op \in SetOps THEN VectorSetOp(query.op, query.match, Left, Right)
           ELSE {[labels |-> r.labels, v |-> r.v] :
                   r \in VectorBinaryOp(query.op, query.bool, query.match, Left, Right)}
  BY <1>2, <1>3, BothAre DEF Combined
<1>5. ~AmbiguousAt(query, t)
  BY <1>1, <1>3 DEF AmbiguousAt, Refused
<1>6. IsFiniteSet(rows)
  <2>1. CASE query.op \in SetOps
    BY <2>1, <1>3, SetOpIsVector DEF IsVector
  <2>2. CASE query.op \notin SetOps
    BY <2>2, <1>3, <1>4, BinaryOpIsFinite DEF IsVector
  <2>3. QED
    BY <2>1, <2>2
<1>7. Accumulated(acc')
  <2> HIDE DEF rows, t
  <2>1. QED
    BY <1>1, <1>2, <1>6, AddedAccumulates
<1>8. f[t] = {[labels |-> r.labels, v |-> r.v] : r \in rows}
  <2>1. f[t] = QueryAt(query, t)
    BY <1>3 DEF QueryFun
  <2>2. CASE query.op \in SetOps
    <3>1. IsVector(rows) /\ f[t] = rows
      BY <2>1, <2>2, <1>3, <1>4, SetOpIsVector
    <3> HIDE DEF rows, f, t
    <3>2. QED
      BY <3>1 DEF IsVector
  <2>3. CASE query.op \notin SetOps
    BY <2>1, <2>3, <1>4
  <2>4. QED
    BY <2>2, <2>3
<1>9. ASSUME ~Collapses  PROVE \A r, s \in rows : r.labels = s.labels => r = s
  <2>1. CASE query.op \in SetOps
    <3>1. IsVector(rows)
      BY <2>1, <1>3, SetOpIsVector
    <3> HIDE DEF rows
    <3>2. QED
      BY <3>1 DEF IsVector
  <2>2. CASE query.op \notin SetOps
    <3>1. ~CollapseAt(query, t)
      BY <1>3, <1>9 DEF Collapses
    <3>2. rows = VectorBinaryOp(query.op, query.bool, query.match, LeftAt(query, t), RightAt(query, t))
      BY <2>2, <1>3
    <3>3. Used(query) = Sides
      BY <1>2 DEF Combined
    <3> HIDE DEF rows, t
    <3>4. QED
      BY <2>2, <3>1, <3>2, <3>3 DEF CollapseAt
  <2>3. QED
    BY <2>1, <2>2
<1>10. Collapses \/ Shows(AsSeries(acc'), f, StepsBefore(at + 1))
  <2>1. SUFFICES ASSUME ~Collapses  PROVE Shows(AsSeries(acc'), f, StepsBefore(at + 1))
    OBVIOUS
  <2>2. Shows(AsSeries(acc), f, StepsBefore(at))
    BY <2>1, <1>2 DEF Combined
  <2>3. \A r, s \in rows : r.labels = s.labels => r = s
    BY <2>1, <1>9
  <2> HIDE DEF rows, f, t
  <2>4. Shows(AsSeries(Added(acc, rows, t)), f, StepsBefore(at) \union {t})
    BY <2>2, <2>3, <1>3, <1>6, <1>8, AddedShows
  <2>5. QED
    BY <2>4, <1>1, <1>3
<1> HIDE DEF rows, t
<1>11. /\ QueryFun(query)' = QueryFun(query)
       /\ \A u : AmbiguousAt(query, u)' = AmbiguousAt(query, u)
       /\ \A u : CollapseAt(query, u)' = CollapseAt(query, u)
  BY <1>1, StoreStays
<1>12. (Collapses' <=> Collapses) /\ StepsBefore(at)' = StepsBefore(at + 1)
  BY <1>1, <1>11 DEF Collapses, StepsBefore
<1>13. at' \in 1..(Len(StepsOf(query)) + 1) /\ at' \in Nat
  <2>1. Len(StepsOf(query)) \in Nat
    BY <1>2, QueriesAssumption, StepsAre
  <2>2. QED
    BY <2>1, <1>1, <1>2
<1>14. AllReceived' /\ ~SideFailed' /\ ~SomeScalar' /\ Used(query)' = Sides
  BY <1>1, <1>2 DEF Combined, AllReceived, SideFailed, SomeScalar
<1>15. \A u \in StepsBefore(at + 1) : ~AmbiguousAt(query, u)
  BY <1>2, <1>3, <1>5 DEF Combined
<1>16. Combined'
  BY <1>1, <1>10, <1>11, <1>12, <1>13, <1>14, <1>15 DEF Combined
<1>17. Followed'
  BY <1>1, <1>2, FollowedStays
<1>18. QED
  BY <1>1, <1>7, <1>13, <1>16, <1>17 DEF IInv, WorksAre

\* A combination that is refused was ambiguous.
LEMMA CombineFailsKeeps ==
  ASSUME IInv, CombineFails
  PROVE  IInv'
<1>1. /\ pc = "combining" /\ at <= Len(StepsOf(query)) /\ Refused
      /\ pc' = "failed" /\ store' = store /\ query' = query /\ side' = side
      /\ at' = at /\ acc' = acc /\ answer' = answer /\ cancelled' = cancelled
  BY DEF CombineFails
<1>2. Followed /\ Combined
  BY <1>1 DEF IInv
<1>3. Now \in ToSet(StepsOf(query)) /\ Left = LeftAt(query, Now) /\ Right = RightAt(query, Now)
  BY <1>1, NextRowsAre
<1>4. AmbiguousAt(query, Now)
  BY <1>1, <1>2, <1>3 DEF AmbiguousAt, Refused, Combined
<1>5. \E t \in ToSet(StepsOf(query)) : AmbiguousAt(query, t)'
  BY <1>1, <1>3, <1>4, StoreStays
<1>6. Deserved'
  BY <1>1, <1>5 DEF Deserved
<1>7. Followed'
  BY <1>1, <1>2, FollowedStays
<1>8. QED
  BY <1>1, <1>6, <1>7 DEF IInv, WorksAre

\* All steps have been combined.
LEMMA ReturnCombinedKeeps ==
  ASSUME IInv, ReturnCombined
  PROVE  IInv'
<1> DEFINE s == StepsOf(query)
           n == Len(s)
           series == AsSeries(acc)
<1>1. pc = "combining" /\ at > n /\ Return(series)
  BY DEF ReturnCombined
<1>2. query \in Queries /\ Combined /\ Accumulated(acc)
  BY <1>1 DEF IInv, Followed
<1>3. n \in Nat /\ ToSet(s) = {s[i] : i \in 1..n}
  BY <1>2, QueriesAssumption, StepsAre
<1>4. StepsBefore(at) = ToSet(s)
  <2>1. at \in 1..(n + 1)
    BY <1>2 DEF Combined
  <2> HIDE DEF n
  <2>2. at - 1 = n
    BY <1>1, <1>3, <2>1
  <2>3. StepsBefore(at) = {s[j] : j \in 1..(at - 1)}
    BY DEF StepsBefore
  <2>4. QED
    BY <1>3, <2>2, <2>3
<1>5. SeriesSet(series)
  BY <1>2 DEF SeriesSet, AsSeries, Accumulated
<1> HIDE DEF series
<1>6. AllReceived /\ ~SideFailed
  BY <1>2 DEF Combined
<1>7. /\ Collapses \/ Shows(series, QueryFun(query), ToSet(s))
      /\ \A t \in ToSet(s) : ~AmbiguousAt(query, t)
  BY <1>2, <1>4 DEF Combined, series
<1>8. QED
  BY <1>1, <1>5, <1>6, <1>7, ReturnKeeps

\* A query begins with both of its sides at the database.
LEMMA AskKeeps ==
  ASSUME IInv, NEW q \in Queries, Ask(q)
  PROVE  IInv'
<1> DEFINE fetching == [NoWork EXCEPT !.stage = "fetching"]
<1>1. /\ pc = "idle" /\ query' = q /\ pc' = "waiting"
      /\ side' = [x \in Sides |-> IF x \in Used(q) THEN fetching ELSE NoWork]
      /\ store' = store /\ at' = at /\ acc' = acc /\ answer' = answer /\ cancelled' = cancelled
  BY DEF Ask
<1>2. /\ IsWork(NoWork) /\ IsWork(fetching) /\ fetching.stage = "fetching"
      /\ fetching.series = {} /\ fetching.groups = Empty /\ fetching.failed = FALSE
  <2>1. IsWork(NoWork)
    BY DEF NoWork, IsWork
  <2>2. NoWork.series = {} /\ NoWork.groups = Empty /\ NoWork.failed = FALSE
    BY DEF NoWork
  <2>3. fetching = [stage |-> "fetching", series |-> NoWork.series, cursor |-> NoWork.cursor,
                    times |-> NoWork.times, groups |-> NoWork.groups, failed |-> NoWork.failed]
    BY <2>1 DEF IsWork
  <2> HIDE DEF fetching
  <2>4. QED
    BY <2>1, <2>2, <2>3 DEF IsWork
<1> HIDE DEF fetching
<1>3. WorksAre'
  BY <1>1, <1>2 DEF WorksAre
<1>4. ASSUME NEW x \in Sides  PROVE IF x \in Used(query)' THEN SideIs(x)' ELSE side'[x] = NoWork
  <2>1. Used(query)' = Used(q)
    BY <1>1
  <2>2. CASE x \in Used(q)
    <3>1. side'[x] = fetching
      BY <1>1, <2>2
    <3>2. SideIs(x)'
      BY <1>2, <3>1 DEF SideIs
    <3>3. QED
      BY <2>1, <2>2, <3>2
  <2>3. CASE x \notin Used(q)
    BY <1>1, <2>1, <2>3
  <2>4. QED
    BY <2>2, <2>3
<1>5. Followed'
  BY <1>1, <1>4 DEF Followed
<1>6. QED
  BY <1>1, <1>3, <1>5 DEF IInv

\* A request that fails with both sides as they are.
LEMMA FailKeeps ==
  ASSUME IInv, pc = "waiting", pc' = "failed", cancelled \/ SideFailed,
         UNCHANGED <<store, query, side, at, acc, answer, cancelled>>
  PROVE  IInv'
<1>1. Followed'
  BY FollowedStays DEF IInv
<1>2. Deserved'
  BY DEF Deserved, SideFailed
<1>3. QED
  BY <1>1, <1>2 DEF IInv, WorksAre

\* The client goes.
LEMMA CancelKeeps ==
  ASSUME IInv, Cancel
  PROVE  IInv'
<1>1. /\ pc # "idle" /\ cancelled' = TRUE /\ store' = store /\ pc' = pc /\ query' = query
      /\ side' = side /\ at' = at /\ acc' = acc /\ answer' = answer
  BY DEF Cancel
<1>2. Followed'
  BY <1>1, FollowedStays DEF IInv
<1>3. AllReceived' = AllReceived /\ SideFailed' = SideFailed /\ SomeScalar' = SomeScalar
  BY <1>1 DEF AllReceived, SideFailed, SomeScalar
<1>4. /\ QueryFun(query)' = QueryFun(query)
      /\ \A t : AmbiguousAt(query, t)' = AmbiguousAt(query, t)
      /\ \A t : CollapseAt(query, t)' = CollapseAt(query, t)
  BY <1>1, StoreStays
<1>5. (Collapses' <=> Collapses) /\ (TakenForScalar' <=> TakenForScalar) /\ StepsBefore(at)' = StepsBefore(at)
  BY <1>1, <1>3, <1>4 DEF Collapses, TakenForScalar, StepsBefore
<1>6. pc = "combining" => Combined'
  BY <1>1, <1>3, <1>4, <1>5 DEF IInv, Combined
<1>7. pc = "answered" => Answered'
  BY <1>1, <1>3, <1>4, <1>5 DEF IInv, Answered
<1>8. Deserved'
  BY <1>1 DEF Deserved
<1>9. QED
  BY <1>1, <1>2, <1>6, <1>7, <1>8 DEF IInv, WorksAre

\* Everything begins anew.
LEMMA ReplyKeeps ==
  ASSUME IInv, Reply
  PROVE  IInv'
<1>1. /\ pc' = "idle" /\ query' = <<>> /\ side' = [x \in Sides |-> NoWork] /\ at' = 1 /\ acc' = Empty
      /\ answer' = {} /\ cancelled' = FALSE /\ store' = store
  BY DEF Reply
<1>2. IsWork(NoWork)
  BY DEF NoWork, IsWork
<1>3. WorksAre'
  BY <1>1, <1>2 DEF WorksAre
<1>4. Accumulated(Empty) /\ SeriesSet({})
  BY EmptyShows DEF Accumulated, SeriesSet
<1>5. QED
  BY <1>1, <1>3, <1>4 DEF IInv

-----------------------------------------------------------------------------
(***************************************************************************)
(* The theorems.                                                           *)
(***************************************************************************)
\* Before the first query nothing is evaluated and nothing is combined.
LEMMA InitIs == Init => IInv
<1> SUFFICES ASSUME Init  PROVE IInv
  OBVIOUS
<1>1. IsWork(NoWork)
  BY DEF NoWork, IsWork
<1>2. WorksAre
  BY <1>1 DEF WorksAre, Init
<1>3. Accumulated(Empty) /\ SeriesSet({})
  BY EmptyShows DEF Accumulated, SeriesSet
<1>4. QED
  BY <1>2, <1>3 DEF IInv, Init

\* Every step keeps the invariant.
LEMMA NextKeeps == IInv /\ [Next]_vars => IInv'
<1> SUFFICES ASSUME IInv, [Next]_vars  PROVE IInv'
  OBVIOUS
<1>1. ASSUME NEW q \in Queries, Ask(q)  PROVE IInv'
  BY <1>1, AskKeeps
<1>2. CASE Cancel
  BY <1>2, CancelKeeps
<1>3. ASSUME NEW x \in Sides, Operate(x)  PROVE IInv'
  BY <1>3, OperateKeeps
<1>4. CASE Answer
  <2>1. ASSUME NEW x \in Sides, Receive(x)  PROVE IInv'
    BY <2>1, PassOnKeeps DEF Receive
  <2>2. CASE GiveUp
    BY <2>2, FailKeeps DEF GiveUp
  <2>3. CASE ReturnError
    BY <2>3, FailKeeps DEF ReturnError
  <2>4. CASE ReturnLeaf
    BY <2>4, ReturnLeafKeeps
  <2>5. CASE ReturnWithNumber
    BY <2>5, ReturnWithNumberKeeps
  <2>6. CASE ReturnWithScalar
    BY <2>6, ReturnWithScalarKeeps
  <2>7. CASE BeginCombine
    BY <2>7, BeginCombineKeeps
  <2>8. CASE CombineStep
    BY <2>8, CombineStepKeeps
  <2>9. CASE CombineFails
    BY <2>9, CombineFailsKeeps
  <2>10. CASE ReturnCombined
    BY <2>10, ReturnCombinedKeeps
  <2>11. CASE Reply
    BY <2>11, ReplyKeeps
  <2>12. QED
    BY <1>4, <2>1, <2>2, <2>3, <2>4, <2>5, <2>6, <2>7, <2>8, <2>9, <2>10, <2>11 DEF Answer
<1>5. CASE UNCHANGED vars
  <2>1. /\ store' = store /\ pc' = pc /\ query' = query /\ side' = side /\ at' = at
        /\ acc' = acc /\ answer' = answer /\ cancelled' = cancelled
    BY <1>5 DEF vars
  <2>2. pc # "idle" => Followed'
    BY <2>1, FollowedStays DEF IInv
  <2>3. AllReceived' = AllReceived /\ SideFailed' = SideFailed /\ SomeScalar' = SomeScalar
    BY <2>1 DEF AllReceived, SideFailed, SomeScalar
  <2>4. /\ QueryFun(query)' = QueryFun(query)
        /\ \A t : AmbiguousAt(query, t)' = AmbiguousAt(query, t)
        /\ \A t : CollapseAt(query, t)' = CollapseAt(query, t)
    BY <2>1, StoreStays
  <2>5. /\ Collapses' <=> Collapses
        /\ TakenForScalar' <=> TakenForScalar
        /\ StepsBefore(at)' = StepsBefore(at)
    BY <2>1, <2>3, <2>4 DEF Collapses, TakenForScalar, StepsBefore
  <2>6. pc = "combining" => Combined'
    BY <2>1, <2>3, <2>4, <2>5 DEF IInv, Combined
  <2>7. pc = "answered" => Answered'
    BY <2>1, <2>3, <2>4, <2>5 DEF IInv, Answered
  <2>8. pc = "failed" => Deserved'
    BY <2>1, <2>3, <2>4 DEF IInv, Deserved
  <2>9. QED
    BY <2>1, <2>2, <2>6, <2>7, <2>8 DEF IInv, WorksAre
<1>6. QED
  BY <1>1, <1>2, <1>3, <1>4, <1>5 DEF Next, Proceed

\* The invariant on which the others rest: at each stage, each side of the query has the
\* values that the table has for its operand, and the combination those of the query.
THEOREM Invariance == Spec => []IInv
<1>1. Init => IInv
  BY InitIs
<1>2. IInv /\ [Next]_vars => IInv'
  BY NextKeeps
<1>3. QED
  BY <1>1, <1>2, PTL DEF Spec

\* The variables have their types, and the cursors of aggregateMatrix never leave their
\* series, whatever the gaps between the samples.
THEOREM TypeCorrect == Spec => []TypeOK
<1>1. IInv => TypeOK
  <2> SUFFICES ASSUME IInv  PROVE TypeOK
    OBVIOUS
  <2>1. \A m \in DOMAIN store : SeriesSet(store[m])
    BY StoreIs DEF IInv, Orderly
  <2>2. pc = "idle" <=> query = <<>>
    <3>1. pc # "idle" => query \in Queries
      BY DEF IInv, Followed
    <3>2. \A q \in Queries : q # <<>>
      <4>1. \A q \in Queries : DOMAIN q = {"op", "bool", "match", "left", "right", "start", "end", "step"}
        BY QueriesAssumption
      <4>2. DOMAIN <<>> = {}
        OBVIOUS
      <4>3. QED
        BY <4>1, <4>2
    <3>3. QED
      BY <3>1, <3>2 DEF IInv
  <2>3. ASSUME NEW x \in Sides
        PROVE  /\ side[x].stage \in {"unused", "fetching", "fetched", "aggregating", "ready", "sent", "received"}
               /\ SeriesSet(side[x].series)
               /\ side[x].failed \in BOOLEAN
               /\ side[x].stage = "aggregating" =>
                    \A s \in side[x].series : side[x].cursor[s] \in 1..(Len(s.samples) + 1)
    <3>1. CASE side[x].stage = "unused"
      <4>1. side[x] = NoWork
        <5>1. CASE pc = "idle"
          BY <5>1 DEF IInv
        <5>2. CASE pc # "idle"
          BY <3>1, <5>2 DEF IInv, Followed, SideIs
        <5>3. QED
          BY <5>1, <5>2
      <4>2. QED
        BY <4>1 DEF NoWork, SeriesSet
    <3>2. CASE side[x].stage # "unused"
      <4>1. store \in Stores /\ query \in Queries /\ x \in Used(query) /\ SideIs(x)
        BY <3>2, AtWork
      <4>2. SeriesSet({})
        BY DEF SeriesSet
      <4>3. SeriesSet(Rows(query, OperandOf(query, x)))
        BY <4>1, FetchedIs DEF Orderly
      <4>4. QED
        BY <4>1, <4>2, <4>3 DEF SideIs, Aggregates, Shows, Orderly
    <3>3. QED
      BY <3>1, <3>2
  <2>4. SeriesSet(AsSeries(acc))
    BY DEF IInv, Accumulated, SeriesSet, AsSeries
  <2>5. QED
    BY <2>1, <2>2, <2>3, <2>4 DEF TypeOK, IInv
<1>2. QED
  BY <1>1, Invariance, PTL

\* A range query answers, at each of its steps, what the query is at that instant: one fetch
\* of a window around all steps, buildMatrixSD, the cursors of aggregateMatrix and the
\* combination of two sides that come in any order lose, invent and move nothing.
THEOREM RangeIsInstantsHolds == Spec => []RangeIsInstants
<1>1. IInv => RangeIsInstants
  <2> SUFFICES ASSUME IInv, pc = "answered", ~TakenForScalar, ~Collapses
               PROVE  /\ Points(answer) = UNION {{<<r.labels, t, r.v>> : r \in QueryAt(query, t)}
                                                   : t \in ToSet(StepsOf(query))}
                      /\ \A s \in answer : \A i, j \in DOMAIN s.samples :
                           i < j => s.samples[i].t < s.samples[j].t
                      /\ \A r, s \in answer : r.labels = s.labels => r = s
    BY DEF RangeIsInstants
  <2> DEFINE T == ToSet(StepsOf(query))
             f == QueryFun(query)
  <2>1. Shows(answer, f, T)
    BY DEF IInv, Answered
  <2>2. T \subseteq Int
    <3>1. query \in Queries
      BY DEF IInv, Followed
    <3>2. QED
      BY <3>1, QueriesAssumption, StepsAre
  <2>3. \A t \in T : f[t] = QueryAt(query, t)
    BY <2>2 DEF QueryFun
  <2> HIDE DEF T, f
  <2>4. Points(answer) = UNION {{<<r.labels, t, r.v>> : r \in f[t]} : t \in T}
    BY <2>1, PointsAre
  <2>5. UNION {{<<r.labels, t, r.v>> : r \in f[t]} : t \in T} =
          UNION {{<<r.labels, t, r.v>> : r \in QueryAt(query, t)} : t \in T}
    BY <2>3
  <2>6. /\ \A s \in answer : InTime(s.samples)
        /\ \A r, s \in answer : r.labels = s.labels => r = s
    BY <2>1 DEF Shows, Orderly
  <2>7. QED
    BY <2>4, <2>5, <2>6 DEF T, InTime
<1>2. QED
  BY <1>1, Invariance, PTL

\* A query fails for a reason, and does not succeed by leaving out rows that match several
\* others, at whatever step they do.
THEOREM ErrorsAreDeservedHolds == Spec => []ErrorsAreDeserved
<1>1. IInv => ErrorsAreDeserved
  BY DEF IInv, Answered, Deserved, ErrorsAreDeserved
<1>2. QED
  BY <1>1, Invariance, PTL
=============================================================================
