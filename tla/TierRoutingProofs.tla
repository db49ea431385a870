-------------------------- MODULE TierRoutingProofs --------------------------
(***************************************************************************)
(* Theorems about TierRouting, for every value of its constants: any       *)
(* tiers, requests and widths.  What Validate does not ask of a            *)
(* configuration is an assumption of the theorems that need it.            *)
(***************************************************************************)
EXTENDS TierRouting, SetLemmas

-----------------------------------------------------------------------------
(***************************************************************************)
(* The tiers.                                                              *)
(***************************************************************************)

N == Len(Tiers)

\* What the assumption on the constants says of each tier.
LEMMA TiersAre ==
  /\ N \in Nat \ {0} /\ DOMAIN Tiers = 1..N
  /\ \A i \in 1..N : Tiers[i].res \in Nat \ {0} /\ Tiers[i].after \in Nat /\ Tiers[i].minStep \in Nat
<1>1. N \in Nat \ {0} /\ DOMAIN Tiers = 1..N
  BY TiersAssumption, LenProperties, EmptySeq DEF N
<1>2. \A i \in 1..N : Tiers[i] \in [Fields -> Nat]
  BY <1>1, TiersAssumption, ElementOfSeq DEF N
<1>3. \A i \in 1..N : Tiers[i].res \in Nat /\ Tiers[i].after \in Nat /\ Tiers[i].minStep \in Nat
  BY <1>2 DEF Fields
<1>4. \A i \in 1..N : Tiers[i].res > 0
  BY <1>1, TiersAssumption
<1>5. QED
  BY <1>1, <1>3, <1>4

\* Of two tiers the later one's compact_after is the longer.
LEMMA AfterGrows ==
  ASSUME NEW i \in 1..N, NEW j \in 1..N, i < j
  PROVE  Tiers[i].after < Tiers[j].after
<1> DEFINE late == {k \in (i + 1)..N : Tiers[k].after <= Tiers[i].after}
<1>1. N \in Nat /\ \A k \in 1..N : Tiers[k].after \in Nat
  BY TiersAre
<1>2. SUFFICES ASSUME j \in late  PROVE FALSE
  BY <1>1
<1>3. late \in SUBSET Int /\ IsFiniteSet(late)
  <2>1. late \subseteq (i + 1)..N /\ IsFiniteSet((i + 1)..N) /\ (i + 1)..N \subseteq Int
    BY <1>1, FS_Interval
  <2> HIDE DEF late
  <2>2. QED
    BY <2>1, FS_Subset
<1>4. Min(late) \in late /\ \A k \in late : Min(late) <= k
  <2> HIDE DEF late
  <2>1. QED
    BY <1>2, <1>3, ExtremesAre
<1> DEFINE m == Min(late)
<1> HIDE DEF m
<1>5. m \in late /\ m - 1 \notin late
  <2>1. \A k \in late : m <= k
    BY <1>4 DEF m
  <2>2. m \in late /\ m \in Int
    BY <1>4, <1>1 DEF m
  <2>3. QED
    BY <2>1, <2>2
<1>6. m - 1 \in 1..(N - 1) /\ i <= m - 1
  BY <1>5, <1>1
<1>7. Tiers[m - 1].after < Tiers[m - 1 + 1].after
  BY <1>6, TiersAssumption DEF N
<1>8. Tiers[m - 1 + 1].after = Tiers[m].after
  BY <1>5, <1>1
<1>9. QED
  BY <1>5, <1>6, <1>7, <1>8, <1>1

\* A request: its times are in order, its step and its window are not empty.
LEMMA RequestIs ==
  ASSUME NEW q \in Queries
  PROVE  /\ q \in Requests /\ q.start \in Nat /\ q.end \in Nat /\ q.start <= q.end
         /\ q.step \in Nat \ {0} /\ q.range \in Nat \ {0}
BY QueriesAssumption DEF Requests

\* SelectTier and the check of the resolution choose a tier, or none; but for the
\* histograms, one whose buckets fit the window.
LEMMA TierForIs ==
  ASSUME NEW q \in Queries
  PROVE  /\ TierFor(q) \in {0} \union 1..N
         /\ q.fn # "histogram_quantile" /\ TierFor(q) # 0 => Tiers[TierFor(q)].res <= q.range
<1> DEFINE reach == Reachable(q.step)
           fit == {j \in reach : Tiers[j].res <= q.range}
           i == SelectTier(q.step)
<1>1. /\ reach \in SUBSET Int /\ IsFiniteSet(reach) /\ reach \subseteq 1..N
      /\ fit \in SUBSET Int /\ IsFiniteSet(fit) /\ fit \subseteq 1..N
  <2>1. reach \subseteq 1..N /\ fit \subseteq 1..N /\ IsFiniteSet(1..N) /\ 1..N \subseteq Int
    BY TiersAre, FS_Interval DEF Reachable
  <2> HIDE DEF reach, fit
  <2>2. IsFiniteSet(reach) /\ IsFiniteSet(fit)
    BY <2>1, FS_Subset
  <2>3. QED
    BY <2>1, <2>2
<1>2. i = IF reach = {} THEN 0 ELSE Max(reach)
  BY DEF SelectTier, MaxOf0
<1>3. TierFor(q) = IF q.fn # "histogram_quantile" /\ i # 0 /\ Tiers[i].res > q.range
                   THEN IF fit = {} THEN 0 ELSE Min(fit)
                   ELSE i
  BY DEF TierFor, MinOf0
<1> HIDE DEF reach, i
<1>4. i \in {0} \union 1..N
  BY <1>1, <1>2, ExtremesAre
<1>5. fit # {} => Min(fit) \in 1..N /\ Tiers[Min(fit)].res <= q.range
  <2>1. fit # {} => Min(fit) \in fit
    <3> HIDE DEF fit
    <3>1. QED
      BY <1>1, ExtremesAre
  <2>2. QED
    BY <2>1, <1>1
<1> HIDE DEF fit
<1>6. i # 0 /\ ~(Tiers[i].res > q.range) => Tiers[i].res <= q.range
  BY <1>4, TiersAre, RequestIs
<1>7. QED
  BY <1>3, <1>4, <1>5, <1>6

-----------------------------------------------------------------------------
(***************************************************************************)
(* The segments.                                                           *)
(***************************************************************************)

\* The boundaries: an earlier tier's is later, unless both are before every sample.
LEMMA BoundaryIs ==
  ASSUME now \in Nat
  PROVE  /\ \A i \in 1..N : /\ Boundary(i) \in Nat
                            /\ Boundary(i) > 0 => Boundary(i) + Tiers[i].after + Overlap <= now
         /\ \A i, j \in 1..N : i < j => Boundary(j) <= Boundary(i)
         /\ \A i, j \in 1..N : i < j /\ Boundary(j) > 0 => Boundary(j) < Boundary(i)
<1>1. Overlap \in Nat /\ \A i \in 1..N : Tiers[i].after \in Nat
  BY TiersAre, QueriesAssumption
<1>2. ASSUME NEW i \in 1..N
      PROVE  Boundary(i) \in Nat /\ (Boundary(i) > 0 => Boundary(i) + Tiers[i].after + Overlap <= now)
  BY <1>1 DEF Boundary
<1>3. ASSUME NEW i \in 1..N, NEW j \in 1..N, i < j
      PROVE  /\ Boundary(j) <= Boundary(i)
             /\ Boundary(j) > 0 => Boundary(j) < Boundary(i)
  <2>1. Tiers[i].after < Tiers[j].after
    BY <1>3, AfterGrows
  <2>2. QED
    BY <2>1, <1>1 DEF Boundary
<1>4. QED
  BY <1>2, <1>3

\* The earlier of a boundary and the end of the range.
Ending(q, i) == Min({Boundary(i), q.end})

\* It is one of the two, and a time.
LEMMA EndingIs ==
  ASSUME now \in Nat, NEW q \in Queries, NEW i \in 1..N
  PROVE  /\ Ending(q, i) = IF Boundary(i) <= q.end THEN Boundary(i) ELSE q.end
         /\ Ending(q, i) \in Nat /\ Ending(q, i) <= q.end /\ Ending(q, i) <= Boundary(i)
<1>1. Boundary(i) \in Nat /\ q.end \in Nat
  BY BoundaryIs, RequestIs
<1> DEFINE b == Boundary(i)
<1> HIDE DEF b
<1>2. b \in Int /\ q.end \in Int
  BY <1>1 DEF b
<1>3. Min({b, q.end}) = IF b <= q.end THEN b ELSE q.end
  BY <1>2, MinOfTwo
<1>4. QED
  BY <1>3, <1>1 DEF Ending, b

\* A tier's part starts within the range, and after the parts of the coarser tiers.
LEMMA CutAboveIs ==
  ASSUME now \in Nat, NEW q \in Queries, NEW i \in 0..N
  PROVE  /\ CutAbove(q, i) \in Nat /\ q.start <= CutAbove(q, i) /\ CutAbove(q, i) <= q.end
         /\ \A j \in (i + 1)..N : Ending(q, j) <= CutAbove(q, i)
         /\ CutAbove(q, i) = q.start \/ \E j \in (i + 1)..N : CutAbove(q, i) = Ending(q, j)
<1> DEFINE ends == {Ending(q, j) : j \in (i + 1)..N}
           cuts == {q.start} \union ends
<1>1. N \in Nat /\ (i + 1)..N \subseteq 1..N
  BY TiersAre
<1>2. CutAbove(q, i) = Max(cuts)
  BY DEF CutAbove, Ending, N
<1>3. \A j \in (i + 1)..N : Ending(q, j) \in Nat /\ Ending(q, j) <= q.end
  BY <1>1, EndingIs
<1>4. q.start \in Nat /\ q.end \in Nat /\ q.start <= q.end
  BY RequestIs
<1>5. cuts \in SUBSET Int /\ IsFiniteSet(cuts)
  <2>1. cuts \subseteq 0..q.end
    BY <1>3, <1>4
  <2>2. IsFiniteSet(0..q.end)
    <3>1. 0 \in Int /\ q.end \in Int
      BY <1>4
    <3>2. QED
      BY <3>1, FS_Interval
  <2>3. 0..q.end \subseteq Int
    BY <1>4
  <2> HIDE DEF cuts
  <2>4. IsFiniteSet(cuts)
    BY <2>1, <2>2, FS_Subset
  <2>5. QED
    BY <2>1, <2>3, <2>4
<1>6. Max(cuts) \in cuts /\ \A c \in cuts : c <= Max(cuts)
  <2>1. cuts # {}
    OBVIOUS
  <2> HIDE DEF cuts
  <2>2. QED
    BY <2>1, <1>5, ExtremesAre
<1> DEFINE c == CutAbove(q, i)
<1>7. c \in cuts /\ \A d \in cuts : d <= c
  BY <1>2, <1>6
<1> HIDE DEF c
<1>8. /\ c = q.start \/ \E j \in (i + 1)..N : c = Ending(q, j)
      /\ q.start <= c
      /\ \A j \in (i + 1)..N : Ending(q, j) <= c
  BY <1>7
<1>9. c \in Nat /\ c <= q.end
  BY <1>8, <1>3, <1>4
<1>10. QED
  BY <1>8, <1>9 DEF c

\* The tiers whose part of the range is not empty, and that are not too coarse.
Used(q) == {i \in 1..N : CutAbove(q, i) < Boundary(i) /\ CutAbove(q, i) < q.end /\ Usable(i)}

PartOf(q, i) == [source |-> i, start |-> CutAbove(q, i), end |-> Ending(q, i)]

\* The parts of the used tiers, each once, the coarsest first.
LEMMA TierSegmentsAre ==
  ASSUME NEW q \in Queries
  PROVE  \E order \in [1..Cardinality(Used(q)) -> Used(q)] :
           /\ Cardinality(Used(q)) \in Nat
           /\ TierSegments(q) = [k \in 1..Cardinality(Used(q)) |-> PartOf(q, order[k])]
           /\ \A k, l \in 1..Cardinality(Used(q)) : k < l => order[k] > order[l]
           /\ \A i \in Used(q) : \E k \in 1..Cardinality(Used(q)) : order[k] = i
<1> DEFINE S == Used(q)
           n == Cardinality(S)
           R == {p \in S \X S : p[1] > p[2]}
           order == InOrder(S, >)
           rank(x) == Cardinality({y \in S : y > x})
           place(x) == Cardinality({y \in S : <<y, x>> \in R})
<1>1. S \subseteq 1..N /\ IsFiniteSet(S) /\ S \subseteq Int
  <2>1. S \subseteq 1..N /\ IsFiniteSet(1..N) /\ 1..N \subseteq Int
    BY TiersAre, FS_Interval DEF Used
  <2> HIDE DEF S
  <2>2. QED
    BY <2>1, FS_Subset
<1>2. TierSegments(q) = [k \in DOMAIN order |-> PartOf(q, order[k])]
  <2>1. S = {i \in DOMAIN Tiers : (CutAbove(q, i) < Boundary(i) /\ CutAbove(q, i) < q.end) /\ Usable(i)}
    BY TiersAre DEF Used
  <2>2. QED
    BY <2>1 DEF TierSegments, PartOf, Ending
<1> HIDE DEF S
<1>3. \A x, y \in S : <<x, y>> \in R <=> x > y
  OBVIOUS
<1>4. \A x \in S : rank(x) = place(x)
  <2>1. \A x \in S : {y \in S : y > x} = {y \in S : <<y, x>> \in R}
    BY <1>3
  <2> HIDE DEF R
  <2>2. QED
    BY <2>1
<1>5. /\ \A x \in S : <<x, x>> \notin R
      /\ \A x, y \in S : x # y => <<x, y>> \in R \/ <<y, x>> \in R
      /\ \A x, y, z \in S : <<x, y>> \in R /\ <<y, z>> \in R => <<x, z>> \in R
  <2> HIDE DEF R
  <2>1. QED
    BY <1>1, <1>3
<1> HIDE DEF R
<1>6. /\ n \in Nat
      /\ \A x \in S : place(x) \in 0..(n - 1)
      /\ \A x, y \in S : place(x) < place(y) <=> <<x, y>> \in R
      /\ \A i \in 1..n : \E x \in S : place(x) = i - 1
  <2> HIDE DEF n
  <2>1. QED
    BY <1>1, <1>5, RankIs DEF n
<1>7. order = [i \in 1..n |-> CHOOSE x \in S : rank(x) = i - 1]
  BY DEF InOrder
<1> HIDE DEF order, rank, place, n
<1>8. /\ n \in Nat
      /\ \A x \in S : rank(x) \in 0..(n - 1)
      /\ \A x, y \in S : rank(x) < rank(y) <=> x > y
      /\ \A i \in 1..n : \E x \in S : rank(x) = i - 1
  <2>1. \A x \in S : rank(x) \in 0..(n - 1)
    BY <1>4, <1>6
  <2>2. ASSUME NEW x \in S, NEW y \in S  PROVE rank(x) < rank(y) <=> x > y
    <3>1. rank(x) = place(x) /\ rank(y) = place(y)
      BY <1>4
    <3>2. place(x) < place(y) <=> x > y
      BY <1>3, <1>6
    <3>3. QED
      BY <3>1, <3>2
  <2>3. ASSUME NEW i \in 1..n  PROVE \E x \in S : rank(x) = i - 1
    <3>1. PICK x \in S : place(x) = i - 1
      BY <1>6
    <3>2. rank(x) = place(x)
      BY <1>4
    <3>3. QED
      BY <3>1, <3>2
  <2>4. QED
    BY <1>6, <2>1, <2>2, <2>3
<1>9. \A i \in 1..n : order[i] \in S /\ rank(order[i]) = i - 1
  BY <1>7, <1>8
<1>10. order \in [1..n -> S] /\ DOMAIN order = 1..n
  BY <1>7, <1>9
<1>11. \A k, l \in 1..n : k < l => order[k] > order[l]
  BY <1>8, <1>9
<1>12. ASSUME NEW i \in S  PROVE \E k \in 1..n : order[k] = i
  <2> DEFINE k == rank(i) + 1
  <2>1. k \in 1..n /\ rank(i) = k - 1
    <3>1. rank(i) \in 0..(n - 1) /\ n \in Nat
      BY <1>8
    <3>2. QED
      BY <3>1
  <2> HIDE DEF k
  <2>2. order[k] \in S /\ rank(order[k]) = rank(i)
    BY <2>1, <1>9
  <2>3. rank(i) \in Int
    BY <1>8
  <2>4. ~(order[k] > i) /\ ~(i > order[k])
    BY <2>2, <2>3, <1>8
  <2>5. order[k] \in Int /\ i \in Int
    BY <2>2, <1>1
  <2>6. order[k] = i
    BY <2>4, <2>5
  <2>7. QED
    BY <2>1, <2>6
<1>13. QED
  BY <1>2, <1>8, <1>10, <1>11, <1>12 DEF S, n

\* What is known of a request's segments: they begin and end within the range, oldest
\* first, each tier's is old enough for the tier, and the first is a tier's.
Fit(segs, q) ==
  /\ segs \in Seq(Segment) /\ Len(segs) > 0
  /\ segs[1].source # RawSource
  /\ \A k \in 1..Len(segs) :
       /\ q.start <= segs[k].start /\ segs[k].start < segs[k].end /\ segs[k].end <= q.end
       /\ segs[k].source # RawSource =>
            /\ Usable(segs[k].source)
            /\ segs[k].end + Tiers[segs[k].source].after + Overlap <= now
  /\ \A k, l \in 1..Len(segs) :
       k < l => segs[k].end <= segs[l].start /\ segs[k].source > segs[l].source

\* If coarser tiers are used for older data, they also leave no gap.
Joined(segs, q) ==
  /\ \A k \in 1..(Len(segs) - 1) : segs[k].end = segs[k + 1].start
  /\ segs[Len(segs)].end = q.end
  /\ (\A i \in 1..N : Usable(i)) => segs[1].start = q.start

\* The order that Validate does not ask for: a later tier is not finer.
ResolutionsGrow == \A i, j \in 1..N : i < j => Tiers[i].res <= Tiers[j].res

\* Where a used tier's part ends, the next finer one's begins: and it is used, if it is not
\* coarser.
LEMMA NextFiner ==
  ASSUME now \in Nat, NEW q \in Queries, tier \in 1..N, NEW i \in Used(q)
  PROVE  /\ i \in 1..N /\ CutAbove(q, i) < Ending(q, i)
         /\ CutAbove(q, i - 1) = Ending(q, i)
         /\ ResolutionsGrow /\ Ending(q, i) < q.end /\ i # 1 => i - 1 \in Used(q)
<1>1. /\ i \in 1..N /\ i \in 0..N /\ i - 1 \in 0..N
      /\ CutAbove(q, i) < Boundary(i) /\ CutAbove(q, i) < q.end /\ Usable(i)
  BY TiersAre DEF Used
<1>2. CutAbove(q, i) < Ending(q, i)
  BY <1>1, EndingIs
<1>3. CutAbove(q, i - 1) = Ending(q, i)
  <2>1. Ending(q, i) <= CutAbove(q, i - 1)
    <3>1. \A j \in (i - 1 + 1)..N : Ending(q, j) <= CutAbove(q, i - 1)
      BY <1>1, CutAboveIs
    <3>2. i \in (i - 1 + 1)..N
      BY <1>1, TiersAre
    <3>3. QED
      BY <3>1, <3>2
  <2>2. \A j \in i..N : Ending(q, j) <= Ending(q, i)
    <3>1. SUFFICES ASSUME NEW j \in i..N  PROVE Ending(q, j) <= Ending(q, i)
      OBVIOUS
    <3>2. j \in 1..N /\ (j = i \/ i < j)
      BY <1>1, TiersAre
    <3>3. Boundary(j) <= Boundary(i) /\ Boundary(i) \in Nat /\ Boundary(j) \in Nat
      BY <3>2, <1>1, BoundaryIs
    <3>4. /\ Ending(q, i) = IF Boundary(i) <= q.end THEN Boundary(i) ELSE q.end
          /\ Ending(q, j) = IF Boundary(j) <= q.end THEN Boundary(j) ELSE q.end
      BY <3>2, <1>1, EndingIs
    <3>5. QED
      BY <3>3, <3>4, RequestIs
  <2>3. CutAbove(q, i - 1) = q.start \/ \E j \in i..N : CutAbove(q, i - 1) = Ending(q, j)
    <3>1. CutAbove(q, i - 1) = q.start \/ \E j \in (i - 1 + 1)..N : CutAbove(q, i - 1) = Ending(q, j)
      BY <1>1, CutAboveIs
    <3>2. i - 1 + 1 = i
      BY <1>1
    <3>3. QED
      BY <3>1, <3>2
  <2>4. q.start < Ending(q, i)
    BY <1>1, <1>2, CutAboveIs, EndingIs, RequestIs
  <2>5. CutAbove(q, i - 1) <= Ending(q, i)
    BY <2>2, <2>3, <2>4, <1>1, EndingIs, RequestIs
  <2>6. CutAbove(q, i - 1) \in Nat /\ Ending(q, i) \in Nat
    BY <1>1, CutAboveIs, EndingIs
  <2>7. QED
    BY <2>1, <2>5, <2>6
<1>4. ASSUME ResolutionsGrow, Ending(q, i) < q.end, i # 1  PROVE i - 1 \in Used(q)
  <2>1. i - 1 \in 1..N /\ i - 1 < i
    BY <1>1, <1>4
  <2>2. Usable(i - 1)
    <3>1. Tiers[i - 1].res <= Tiers[i].res /\ Tiers[i].res <= Tiers[tier].res
      BY <1>1, <1>4, <2>1 DEF ResolutionsGrow, Usable
    <3>2. Tiers[i - 1].res \in Nat /\ Tiers[i].res \in Nat /\ Tiers[tier].res \in Nat
      BY <1>1, <2>1, TiersAre
    <3>3. QED
      BY <3>1, <3>2 DEF Usable
  <2>3. Ending(q, i) = Boundary(i) /\ Boundary(i) \in Nat /\ CutAbove(q, i) \in Nat
    BY <1>1, <1>4, EndingIs, BoundaryIs, CutAboveIs, RequestIs
  <2>4. Boundary(i) < Boundary(i - 1)
    BY <1>1, <2>1, <2>3, BoundaryIs
  <2>5. QED
    BY <2>1, <2>2, <2>3, <2>4, <1>3, <1>4 DEF Used
<1>5. QED
  BY <1>1, <1>2, <1>3, <1>4

\* The sources of a request's segments: those of the tiers, and the raw samples last.
LEMMA SourcesAre ==
  ASSUME now \in Nat, NEW q \in Queries, tier \in 1..N,
         NEW segs, segs = QuerySegments(q)
  PROVE  \E src \in [1..Len(segs) -> Used(q) \union {RawSource}] :
           /\ segs \in Seq(Segment) /\ Len(segs) \in Nat
           /\ \A k \in 1..Len(segs) :
                /\ segs[k].source = src[k] /\ segs[k].start = CutAbove(q, src[k])
                /\ segs[k].end = IF src[k] = RawSource THEN q.end ELSE Ending(q, src[k])
                /\ segs[k].start < segs[k].end /\ segs[k].end <= q.end
           /\ \A k, l \in 1..Len(segs) : k < l => src[k] > src[l]
           /\ \A i \in Used(q) : \E k \in 1..Len(segs) : src[k] = i
           /\ CutAbove(q, 0) < q.end => \E k \in 1..Len(segs) : src[k] = RawSource
<1> DEFINE m == Cardinality(Used(q))
           n == IF CutAbove(q, 0) < q.end THEN m + 1 ELSE m
           raw == [source |-> RawSource, start |-> CutAbove(q, 0), end |-> q.end]
<1>1. PICK order \in [1..m -> Used(q)] :
        /\ m \in Nat
        /\ TierSegments(q) = [k \in 1..m |-> PartOf(q, order[k])]
        /\ \A k, l \in 1..m : k < l => order[k] > order[l]
        /\ \A i \in Used(q) : \E k \in 1..m : order[k] = i
  BY TierSegmentsAre
<1> HIDE DEF m
<1>2. Used(q) \subseteq 1..N /\ Used(q) \subseteq Int
  BY TiersAre DEF Used
<1>3. \A i \in Used(q) : PartOf(q, i) \in Segment
  <2>1. SUFFICES ASSUME NEW i \in Used(q)  PROVE PartOf(q, i) \in Segment
    OBVIOUS
  <2>2. i \in 1..N /\ i \in 0..N
    BY <1>2, TiersAre
  <2>3. CutAbove(q, i) \in Nat /\ Ending(q, i) \in Nat /\ i \in Sources
    BY <2>2, CutAboveIs, EndingIs, TiersAre DEF Sources
  <2>4. QED
    BY <2>3 DEF PartOf, Segment
<1>4. raw \in Segment /\ CutAbove(q, 0) \in Nat /\ q.end \in Nat
  <2>1. 0 \in 0..N
    BY TiersAre
  <2>2. CutAbove(q, 0) \in Nat /\ q.end \in Nat /\ RawSource \in Sources
    BY <2>1, CutAboveIs, RequestIs DEF Sources
  <2>3. QED
    BY <2>2 DEF Segment
<1> HIDE DEF raw
<1>5. TierSegments(q) \in Seq(Segment) /\ Len(TierSegments(q)) = m
  <2>1. TierSegments(q) \in [1..m -> Segment]
    BY <1>1, <1>3
  <2> DEFINE ts == TierSegments(q)
  <2> HIDE DEF ts
  <2>2. ts \in Seq(Segment) /\ DOMAIN ts = 1..m
    BY <2>1, <1>1, SeqDef DEF ts
  <2>3. DOMAIN ts = 1..Len(ts) /\ Len(ts) \in Nat
    BY <2>2, LenProperties
  <2>4. Len(ts) = m
    BY <2>2, <2>3, <1>1
  <2>5. QED
    BY <2>2, <2>4 DEF ts
<1>6. /\ segs \in Seq(Segment) /\ Len(segs) = n /\ n \in Nat
      /\ \A k \in 1..m : segs[k] = PartOf(q, order[k])
      /\ CutAbove(q, 0) < q.end => segs[m + 1] = raw
  <2>1. CASE CutAbove(q, 0) < q.end
    <3>1. segs = TierSegments(q) \o <<raw>>
      BY <2>1 DEF QuerySegments, RawSegment, raw
    <3>2. segs = Append(TierSegments(q), raw)
      BY <3>1, <1>4, <1>5, AppendIsConcat
    <3>3. /\ segs \in Seq(Segment) /\ Len(segs) = m + 1
          /\ \A k \in 1..m : segs[k] = TierSegments(q)[k]
          /\ segs[m + 1] = raw
      BY <3>2, <1>4, <1>5, AppendProperties
    <3>4. QED
      BY <3>3, <2>1, <1>1
  <2>2. CASE ~(CutAbove(q, 0) < q.end)
    <3>1. segs = TierSegments(q) \o <<>>
      BY <2>2 DEF QuerySegments, RawSegment
    <3>2. segs = TierSegments(q)
      BY <3>1, <1>5, ConcatEmptySeq
    <3>3. QED
      BY <3>2, <2>2, <1>1, <1>5
  <2>3. QED
    BY <2>1, <2>2
<1> DEFINE src == [k \in 1..n |-> IF k <= m THEN order[k] ELSE RawSource]
<1>7. \A k \in 1..n : \/ k \in 1..m /\ src[k] = order[k] /\ src[k] \in Used(q) /\ src[k] # RawSource
                      \/ k = m + 1 /\ src[k] = RawSource /\ CutAbove(q, 0) < q.end
  <2>1. SUFFICES ASSUME NEW k \in 1..n  PROVE \/ k \in 1..m /\ src[k] = order[k] /\ src[k] \in Used(q) /\ src[k] # RawSource
                                              \/ k = m + 1 /\ src[k] = RawSource /\ CutAbove(q, 0) < q.end
    OBVIOUS
  <2>2. k \in 1..m \/ (k = m + 1 /\ CutAbove(q, 0) < q.end)
    BY <1>1
  <2>3. k \in 1..m => src[k] = order[k] /\ src[k] \in Used(q) /\ src[k] # RawSource
    BY <1>1, <1>2 DEF RawSource
  <2>4. k = m + 1 => src[k] = RawSource
    BY <1>1
  <2>5. QED
    BY <2>2, <2>3, <2>4
<1>8. src \in [1..n -> Used(q) \union {RawSource}]
  BY <1>7
<1>9. \A k \in 1..m : k \in 1..n /\ src[k] = order[k]
  BY <1>1
<1>10. CutAbove(q, 0) < q.end => m + 1 \in 1..n /\ src[m + 1] = RawSource
  BY <1>1
<1> HIDE DEF src, n
<1>11. ASSUME NEW k \in 1..n
       PROVE  /\ segs[k].source = src[k] /\ segs[k].start = CutAbove(q, src[k])
              /\ segs[k].end = IF src[k] = RawSource THEN q.end ELSE Ending(q, src[k])
              /\ segs[k].start < segs[k].end /\ segs[k].end <= q.end
  <2>1. CASE src[k] \in Used(q) /\ src[k] # RawSource /\ segs[k] = PartOf(q, src[k])
    <3>1. CutAbove(q, src[k]) < Ending(q, src[k]) /\ Ending(q, src[k]) <= q.end
      BY <2>1, <1>2, NextFiner, EndingIs
    <3>2. QED
      BY <2>1, <3>1 DEF PartOf
  <2>2. CASE src[k] = RawSource /\ segs[k] = raw /\ CutAbove(q, 0) < q.end
    BY <2>2, <1>4 DEF raw, RawSource
  <2>3. QED
    BY <2>1, <2>2, <1>6, <1>7
<1>12. ASSUME NEW k \in 1..n, NEW l \in 1..n, k < l  PROVE src[k] > src[l]
  <2>1. n \in Nat /\ m \in Nat
    BY <1>1, <1>6
  <2>2. k \in 1..m /\ src[k] = order[k] /\ order[k] > 0
    BY <1>7, <1>12, <2>1, <1>2
  <2>3. CASE l \in 1..m
    BY <2>2, <2>3, <1>1, <1>9, <1>12
  <2>4. CASE src[l] = RawSource
    BY <2>2, <2>4 DEF RawSource
  <2>5. QED
    BY <2>3, <2>4, <1>7
<1>13. \A i \in Used(q) : \E k \in 1..n : src[k] = i
  BY <1>1, <1>9
<1>14. CutAbove(q, 0) < q.end => \E k \in 1..n : src[k] = RawSource
  BY <1>10
<1>15. Len(segs) = n /\ segs \in Seq(Segment) /\ n \in Nat
  BY <1>6
<1>16. QED
  BY <1>8, <1>11, <1>12, <1>13, <1>14, <1>15

\* The segments fit into the range and into the past of their tiers.
LEMMA SegmentsFit ==
  ASSUME now \in Nat, NEW q \in Queries, tier \in 1..N,
         NEW segs, segs = QuerySegments(q), ~OnlyRaw(segs)
  PROVE  Fit(segs, q)
<1> DEFINE n == Len(segs)
<1>1. PICK src \in [1..n -> Used(q) \union {RawSource}] :
        /\ segs \in Seq(Segment) /\ n \in Nat
        /\ \A k \in 1..n :
             /\ segs[k].source = src[k] /\ segs[k].start = CutAbove(q, src[k])
             /\ segs[k].end = IF src[k] = RawSource THEN q.end ELSE Ending(q, src[k])
             /\ segs[k].start < segs[k].end /\ segs[k].end <= q.end
        /\ \A k, l \in 1..n : k < l => src[k] > src[l]
  BY SourcesAre
<1>2. DOMAIN segs = 1..n
  BY <1>1, LenProperties
<1> HIDE DEF n
<1>3. Used(q) \subseteq 1..N /\ N \in Nat
  BY TiersAre DEF Used
<1>4. \A k \in 1..n : src[k] \in 0..N /\ (src[k] # RawSource => src[k] \in Used(q) /\ src[k] \in 1..N)
  BY <1>1, <1>3 DEF RawSource
<1>5. n > 0 /\ src[1] # RawSource
  <2>1. PICK k \in 1..n : src[k] # RawSource
    BY <1>1, <1>2 DEF OnlyRaw
  <2>2. n > 0 /\ 1 \in 1..n /\ (k = 1 \/ 1 < k)
    BY <1>1
  <2>3. k # 1 => src[1] > src[k]
    BY <1>1, <2>2
  <2>4. src[k] \in 1..N /\ src[1] \in 0..N
    BY <1>4, <2>1, <2>2
  <2>5. src[1] > 0
    BY <2>3, <2>4, <1>3
  <2>6. QED
    BY <2>2, <2>5 DEF RawSource
<1>6. ASSUME NEW k \in 1..n
      PROVE  /\ q.start <= segs[k].start /\ segs[k].start < segs[k].end /\ segs[k].end <= q.end
             /\ segs[k].source # RawSource =>
                  /\ Usable(segs[k].source)
                  /\ segs[k].end + Tiers[segs[k].source].after + Overlap <= now
  <2>1. q.start <= segs[k].start /\ segs[k].start < segs[k].end /\ segs[k].end <= q.end
    BY <1>1, <1>4, CutAboveIs
  <2>2. ASSUME segs[k].source # RawSource
        PROVE  /\ Usable(segs[k].source)
               /\ segs[k].end + Tiers[segs[k].source].after + Overlap <= now
    <3> DEFINE i == src[k]
    <3>1. i \in Used(q) /\ i \in 1..N /\ segs[k].source = i /\ segs[k].end = Ending(q, i)
      BY <2>2, <1>1, <1>4
    <3>2. segs[k].end > 0
      <4>1. segs[k].start \in Nat /\ segs[k].end \in Nat
        BY <1>1, <1>4, <3>1, CutAboveIs, EndingIs
      <4>2. QED
        BY <4>1, <2>1
    <3>3. segs[k].end <= Boundary(i) /\ segs[k].end \in Nat /\ Boundary(i) \in Nat
      BY <3>1, EndingIs, BoundaryIs
    <3>4. Boundary(i) + Tiers[i].after + Overlap <= now
      BY <3>1, <3>2, <3>3, BoundaryIs
    <3>5. Tiers[i].after \in Nat /\ Overlap \in Nat
      BY <3>1, TiersAre, QueriesAssumption
    <3>6. segs[k].end + Tiers[i].after + Overlap <= now
      <4> HIDE DEF i
      <4>1. QED
        BY <3>3, <3>4, <3>5
    <3>7. QED
      BY <3>1, <3>6 DEF Used
  <2>3. QED
    BY <2>1, <2>2
<1>7. ASSUME NEW k \in 1..n, NEW l \in 1..n, k < l
      PROVE  segs[k].end <= segs[l].start /\ segs[k].source > segs[l].source
  <2>1. src[k] > src[l] /\ src[k] \in 0..N /\ src[l] \in 0..N
    BY <1>1, <1>4, <1>7
  <2>2. src[k] # RawSource /\ src[k] \in (src[l] + 1)..N
    BY <2>1, <1>3 DEF RawSource
  <2>3. segs[k].end = Ending(q, src[k]) /\ segs[l].start = CutAbove(q, src[l])
    BY <1>1, <2>2
  <2>4. QED
    BY <1>1, <2>1, <2>2, <2>3, CutAboveIs
<1>8. QED
  BY <1>1, <1>4, <1>5, <1>6, <1>7 DEF Fit, n

\* If no tier is coarser than a later one, the segments leave no gap: each starts where the
\* one before it ends, the last ends with the range, and if every tier may be used, the
\* first starts with it.
LEMMA SegmentsJoin ==
  ASSUME now \in Nat, NEW q \in Queries, tier \in 1..N, ResolutionsGrow,
         NEW segs, segs = QuerySegments(q), ~OnlyRaw(segs)
  PROVE  Joined(segs, q)
<1> DEFINE n == Len(segs)
<1>1. PICK src \in [1..n -> Used(q) \union {RawSource}] :
        /\ segs \in Seq(Segment) /\ n \in Nat
        /\ \A k \in 1..n :
             /\ segs[k].source = src[k] /\ segs[k].start = CutAbove(q, src[k])
             /\ segs[k].end = IF src[k] = RawSource THEN q.end ELSE Ending(q, src[k])
             /\ segs[k].start < segs[k].end /\ segs[k].end <= q.end
        /\ \A k, l \in 1..n : k < l => src[k] > src[l]
        /\ \A i \in Used(q) : \E k \in 1..n : src[k] = i
        /\ CutAbove(q, 0) < q.end => \E k \in 1..n : src[k] = RawSource
  BY SourcesAre
<1>2. /\ n > 0 /\ segs[1].source # RawSource
      /\ \A k, l \in 1..n : k < l => segs[k].end <= segs[l].start
  BY SegmentsFit DEF Fit
<1> HIDE DEF n
<1>3. Used(q) \subseteq 1..N /\ N \in Nat
  BY TiersAre DEF Used
<1>4. \A k \in 1..n : src[k] \in 0..N /\ (src[k] # RawSource => src[k] \in Used(q) /\ src[k] \in 1..N)
  BY <1>1, <1>3 DEF RawSource
<1>5. \A k \in 1..n : segs[k].end \in Nat /\ segs[k].start \in Nat /\ q.end \in Nat
  <2>1. q.end \in Nat /\ \A i \in 0..N : CutAbove(q, i) \in Nat
    BY CutAboveIs, RequestIs
  <2>2. \A i \in 1..N : Ending(q, i) \in Nat
    BY EndingIs
  <2>3. ASSUME NEW k \in 1..n  PROVE segs[k].end \in Nat /\ segs[k].start \in Nat
    <3>1. segs[k].start = CutAbove(q, src[k]) /\ src[k] \in 0..N
      BY <1>1, <1>4
    <3>2. segs[k].end \in Nat
      <4>1. CASE src[k] = RawSource
        BY <1>1, <2>1, <4>1
      <4>2. CASE src[k] # RawSource
        <5>1. segs[k].end = Ending(q, src[k]) /\ src[k] \in 1..N
          BY <1>1, <1>4, <4>2
        <5>2. QED
          BY <2>2, <5>1
      <4>3. QED
        BY <4>1, <4>2
    <3>3. QED
      BY <2>1, <3>1, <3>2
  <2>4. QED
    BY <2>1, <2>3
\* A tier's part that ends before the range is followed by the next finer source's.
<1>6. ASSUME NEW k \in 1..n, src[k] # RawSource, Ending(q, src[k]) < q.end
      PROVE  /\ CutAbove(q, src[k] - 1) = Ending(q, src[k])
             /\ \E l \in 1..n : src[l] = src[k] - 1
  <2> DEFINE i == src[k]
  <2>1. i \in Used(q) /\ i \in 1..N
    BY <1>4, <1>6
  <2>2. CutAbove(q, i - 1) = Ending(q, i) /\ (i # 1 => i - 1 \in Used(q))
    BY <2>1, <1>6, NextFiner
  <2>3. CASE i = 1
    <3>1. i - 1 = 0 /\ i - 1 = RawSource
      BY <2>3 DEF RawSource
    <3>2. QED
      BY <3>1, <2>2, <1>1, <1>6
  <2>4. CASE i # 1
    BY <2>2, <2>4, <1>1
  <2>5. QED
    BY <2>2, <2>3, <2>4
<1>7. ASSUME NEW k \in 1..(n - 1)  PROVE segs[k].end = segs[k + 1].start
  <2>1. k \in 1..n /\ k + 1 \in 1..n /\ k < k + 1
    BY <1>1
  <2>2. src[k] > src[k + 1] /\ src[k] \in 0..N /\ src[k + 1] \in 0..N
    BY <2>1, <1>1, <1>4
  <2>3. src[k] # RawSource
    BY <2>2 DEF RawSource
  <2>4. segs[k].end = Ending(q, src[k]) /\ segs[k + 1].start = CutAbove(q, src[k + 1])
    BY <2>1, <2>3, <1>1
  <2>5. Ending(q, src[k]) < q.end
    <3>1. segs[k].end <= segs[k + 1].start
      BY <2>1, <1>2
    <3>2. segs[k + 1].start < segs[k + 1].end /\ segs[k + 1].end <= q.end
      BY <2>1, <1>1
    <3>3. QED
      BY <3>1, <3>2, <2>1, <2>4, <1>5
  <2>6. PICK l \in 1..n : src[l] = src[k] - 1
    BY <2>1, <2>3, <2>5, <1>6
  <2>7. l = k + 1
    <3>1. ~(l <= k)
      <4>1. l < k => src[l] > src[k]
        BY <2>1, <1>1
      <4>2. QED
        BY <4>1, <2>1, <2>2, <2>6
    <3>2. ~(k + 1 < l)
      <4>1. k + 1 < l => src[k + 1] > src[l]
        BY <2>1, <1>1
      <4>2. QED
        BY <4>1, <2>2, <2>6
    <3>3. QED
      BY <3>1, <3>2, <2>1
  <2>8. QED
    BY <2>1, <2>3, <2>4, <2>5, <2>6, <2>7, <1>6
<1>8. segs[n].end = q.end
  <2>1. n \in 1..n
    BY <1>1, <1>2
  <2>2. SUFFICES ASSUME src[n] # RawSource, Ending(q, src[n]) # q.end  PROVE FALSE
    BY <2>1, <1>1
  <2>3. Ending(q, src[n]) < q.end
    BY <2>1, <2>2, <1>1, <1>5
  <2>4. PICK l \in 1..n : src[l] = src[n] - 1
    BY <2>1, <2>2, <2>3, <1>6
  <2>5. src[l] \in 0..N /\ src[n] \in 0..N /\ (l < n => src[l] > src[n]) /\ (l < n \/ l = n)
    BY <2>1, <1>1, <1>4
  <2>6. QED
    BY <2>4, <2>5
<1>9. ASSUME \A i \in 1..N : Usable(i)  PROVE segs[1].start = q.start
  <2>1. 1 \in 1..n /\ src[1] # RawSource
    BY <1>1, <1>2
  <2>2. src[1] \in 1..N /\ src[1] \in 0..N /\ segs[1].start = CutAbove(q, src[1])
    BY <2>1, <1>1, <1>4
  <2>3. SUFFICES ASSUME CutAbove(q, src[1]) # q.start  PROVE FALSE
    BY <2>2
  <2> DEFINE late == {j \in 1..N : Ending(q, j) > q.start}
             j == Max(late)
  <2>4. PICK i \in (src[1] + 1)..N : CutAbove(q, src[1]) = Ending(q, i)
    BY <2>2, <2>3, CutAboveIs
  <2>5. i \in late
    <3>1. q.start <= CutAbove(q, src[1]) /\ CutAbove(q, src[1]) \in Nat /\ q.start \in Nat
      BY <2>2, CutAboveIs, RequestIs
    <3>2. i \in 1..N
      BY <2>2, <1>3
    <3>3. QED
      BY <3>1, <3>2, <2>3, <2>4
  <2>6. late \in SUBSET Int /\ IsFiniteSet(late)
    <3>1. late \subseteq 1..N
      OBVIOUS
    <3> HIDE DEF late
    <3>2. IsFiniteSet(1..N) /\ 1..N \subseteq Int
      BY <1>3, FS_Interval
    <3>3. QED
      BY <3>1, <3>2, FS_Subset
  <2>7. j \in late /\ \A x \in late : x <= j
    <3> HIDE DEF late
    <3>1. QED
      BY <2>5, <2>6, ExtremesAre
  <2> HIDE DEF j
  <2>8. j \in 1..N /\ j \in 0..N /\ q.start < Ending(q, j)
    BY <2>7, <1>3, EndingIs, RequestIs
  <2>9. CutAbove(q, j) = q.start
    <3>1. SUFFICES ASSUME CutAbove(q, j) # q.start  PROVE FALSE
      OBVIOUS
    <3>2. PICK x \in (j + 1)..N : CutAbove(q, j) = Ending(q, x)
      BY <3>1, <2>8, CutAboveIs
    <3>3. q.start <= CutAbove(q, j) /\ CutAbove(q, j) \in Nat /\ q.start \in Nat
      BY <2>8, CutAboveIs, RequestIs
    <3>4. x \in 1..N
      BY <2>8, <1>3
    <3>5. x \in late
      BY <3>1, <3>2, <3>3, <3>4
    <3>6. QED
      BY <3>5, <2>7, <2>8, <3>4, <1>3
  <2>10. j \in Used(q)
    <3>1. Ending(q, j) <= Boundary(j) /\ Ending(q, j) <= q.end /\ Ending(q, j) \in Nat
      BY <2>8, EndingIs
    <3>2. Boundary(j) \in Nat /\ q.start \in Nat /\ q.end \in Nat
      BY <2>8, BoundaryIs, RequestIs
    <3>3. q.start < Boundary(j) /\ q.start < q.end
      BY <3>1, <3>2, <2>8
    <3>4. QED
      BY <3>3, <2>8, <2>9, <1>9 DEF Used
  <2>11. PICK k \in 1..n : src[k] = j
    BY <2>10, <1>1
  <2>12. j <= src[1]
    <3>1. k = 1 \/ 1 < k
      BY <2>11, <1>1
    <3>2. 1 < k => src[1] > src[k]
      BY <2>1, <1>1
    <3>3. QED
      BY <3>1, <3>2, <2>2, <2>8, <2>11
  <2>13. src[1] + 1 <= i /\ i <= j /\ i \in Int
    BY <2>4, <2>5, <2>7, <2>2, <1>3
  <2>14. QED
    BY <2>12, <2>13, <2>2, <2>8
<1>10. QED
  BY <1>7, <1>8, <1>9 DEF Joined, n

-----------------------------------------------------------------------------
(***************************************************************************)
(* The rows.                                                               *)
(***************************************************************************)

\* The bucket of a time starts with it or before, and is the last to do so.
LEMMA BucketIs ==
  ASSUME NEW t \in Nat, NEW w \in Nat \ {0}
  PROVE  /\ BucketOf(t, w) \in Nat /\ BucketOf(t, w) <= t /\ t < BucketOf(t, w) + w
         /\ BucketOf(t, w) % w = 0
         /\ \A b \in Nat : b % w = 0 /\ b <= t => b <= BucketOf(t, w)
<1>1. t = w * (t \div w) + (t % w) /\ t % w \in 0..(w - 1) /\ t \div w \in Nat
  OBVIOUS
<1>2. BucketOf(t, w) = w * (t \div w)
  BY <1>1 DEF BucketOf
<1>3. BucketOf(t, w) \in Nat /\ BucketOf(t, w) <= t /\ t < BucketOf(t, w) + w
  BY <1>1 DEF BucketOf
<1>4. BucketOf(t, w) % w = 0
  BY <1>1, <1>2
<1>5. ASSUME NEW b \in Nat, b % w = 0, b <= t  PROVE b <= BucketOf(t, w)
  <2>1. b = w * (b \div w) /\ b \div w \in Nat
    BY <1>5
  <2>2. b \div w <= t \div w
    <3>1. SUFFICES ASSUME b \div w >= (t \div w) + 1  PROVE FALSE
      BY <1>1, <2>1
    <3>2. w * (b \div w) >= w * ((t \div w) + 1)
      BY <3>1, <2>1, <1>1
    <3>3. w * ((t \div w) + 1) = w * (t \div w) + w
      BY <1>1
    <3>4. QED
      BY <3>2, <3>3, <2>1, <1>1, <1>5
  <2>3. w * (b \div w) <= w * (t \div w)
    BY <2>2, <2>1, <1>1
  <2>4. QED
    BY <2>1, <2>3, <1>2
<1>6. QED
  BY <1>3, <1>4, <1>5

\* How wide a source's buckets are.
Width(source) == IF source = RawSource THEN RawBucket ELSE Tiers[source].res

\* A source's rows have a width.
LEMMA WidthIs ==
  /\ \A s \in Sources : Width(s) \in Nat \ {0}
  /\ Sources = 0..N
<1>1. Sources = 0..N
  BY TiersAre DEF Sources, RawSource
<1>2. QED
  BY <1>1, TiersAre, QueriesAssumption DEF Width, RawSource

\* A row has samples of one bucket of its source, and no others; of a tier's, all.  The
\* bucket of a tier begins within the segment, the raw samples are within it.
RowFits(r, s) ==
  /\ r.source = s.source /\ r.ts \in Stored
  /\ r.samples \subseteq Stored /\ r.samples # {}
  /\ \A t \in r.samples : BucketOf(t, Width(s.source)) = r.ts
  /\ s.source # RawSource => s.start <= r.ts /\ r.ts <= s.end
  /\ s.source = RawSource => \A t \in r.samples : Within(t, s)

RowsFor(s) == IF s.source = RawSource THEN RawRows(s) ELSE TierRows(s)

\* What a row that a segment is read by stands for.
LEMMA RowIs ==
  ASSUME now \in Nat, NEW s \in Segment, s.source # RawSource => s.end <= now,
         NEW r \in RowsFor(s)
  PROVE  RowFits(r, s)
<1>1. s.source \in Sources /\ s.start \in Nat /\ s.end \in Nat
  BY DEF Segment
<1>2. Width(s.source) \in Nat \ {0}
  BY <1>1, WidthIs
<1>3. \A t \in Stored : t \in Nat /\ BucketOf(t, Width(s.source)) \in Stored
  <2>1. SUFFICES ASSUME NEW t \in Stored  PROVE t \in Nat /\ BucketOf(t, Width(s.source)) \in Stored
    OBVIOUS
  <2>2. t \in Nat /\ t <= now
    BY <2>1 DEF Stored
  <2>3. BucketOf(t, Width(s.source)) \in Nat /\ BucketOf(t, Width(s.source)) <= t
    BY <2>2, <1>2, BucketIs
  <2>4. QED
    BY <2>2, <2>3 DEF Stored
<1>4. CASE s.source = RawSource
  <2>1. PICK u \in RawWindow(s) :
          r = [ts |-> BucketOf(u, RawBucket), source |-> RawSource,
               samples |-> InBucket(BucketOf(u, RawBucket), RawBucket) \intersect RawWindow(s)]
    BY <1>4 DEF RowsFor, RawRows
  <2>2. Width(s.source) = RawBucket
    BY <1>4 DEF Width
  <2>3. u \in Stored /\ u \in r.samples
    BY <2>1 DEF RawWindow, InBucket
  <2>4. r.ts \in Stored
    BY <2>1, <2>2, <2>3, <1>3
  <2>5. r.samples \subseteq Stored /\ \A t \in r.samples : BucketOf(t, RawBucket) = r.ts /\ Within(t, s)
    BY <2>1 DEF RawWindow, InBucket, Within
  <2>6. QED
    BY <2>1, <2>2, <2>3, <2>4, <2>5, <1>4 DEF RowFits
<1>5. CASE s.source # RawSource
  <2> DEFINE w == Tiers[s.source].res
  <2>1. PICK b \in s.start..s.end :
          /\ b % w = 0
          /\ r = [ts |-> b, source |-> s.source, samples |-> InBucket(b, w)]
    BY <1>5 DEF RowsFor, TierRows
  <2>2. Width(s.source) = w /\ w \in Nat \ {0}
    BY <1>5, <1>2 DEF Width
  <2> HIDE DEF w
  <2>3. b \in Stored /\ b \in Nat /\ s.start <= b /\ b <= s.end
    BY <2>1, <1>1, <1>5 DEF Stored
  <2>4. BucketOf(b, w) = b
    BY <2>1, <2>3 DEF BucketOf
  <2>5. b \in r.samples
    BY <2>1, <2>3, <2>4 DEF InBucket
  <2>6. r.samples \subseteq Stored /\ \A t \in r.samples : BucketOf(t, w) = r.ts
    BY <2>1 DEF InBucket
  <2>7. QED
    BY <2>1, <2>2, <2>3, <2>5, <2>6, <1>5 DEF RowFits
<1>6. QED
  BY <1>4, <1>5

\* In a segment the time tells the rows apart.
LEMMA RowsDiffer ==
  ASSUME NEW s, NEW r1 \in RowsFor(s), NEW r2 \in RowsFor(s), r1.ts = r2.ts
  PROVE  r1 = r2
BY DEF RowsFor, RawRows, TierRows

\* The rows of segments that fit: finitely many, each of one segment, of one time and
\* source only one.
LEMMA RowsAre ==
  ASSUME now \in Nat, NEW segs, NEW q \in Queries, Fit(segs, q)
  PROVE  /\ IsFiniteSet(Rows(segs))
         /\ \A r \in Rows(segs) : \E k \in 1..Len(segs) : r \in RowsFor(segs[k]) /\ RowFits(r, segs[k])
         /\ \A k \in 1..Len(segs) : RowsFor(segs[k]) \subseteq Rows(segs)
         /\ \A r \in Rows(segs) : r.ts \in Nat /\ r.source \in Sources
         /\ \A r1, r2 \in Rows(segs) : r1.ts = r2.ts /\ r1.source = r2.source => r1 = r2
<1>1. /\ Len(segs) \in Nat /\ DOMAIN segs = 1..Len(segs)
      /\ \A k \in 1..Len(segs) : segs[k] \in Segment
  BY LenProperties, ElementOfSeq DEF Fit
<1>2. Rows(segs) = UNION {RowsFor(segs[k]) : k \in 1..Len(segs)}
  BY <1>1 DEF Rows, RowsFor
<1>3. ASSUME NEW k \in 1..Len(segs)  PROVE segs[k].source # RawSource => segs[k].end <= now
  <2>1. SUFFICES ASSUME segs[k].source # RawSource  PROVE segs[k].end <= now
    OBVIOUS
  <2>2. segs[k].source \in 1..N /\ segs[k].end \in Nat
    BY <1>1, <2>1, TiersAre DEF Segment, Sources
  <2>3. segs[k].end + Tiers[segs[k].source].after + Overlap <= now
    BY <2>1 DEF Fit
  <2>4. Tiers[segs[k].source].after \in Nat /\ Overlap \in Nat
    BY <2>2, TiersAre, QueriesAssumption
  <2>5. QED
    BY <2>2, <2>3, <2>4
<1>4. \A r \in Rows(segs) : \E k \in 1..Len(segs) : r \in RowsFor(segs[k]) /\ RowFits(r, segs[k])
  BY <1>1, <1>2, <1>3, RowIs
<1>5. \A k \in 1..Len(segs) : RowsFor(segs[k]) \subseteq Rows(segs)
  BY <1>2
<1>6. \A r \in Rows(segs) : r.ts \in Nat /\ r.ts \in Stored /\ r.source \in Sources
  BY <1>1, <1>4 DEF RowFits, Segment, Stored
<1>7. ASSUME NEW r1 \in Rows(segs), NEW r2 \in Rows(segs), r1.ts = r2.ts, r1.source = r2.source
      PROVE  r1 = r2
  <2>1. PICK k \in 1..Len(segs) : r1 \in RowsFor(segs[k]) /\ RowFits(r1, segs[k])
    BY <1>4
  <2>2. PICK l \in 1..Len(segs) : r2 \in RowsFor(segs[l]) /\ RowFits(r2, segs[l])
    BY <1>4
  <2>3. segs[k].source = segs[l].source /\ segs[k].source \in Int
    BY <2>1, <2>2, <1>1, <1>7, WidthIs, TiersAre DEF RowFits, Segment
  <2>4. ~(k < l) /\ ~(l < k)
    BY <2>3 DEF Fit
  <2>5. k = l
    BY <2>4, <1>1
  <2>6. QED
    BY <2>1, <2>2, <2>5, <1>7, RowsDiffer
<1>8. IsFiniteSet(Rows(segs))
  <2> DEFINE S == Rows(segs)
             T == Stored \X Sources
             f == [r \in S |-> <<r.ts, r.source>>]
  <2>1. IsFiniteSet(Stored) /\ IsFiniteSet(Sources)
    <3>1. 0 \in Int /\ now \in Int /\ N \in Int
      BY TiersAre
    <3>2. QED
      BY <3>1, WidthIs, FS_Interval DEF Stored
  <2>2. IsFiniteSet(T)
    BY <2>1, FS_Product
  <2>3. f \in [S -> T]
    BY <1>6
  <2>4. \A x, y \in S : f[x] = f[y] => x = y
    BY <1>7
  <2> HIDE DEF S, T, f
  <2>5. f \in Injection(S, T)
    BY <2>3, <2>4 DEF Injection, IsInjective
  <2>6. IsFiniteSet(S)
    BY <2>2, <2>5, FS_Injection
  <2>7. QED
    BY <2>6 DEF S
<1>9. QED
  BY <1>4, <1>5, <1>6, <1>7, <1>8

\* The query's rows: every row once, by time.
RowsOf(rs, sorted) ==
  /\ sorted \in Seq(rs)
  /\ \A r \in rs : \E k \in 1..Len(sorted) : sorted[k] = r
  /\ \A k, l \in 1..Len(sorted) : k < l => sorted[k].ts <= sorted[l].ts /\ sorted[k] # sorted[l]

\* Rows in an order of time are each in the sequence once, and earlier ones come first.
LEMMA SortedIs ==
  ASSUME NEW rs, IsFiniteSet(rs), \A r \in rs : r.ts \in Nat /\ r.source \in Sources,
         \A r1, r2 \in rs : r1.ts = r2.ts /\ r1.source = r2.source => r1 = r2,
         NEW p \in Orders
  PROVE  RowsOf(rs, Sorted(rs, p))
<1> DEFINE R == {rr \in rs \X rs : Before(rr[1], rr[2], p)}
           n == Cardinality(rs)
           s == Sorted(rs, p)
           place(x) == Cardinality({y \in rs : <<y, x>> \in R})
           rank(x) == Cardinality({y \in rs : Before(y, x, p)})
<1>1. \A x, y \in rs : <<x, y>> \in R <=> Before(x, y, p)
  OBVIOUS
<1>2. \A x \in rs : rank(x) = place(x)
  <2>1. \A x \in rs : {y \in rs : Before(y, x, p)} = {y \in rs : <<y, x>> \in R}
    BY <1>1
  <2> HIDE DEF R
  <2>2. QED
    BY <2>1
<1>3. \A a, b \in Sources : p[a] \in Int /\ (p[a] = p[b] => a = b)
  <2>1. IsFiniteSet(Sources)
    <3>1. 0 \in Int /\ N \in Int
      BY TiersAre
    <3>2. QED
      BY <3>1, WidthIs, FS_Interval
  <2>2. Cardinality(Sources) \in Nat
    BY <2>1, FS_CardinalityType
  <2>3. p \in [Sources -> 1..Cardinality(Sources)] /\ IsInjective(p)
    BY DEF Orders
  <2>4. QED
    BY <2>2, <2>3 DEF IsInjective
<1>4. /\ \A x \in rs : ~Before(x, x, p)
      /\ \A x, y \in rs : x # y => Before(x, y, p) \/ Before(y, x, p)
      /\ \A x, y, z \in rs : Before(x, y, p) /\ Before(y, z, p) => Before(x, z, p)
  <2>1. \A x \in rs : ~Before(x, x, p)
    BY <1>3 DEF Before
  <2>2. ASSUME NEW x \in rs, NEW y \in rs, x # y  PROVE Before(x, y, p) \/ Before(y, x, p)
    <3>1. x.ts \in Nat /\ y.ts \in Nat /\ x.source \in Sources /\ y.source \in Sources
      OBVIOUS
    <3>2. x.ts = y.ts => p[x.source] # p[y.source]
      BY <2>2, <3>1, <1>3
    <3>3. p[x.source] \in Int /\ p[y.source] \in Int
      BY <3>1, <1>3
    <3>4. QED
      BY <3>1, <3>2, <3>3 DEF Before
  <2>3. ASSUME NEW x \in rs, NEW y \in rs, NEW z \in rs, Before(x, y, p), Before(y, z, p)
        PROVE  Before(x, z, p)
    <3>1. /\ x.ts \in Nat /\ y.ts \in Nat /\ z.ts \in Nat
          /\ p[x.source] \in Int /\ p[y.source] \in Int /\ p[z.source] \in Int
      BY <1>3
    <3>2. QED
      BY <3>1, <2>3 DEF Before
  <2>4. QED
    BY <2>1, <2>2, <2>3
<1>5. /\ \A x \in rs : <<x, x>> \notin R
      /\ \A x, y \in rs : x # y => <<x, y>> \in R \/ <<y, x>> \in R
      /\ \A x, y, z \in rs : <<x, y>> \in R /\ <<y, z>> \in R => <<x, z>> \in R
  <2> HIDE DEF R
  <2>1. QED
    BY <1>1, <1>4
<1> HIDE DEF R
<1>6. n \in Nat /\ \A i \in 1..n : \E x \in rs : place(x) = i - 1
  <2> HIDE DEF n
  <2>1. QED
    BY <1>5, RankIs DEF n
<1>7. s = [i \in 1..n |-> CHOOSE x \in rs : rank(x) = i - 1]
  BY DEF Sorted, InOrder
<1> HIDE DEF rank
<1>8. \A i \in 1..n : s[i] \in rs /\ rank(s[i]) = i - 1
  <2>1. SUFFICES ASSUME NEW i \in 1..n  PROVE s[i] \in rs /\ rank(s[i]) = i - 1
    OBVIOUS
  <2>2. \E x \in rs : rank(x) = i - 1
    <3> HIDE DEF place
    <3>1. QED
      BY <1>2, <1>6
  <2> HIDE DEF s, n
  <2>3. s[i] = CHOOSE x \in rs : rank(x) = i - 1
    BY <1>7
  <2>4. QED
    BY <2>2, <2>3
<1>9. s \in [1..n -> rs] /\ \A i \in 1..n : place(s[i]) = i - 1
  <2> HIDE DEF s, n, place
  <2>1. QED
    BY <1>2, <1>7, <1>8
<1> HIDE DEF s
<1>10. /\ \A i, j \in 1..n : i < j => <<s[i], s[j]>> \in R
       /\ \A x \in rs : \E i \in 1..n : s[i] = x
  <2>1. StrictOrder(R, rs)
    BY <1>5 DEF StrictOrder
  <2>2. Ranked(s, rs, R)
    BY <1>9 DEF Ranked
  <2> HIDE DEF place
  <2>3. QED
    BY <2>1, <2>2, OrderIs
<1>11. s \in Seq(rs) /\ Len(s) = n
  <2> HIDE DEF n
  <2>1. s \in Seq(rs) /\ DOMAIN s = 1..n
    BY <1>6, <1>9, SeqDef
  <2>2. DOMAIN s = 1..Len(s) /\ Len(s) \in Nat
    BY <2>1, LenProperties
  <2>3. QED
    BY <2>1, <2>2, <1>6
<1> HIDE DEF n
<1>12. \A k, l \in 1..n : k < l => s[k].ts <= s[l].ts /\ s[k] # s[l]
  <2>1. SUFFICES ASSUME NEW k \in 1..n, NEW l \in 1..n, k < l  PROVE s[k].ts <= s[l].ts /\ s[k] # s[l]
    OBVIOUS
  <2>2. s[k] \in rs /\ s[l] \in rs /\ Before(s[k], s[l], p)
    BY <2>1, <1>1, <1>9, <1>10
  <2>3. s[k].ts \in Nat /\ s[l].ts \in Nat
    BY <2>2
  <2>4. s[k].ts <= s[l].ts
    BY <2>2, <2>3 DEF Before
  <2>5. s[k] # s[l]
    BY <2>2, <1>4
  <2>6. QED
    BY <2>4, <2>5
<1>13. QED
  BY <1>10, <1>11, <1>12 DEF RowsOf, s

-----------------------------------------------------------------------------
(***************************************************************************)
(* The inductive invariant.                                                *)
(***************************************************************************)

RequestKnown == IF pc = "idle" THEN query = <<>> ELSE query \in Queries

\* A request that is past the choice of its tier has the one that TierFor chooses.
TierChosen ==
  /\ tier \in {0} \union 1..N
  /\ pc \in {"route", "exec", "eval", "pushed", "done"} => tier = TierFor(query) /\ tier # 0

SegmentsCut ==
  /\ segments \in Seq(Segment)
  /\ Routed => /\ Fit(segments, query)
               /\ ResolutionsGrow => Joined(segments, query)

\* The clock stands still once the rows are read, so that they stay those of the segments.
RowsRead == IF Evaluated THEN RowsOf(Rows(segments), rows) ELSE rows = <<>>

Points == [at : Nat, total : Nat, first : Stored, last : Stored]

Sliding == query.fn \in {"rate", "increase"}

\* The points of the evaluation times so far, from their windows.
PointsOfWindows == {Point(t, WindowOf(t)) : t \in {u \in EvalTimes : WindowOf(u) # {}}}

\* The evaluation is at one of the times of the request, and what its first pointer has
\* passed is out of the windows from there on.
Evaluating ==
  /\ at \in Nat /\ lo \in 1..(Len(rows) + 1) /\ out \in Seq(Points)
  /\ pc = "eval" => Sliding
  /\ pc = "pushed" => ~Sliding /\ out = <<>>
  /\ ~Evaluated => at = 0 /\ lo = 1 /\ out = <<>>
  /\ Evaluated /\ Sliding =>
       /\ at >= query.start /\ (at - query.start) % query.step = 0
       /\ \A j \in 1..(lo - 1) : rows[j].ts + query.range <= at
       /\ ToSet(out) = PointsOfWindows
  /\ pc = "done" /\ ~Sliding =>
       out = IF QueryFn(query) = "irate" THEN Consecutive(query.step) ELSE Grouped(query.step)

IInv ==
  /\ now \in Slots
  /\ pc \in {"idle", "select", "route", "exec", "eval", "pushed", "raw", "done"}
  /\ RequestKnown
  /\ TierChosen
  /\ SegmentsCut
  /\ RowsRead
  /\ Evaluating

\* The invariant holds before the first request.
LEMMA InitInv == Init => IInv
<1>1. SUFFICES ASSUME Init  PROVE IInv
  OBVIOUS
<1>2. now \in Slots
  BY <1>1, QueriesAssumption DEF Init, Slots
<1>3. Len(rows) = 0 /\ <<>> \in Seq(Segment) /\ <<>> \in Seq(Points)
  BY <1>1, EmptySeq DEF Init
<1>4. lo \in 1..(Len(rows) + 1)
  BY <1>1, <1>3 DEF Init
<1>5. Evaluating
  BY <1>1, <1>3, <1>4 DEF Init, Evaluating, Evaluated
<1>6. QED
  BY <1>1, <1>2, <1>3, <1>5 DEF Init, IInv, RequestKnown, TierChosen, SegmentsCut, RowsRead,
     Routed, Evaluated

\* The next number with a remainder of zero is a step further.
LEMMA NextMultiple ==
  ASSUME NEW a \in Nat, NEW w \in Nat \ {0}, a % w = 0
  PROVE  /\ (a + w) % w = 0
         /\ \A t \in Nat : t % w = 0 /\ a <= t /\ t < a + w => t = a
<1>1. a = w * (a \div w) /\ a \div w \in Nat
  OBVIOUS
<1> DEFINE d == a \div w
<1> HIDE DEF d
<1>2. a = w * d /\ d \in Nat
  BY <1>1 DEF d
<1>3. (a + w) % w = 0
  <2>1. a + w = w * (d + 1) /\ d + 1 \in Nat
    BY <1>2
  <2> DEFINE e == d + 1
  <2> HIDE DEF e
  <2>2. a + w = w * e /\ e \in Nat
    BY <2>1 DEF e
  <2>3. QED
    BY <2>2
<1>4. ASSUME NEW t \in Nat, t % w = 0, a <= t, t < a + w  PROVE t = a
  <2>1. t = w * (t \div w) /\ t \div w \in Nat
    BY <1>4
  <2> DEFINE c == t \div w
  <2> HIDE DEF c
  <2>2. t = w * c /\ c \in Nat
    BY <2>1 DEF c
  <2>3. ~(c >= d + 1)
    <3>1. SUFFICES ASSUME c >= d + 1  PROVE FALSE
      OBVIOUS
    <3>2. w * c >= w * (d + 1) /\ w * (d + 1) = w * d + w
      BY <3>1, <2>2, <1>2
    <3>3. QED
      BY <3>2, <2>2, <1>2, <1>4
  <2>4. ~(d >= c + 1)
    <3>1. SUFFICES ASSUME d >= c + 1  PROVE FALSE
      OBVIOUS
    <3>2. w * d >= w * (c + 1) /\ w * (c + 1) = w * c + w
      BY <3>1, <2>2, <1>2
    <3>3. QED
      BY <3>2, <2>2, <1>2, <1>4
  <2>5. c = d
    BY <2>3, <2>4, <2>2, <1>2
  <2>6. QED
    BY <2>5, <2>2, <1>2
<1>5. QED
  BY <1>3, <1>4

\* The rows that were read: finitely many, by time, each with samples.
LEMMA RowsKnown ==
  ASSUME IInv, Evaluated
  PROVE  /\ Len(rows) \in Nat /\ DOMAIN rows = 1..Len(rows)
         /\ \A j \in 1..Len(rows) :
              /\ rows[j] \in Rows(segments)
              /\ rows[j].ts \in Nat
              /\ rows[j].samples \subseteq Stored /\ rows[j].samples # {}
         /\ \A j, l \in 1..Len(rows) : j <= l => rows[j].ts <= rows[l].ts
         /\ query \in Queries /\ now \in Nat /\ Fit(segments, query)
<1>1. query \in Queries /\ now \in Nat /\ Fit(segments, query)
  BY QueriesAssumption DEF IInv, Evaluated, Routed, RequestKnown, SegmentsCut, Slots
<1>2. RowsOf(Rows(segments), rows)
  BY DEF IInv, RowsRead
<1>3. Len(rows) \in Nat /\ DOMAIN rows = 1..Len(rows) /\ \A j \in 1..Len(rows) : rows[j] \in Rows(segments)
  BY <1>2, LenProperties, ElementOfSeq DEF RowsOf
<1>4. \A r \in Rows(segments) : r.ts \in Nat /\ r.samples \subseteq Stored /\ r.samples # {}
  BY <1>1, RowsAre DEF RowFits
<1>5. \A j, l \in 1..Len(rows) : j <= l => rows[j].ts <= rows[l].ts
  <2>1. SUFFICES ASSUME NEW j \in 1..Len(rows), NEW l \in 1..Len(rows), j <= l
                 PROVE  rows[j].ts <= rows[l].ts
    OBVIOUS
  <2>2. j = l \/ j < l
    BY <2>1, <1>3
  <2>3. rows[j].ts \in Nat
    BY <1>3, <1>4
  <2>4. j < l => rows[j].ts <= rows[l].ts
    BY <1>2 DEF RowsOf
  <2>5. QED
    BY <2>2, <2>3, <2>4
<1>6. QED
  BY <1>1, <1>3, <1>4, <1>5

\* What is computed from some of the rows.
LEMMA PointIs ==
  ASSUME IInv, Evaluated, NEW t \in Nat, NEW window \in SUBSET (1..Len(rows)), window # {}
  PROVE  Point(t, window) \in Points
<1> DEFINE samples == UNION {rows[j].samples : j \in window}
           pairs == {jt \in window \X samples : jt[2] \in rows[jt[1]].samples}
<1>1. samples \subseteq Stored /\ samples # {}
  <2>1. \A j \in window : rows[j].samples \subseteq Stored /\ rows[j].samples # {}
    BY RowsKnown
  <2>2. samples \subseteq Stored
    BY <2>1
  <2>3. PICK j \in window : TRUE
    OBVIOUS
  <2>4. rows[j].samples \subseteq samples
    OBVIOUS
  <2>5. QED
    BY <2>1, <2>2, <2>3, <2>4
<1> HIDE DEF samples
<1>2. Len(rows) \in Nat /\ now \in Nat
  BY RowsKnown
<1>3. IsFiniteSet(Stored) /\ IsFiniteSet(1..Len(rows)) /\ Stored \subseteq Int
  BY <1>2, FS_Interval DEF Stored
<1>4. IsFiniteSet(samples) /\ IsFiniteSet(window)
  BY <1>1, <1>3, FS_Subset
<1>5. samples \in SUBSET Int
  BY <1>1, <1>3
<1>6. Min(samples) \in Stored /\ Max(samples) \in Stored
  BY <1>1, <1>4, <1>5, ExtremesAre
<1>7. Cardinality(pairs) \in Nat
  <2>1. IsFiniteSet(window \X samples)
    BY <1>4, FS_Product
  <2>2. pairs \subseteq window \X samples
    OBVIOUS
  <2> HIDE DEF pairs
  <2>3. IsFiniteSet(pairs)
    BY <2>1, <2>2, FS_Subset
  <2>4. QED
    BY <2>3, FS_CardinalityType
<1>8. Point(t, window) = [at |-> t, total |-> Cardinality(pairs), first |-> Min(samples), last |-> Max(samples)]
  BY DEF Point, samples
<1> HIDE DEF pairs
<1>9. QED
  BY <1>6, <1>7, <1>8 DEF Points

\* The two pointers find the rows of the window, and the first one loses none that a later
\* window could hold.
LEMMA WindowIs ==
  ASSUME IInv, pc = "eval"
  PROVE  LET first == FirstInWindow(lo, at)
         IN /\ first \in lo..(Len(rows) + 1)
            /\ \A j \in 1..(first - 1) : rows[j].ts + query.range <= at
            /\ Window(first, at) = WindowOf(at)
<1> DEFINE n == Len(rows)
           S == {j \in lo..(n + 1) : j > n \/ rows[j].ts + query.range > at}
           first == Min(S)
<1>1. /\ Evaluated /\ n \in Nat /\ DOMAIN rows = 1..n
      /\ \A j \in 1..n : rows[j].ts \in Nat
      /\ \A j, l \in 1..n : j <= l => rows[j].ts <= rows[l].ts
  BY RowsKnown DEF Evaluated
<1>2. lo \in 1..(n + 1) /\ at \in Nat /\ query.range \in Nat
      /\ \A j \in 1..(lo - 1) : rows[j].ts + query.range <= at
  <2>1. query \in Queries /\ Sliding
    BY <1>1, RowsKnown DEF IInv, Evaluating
  <2>2. QED
    BY <1>1, <2>1, RequestIs DEF IInv, Evaluating
<1> HIDE DEF n
<1>3. first \in S /\ \A j \in S : first <= j
  <2>1. n + 1 \in S
    BY <1>1, <1>2
  <2>2. S \subseteq lo..(n + 1)
    OBVIOUS
  <2> HIDE DEF S
  <2>3. IsFiniteSet(lo..(n + 1)) /\ lo..(n + 1) \subseteq Int
    BY <1>1, <1>2, FS_Interval
  <2>4. IsFiniteSet(S) /\ S \in SUBSET Int
    BY <2>2, <2>3, FS_Subset
  <2>5. QED
    BY <2>1, <2>4, ExtremesAre
<1>4. FirstInWindow(lo, at) = first
  BY DEF FirstInWindow, n
<1> HIDE DEF first
<1>5. first \in lo..(n + 1) /\ first \in Int
  BY <1>1, <1>2, <1>3
<1>6. ASSUME NEW j \in 1..(first - 1)  PROVE rows[j].ts + query.range <= at
  <2>1. CASE j < lo
    BY <2>1, <1>2
  <2>2. CASE j >= lo
    <3>1. j \in 1..n /\ j \in lo..(n + 1) /\ j \notin S
      <4>1. j \in 1..n /\ j \in lo..(n + 1) /\ j < first
        BY <2>2, <1>1, <1>2, <1>5
      <4>2. j \notin S
        <5> HIDE DEF S
        <5>1. QED
          BY <4>1, <1>3, <1>5
      <4>3. QED
        BY <4>1, <4>2
    <3>2. ~(rows[j].ts + query.range > at) /\ rows[j].ts \in Nat
      BY <3>1, <1>1
    <3>3. QED
      BY <3>2, <1>2
  <2>3. QED
    BY <2>1, <2>2, <1>2, <1>5
<1>7. ASSUME NEW j \in 1..n
      PROVE  j >= first <=> at < rows[j].ts + query.range
  <2>1. rows[j].ts \in Nat
    BY <1>1
  <2>2. ASSUME j >= first  PROVE at < rows[j].ts + query.range
    <3>1. first \in 1..n /\ first <= n
      BY <2>2, <1>1, <1>2, <1>5
    <3>2. rows[first].ts + query.range > at /\ rows[first].ts <= rows[j].ts /\ rows[first].ts \in Nat
      BY <2>2, <3>1, <1>1, <1>3
    <3>3. QED
      BY <3>2, <2>1, <1>2
  <2>3. ASSUME ~(j >= first)  PROVE ~(at < rows[j].ts + query.range)
    <3>1. j \in 1..(first - 1)
      BY <2>3, <1>1, <1>5
    <3>2. QED
      BY <3>1, <1>6, <2>1, <1>2
  <2>4. QED
    BY <2>2, <2>3
<1>8. Window(first, at) = WindowOf(at)
  <2>1. Window(first, at) = {j \in 1..n : j >= first /\ rows[j].ts <= at}
    <3>1. Window(first, at) = {j \in first..n : rows[j].ts <= at}
      BY DEF Window, n
    <3>2. first..n = {j \in 1..n : j >= first}
      BY <1>1, <1>2, <1>5
    <3>3. QED
      BY <3>1, <3>2
  <2>2. WindowOf(at) = {j \in 1..n : rows[j].ts <= at /\ at < rows[j].ts + query.range}
    BY <1>1 DEF WindowOf
  <2>3. QED
    BY <2>1, <2>2, <1>7
<1>9. QED
  BY <1>4, <1>5, <1>6, <1>8 DEF n

\* Segments cut at an earlier moment still fit when the clock has run on.
LEMMA TickStep ==
  ASSUME IInv, Tick
  PROVE  IInv'
<1> USE DEF Tick, planVars, evalVars
<1>1. now \in Nat /\ now' = now + 1 /\ now' \in Slots /\ now' \in Nat
  BY QueriesAssumption DEF IInv, Slots
<1>2. ~Evaluated /\ ~Evaluated'
  BY DEF Evaluated
<1>3. rows' = <<>> /\ at' = 0 /\ lo' = 1 /\ out' = <<>>
  BY <1>2 DEF IInv, RowsRead, Evaluating
<1>4. SegmentsCut'
  <2>1. segments' \in Seq(Segment)
    BY DEF IInv, SegmentsCut
  <2>2. Routed' => Fit(segments, query)' /\ (ResolutionsGrow => Joined(segments, query)')
    <3>1. SUFFICES ASSUME Routed'  PROVE Fit(segments, query)' /\ (ResolutionsGrow => Joined(segments, query)')
      OBVIOUS
    <3>2. Routed /\ Fit(segments, query) /\ (ResolutionsGrow => Joined(segments, query))
      BY <3>1 DEF Routed, IInv, SegmentsCut
    <3>3. \A k \in 1..Len(segments) : segments[k] \in Segment
      BY <3>2, ElementOfSeq, LenProperties DEF Fit
    <3>4. ASSUME NEW k \in 1..Len(segments), segments[k].source # RawSource
          PROVE  segments[k].end + Tiers[segments[k].source].after + Overlap <= now'
      <4>1. segments[k].source \in 1..N /\ segments[k].end \in Nat
        BY <3>3, <3>4, TiersAre DEF Segment, Sources
      <4>2. segments[k].end + Tiers[segments[k].source].after + Overlap <= now
        BY <3>2, <3>4 DEF Fit
      <4>3. Tiers[segments[k].source].after \in Nat /\ Overlap \in Nat
        BY <4>1, TiersAre, QueriesAssumption
      <4>4. QED
        BY <4>1, <4>2, <4>3, <1>1
    <3>5. Fit(segments, query)'
      BY <3>2, <3>4 DEF Fit, Usable
    <3>6. ResolutionsGrow => Joined(segments, query)'
      BY <3>2 DEF Joined, Usable
    <3>7. QED
      BY <3>5, <3>6
  <2>3. QED
    BY <2>1, <2>2 DEF SegmentsCut, ResolutionsGrow
<1>5. Evaluating'
  <2>1. Len(rows') = 0 /\ out' \in Seq(Points')
    BY <1>3, EmptySeq
  <2>2. lo' \in 1..(Len(rows') + 1) /\ at' \in Nat
    BY <1>3, <2>1
  <2>3. ~Evaluated' /\ pc' # "eval" /\ pc' # "pushed" /\ pc' # "done"
    BY <1>2 DEF Evaluated
  <2>4. QED
    BY <1>3, <2>1, <2>2, <2>3 DEF Evaluating
<1>6. QED
  BY <1>1, <1>2, <1>3, <1>4, <1>5 DEF IInv, RequestKnown, TierChosen, RowsRead, TierFor,
     SelectTier, MaxOf0, MinOf0, Reachable

\* Before the rows are read nothing is evaluated.
LEMMA NotYet ==
  ASSUME IInv, ~Evaluated, UNCHANGED <<rows, evalVars>>, ~Evaluated'
  PROVE  RowsRead' /\ Evaluating'
<1>1. rows' = <<>> /\ at' = 0 /\ lo' = 1 /\ out' = <<>>
  BY DEF IInv, RowsRead, Evaluating, evalVars
<1>2. Len(rows') = 0 /\ out' \in Seq(Points')
  BY <1>1, EmptySeq
<1>3. lo' \in 1..(Len(rows') + 1) /\ at' \in Nat
  BY <1>1, <1>2
<1>4. pc' # "eval" /\ pc' # "pushed" /\ pc' # "done"
  BY DEF Evaluated
<1>5. QED
  BY <1>1, <1>2, <1>3, <1>4 DEF Evaluating, RowsRead

\* A request begins with nothing.
LEMMA AskStep ==
  ASSUME IInv, NEW q \in Queries, Ask(q)
  PROVE  IInv'
<1> USE DEF Ask
<1>1. RowsRead' /\ Evaluating'
  BY NotYet DEF Evaluated
<1>2. QED
  BY <1>1 DEF IInv, RequestKnown, TierChosen, SegmentsCut, Routed

\* The tier that is chosen is the one TierFor names.
LEMMA SelectStep ==
  ASSUME IInv, Select
  PROVE  IInv'
<1> USE DEF Select
<1>1. RowsRead' /\ Evaluating'
  BY NotYet DEF Evaluated
<1>2. query \in Queries
  BY DEF IInv, RequestKnown
<1>3. TierFor(query) \in {0} \union 1..N
  BY <1>2, TierForIs
<1>4. TierFor(query)' = TierFor(query)
  BY DEF TierFor, SelectTier, MaxOf0, MinOf0, Reachable
<1>5. TierChosen'
  BY <1>3, <1>4 DEF TierChosen
<1>6. QED
  BY <1>1, <1>5 DEF IInv, RequestKnown, SegmentsCut, Routed

\* QuerySegments cuts the range of the request.
LEMMA RouteStep ==
  ASSUME IInv, Route
  PROVE  IInv'
<1> USE DEF Route
<1>1. RowsRead' /\ Evaluating'
  BY NotYet DEF Evaluated
<1>2. query \in Queries /\ tier \in 1..N /\ now \in Nat
  BY QueriesAssumption DEF IInv, RequestKnown, TierChosen, Slots
<1>3. segments' \in Seq(Segment)
  BY <1>2, SourcesAre
<1>4. ASSUME Routed'  PROVE Fit(segments', query) /\ (ResolutionsGrow => Joined(segments', query))
  <2>1. ~OnlyRaw(segments')
    BY <1>4 DEF Routed
  <2>2. QED
    BY <2>1, <1>2, SegmentsFit, SegmentsJoin
<1>5. SegmentsCut'
  BY <1>3, <1>4 DEF SegmentsCut, Fit, Joined, Usable, ResolutionsGrow
<1>6. TierFor(query)' = TierFor(query)
  BY DEF TierFor, SelectTier, MaxOf0, MinOf0, Reachable
<1>7. TierChosen'
  BY <1>6 DEF IInv, TierChosen
<1>8. QED
  BY <1>1, <1>5, <1>7 DEF IInv, RequestKnown

\* The rows read are those of the segments.
LEMMA ExecStep ==
  ASSUME IInv, Exec
  PROVE  IInv'
<1> USE DEF Exec
<1>1. PICK p \in Orders : rows' = Sorted(Rows(segments), p)
  OBVIOUS
<1>2. query \in Queries /\ now \in Nat /\ Fit(segments, query) /\ ~Evaluated /\ Evaluated'
  BY QueriesAssumption DEF IInv, RequestKnown, SegmentsCut, Routed, Evaluated, Slots
<1>3. RowsOf(Rows(segments), rows')
  BY <1>1, <1>2, RowsAre, SortedIs
<1>4. RowsRead'
  <2>1. Rows(segments)' = Rows(segments)
    BY DEF Rows, RawRows, TierRows, RawWindow, InBucket, Stored
  <2>2. QED
    BY <1>2, <1>3, <2>1 DEF RowsRead, RowsOf
<1>5. lo' = 1 /\ out' = <<>> /\ at' = query.start
  BY <1>2 DEF IInv, Evaluating
<1>6. Len(rows') \in Nat
  BY <1>3, LenProperties DEF RowsOf
<1>7. out' \in Seq(Points')
  BY <1>5, EmptySeq
<1>8. PointsOfWindows' = {}
  <2>1. EvalTimes' = {}
    <3>1. query'.start = query.start /\ query.start \in Nat /\ query.end \in Nat /\ at' = query.start
      BY <1>2, <1>5, RequestIs
    <3>2. QED
      BY <3>1 DEF EvalTimes
  <2>2. QED
    BY <2>1 DEF PointsOfWindows
<1>9. ToSet(out') = {}
  BY <1>5 DEF ToSet
<1>10. (at' - query'.start) % query'.step = 0 /\ at' >= query'.start /\ at' \in Nat
  <2>1. query' = query /\ query.start \in Nat /\ query.step \in Nat \ {0}
    BY <1>2, RequestIs
  <2>2. 0 % query.step = 0 /\ query.start - query.start = 0
    BY <2>1
  <2>3. QED
    BY <2>1, <2>2, <1>5
<1>11. \A j \in 1..(lo' - 1) : rows'[j].ts + query'.range <= at'
  BY <1>5
<1>12. Evaluating'
  BY <1>2, <1>5, <1>6, <1>7, <1>8, <1>9, <1>10, <1>11 DEF Evaluating, Sliding
<1>13. SegmentsCut'
  BY DEF IInv, SegmentsCut, Fit, Joined, Usable, ResolutionsGrow, Routed
<1>14. TierFor(query)' = TierFor(query)
  BY DEF TierFor, SelectTier, MaxOf0, MinOf0, Reachable
<1>15. QED
  BY <1>4, <1>12, <1>13, <1>14 DEF IInv, RequestKnown, TierChosen

\* A failed query falls back to raw samples.
LEMMA ExecFailsStep ==
  ASSUME IInv, ExecFails
  PROVE  IInv'
<1> USE DEF ExecFails, planVars
<1>1. RowsRead' /\ Evaluating'
  BY NotYet DEF Evaluated
<1>2. QED
  BY <1>1 DEF IInv, RequestKnown, TierChosen, SegmentsCut, Routed

\* Another evaluation time: the next one.
LEMMA EvalTimesGrow ==
  ASSUME IInv, EvalStep
  PROVE  /\ EvalTimes' = EvalTimes \union {at}
         /\ at' \in Nat /\ at' >= query.start /\ (at' - query.start) % query.step = 0
<1>1. /\ Evaluated /\ Sliding /\ at \in Nat /\ query \in Queries
      /\ at >= query.start /\ (at - query.start) % query.step = 0
      /\ at <= query.end /\ at' = at + query.step /\ query' = query
  BY DEF IInv, Evaluating, EvalStep, Evaluated, RequestKnown, planVars
<1> DEFINE start == query.start
           end == query.end
           step == query.step
           d == at - start
<1>2. start \in Nat /\ end \in Nat /\ step \in Nat \ {0}
  BY <1>1, RequestIs
<1>3. d \in Nat /\ d % step = 0 /\ at = start + d
  BY <1>1, <1>2
<1>4. at' = at + step /\ at' - start = d + step
  BY <1>1, <1>2
<1>5. EvalTimes' = {t \in start..end : t < at' /\ (t - start) % step = 0}
  BY <1>1 DEF EvalTimes
<1>6. EvalTimes = {t \in start..end : t < at /\ (t - start) % step = 0}
  BY DEF EvalTimes
<1>7. at <= end
  BY <1>1
<1> HIDE DEF d, start, end, step
<1>8. (d + step) % step = 0 /\ \A x \in Nat : x % step = 0 /\ d <= x /\ x < d + step => x = d
  BY <1>2, <1>3, NextMultiple
<1>9. \A t \in start..end : t < at' /\ (t - start) % step = 0 <=> (t < at /\ (t - start) % step = 0) \/ t = at
  <2>1. SUFFICES ASSUME NEW t \in start..end
                 PROVE  t < at' /\ (t - start) % step = 0 <=> (t < at /\ (t - start) % step = 0) \/ t = at
    OBVIOUS
  <2> DEFINE x == t - start
  <2>2. x \in Nat /\ t = start + x /\ t \in Nat
    BY <1>2
  <2> HIDE DEF x
  <2>3. x % step = 0 /\ d <= x /\ x < d + step => x = d
    BY <1>8, <2>2
  <2>4. (t < at' <=> x < d + step) /\ (t < at <=> x < d) /\ (t = at <=> x = d)
    BY <2>2, <1>2, <1>3, <1>4
  <2>5. x < d => x < d + step
    BY <2>2, <1>2, <1>3
  <2>6. x = d => x % step = 0 /\ x < d + step
    BY <1>2, <1>3
  <2>7. x < d + step /\ x % step = 0 => x < d \/ x = d
    BY <2>2, <2>3, <1>3
  <2>8. QED
    BY <2>4, <2>5, <2>6, <2>7 DEF x
<1>10. at \in start..end
  BY <1>2, <1>3, <1>7
<1>11. EvalTimes' = EvalTimes \union {at}
  BY <1>5, <1>6, <1>9, <1>10
<1>12. at' \in Nat /\ at' >= start /\ (at' - start) % step = 0
  <2>1. (at' - start) % step = 0
    BY <1>4, <1>8
  <2>2. QED
    BY <2>1, <1>2, <1>3, <1>4
<1>13. QED
  BY <1>11, <1>12 DEF start, step

\* A round of the loop adds the point of the window at the evaluation time, if it has rows.
LEMMA EvalStepStep ==
  ASSUME IInv, EvalStep
  PROVE  IInv'
<1> DEFINE window == Window(lo', at)
<1>1. /\ pc = "eval" /\ Evaluated /\ Evaluated' /\ Sliding /\ pc' = "eval"
      /\ lo' = FirstInWindow(lo, at)
      /\ out' = IF window = {} THEN out ELSE Append(out, Point(at, window))
      /\ UNCHANGED <<now, pc, planVars>>
  BY DEF IInv, Evaluating, EvalStep, Evaluated
<1>2. /\ lo' \in lo..(Len(rows) + 1) /\ window = WindowOf(at)
      /\ \A j \in 1..(lo' - 1) : rows[j].ts + query.range <= at
  BY <1>1, WindowIs
<1>3. /\ Len(rows) \in Nat /\ DOMAIN rows = 1..Len(rows)
      /\ \A j \in 1..Len(rows) : rows[j].ts \in Nat
      /\ query \in Queries
  BY <1>1, RowsKnown
<1>4. lo \in 1..(Len(rows) + 1) /\ out \in Seq(Points) /\ ToSet(out) = PointsOfWindows /\ at \in Nat
  BY <1>1 DEF IInv, Evaluating
<1>5. lo' \in 1..(Len(rows) + 1)
  BY <1>2, <1>3, <1>4
<1>6. window \subseteq 1..Len(rows)
  BY <1>2, <1>3 DEF WindowOf
<1>7. window # {} => Point(at, window) \in Points
  BY <1>1, <1>4, <1>6, PointIs
<1> HIDE DEF window
<1> DEFINE point == Point(at, window)
<1> HIDE DEF point
<1>8. out' \in Seq(Points) /\ ToSet(out') = ToSet(out) \union {x \in {point} : window # {}}
  <2>1. CASE window = {}
    BY <2>1, <1>1, <1>4
  <2>2. CASE window # {}
    <3>1. out' = Append(out, point) /\ point \in Points
      BY <2>2, <1>1, <1>7 DEF point
    <3>2. /\ out' \in Seq(Points) /\ Len(out') = Len(out) + 1
          /\ \A i \in 1..Len(out) : out'[i] = out[i]
          /\ out'[Len(out) + 1] = point
      BY <3>1, <1>4, AppendProperties
    <3>3. Len(out) \in Nat /\ DOMAIN out = 1..Len(out) /\ DOMAIN out' = 1..Len(out')
      BY <3>2, <1>4, LenProperties
    <3>4. ToSet(out') = ToSet(out) \union {point}
      BY <3>2, <3>3 DEF ToSet
    <3>5. QED
      BY <2>2, <3>2, <3>4
  <2>3. QED
    BY <2>1, <2>2
<1>9. /\ EvalTimes' = EvalTimes \union {at}
      /\ at' \in Nat /\ at' >= query.start /\ (at' - query.start) % query.step = 0
  BY EvalTimesGrow
<1>10. ToSet(out') = PointsOfWindows'
  <2>1. \A t : WindowOf(t)' = WindowOf(t) /\ Point(t, WindowOf(t))' = Point(t, WindowOf(t))
    BY <1>1 DEF WindowOf, Point, planVars
  <2>2. PointsOfWindows' = {Point(t, WindowOf(t)) : t \in {u \in EvalTimes' : WindowOf(u) # {}}}
    BY <2>1 DEF PointsOfWindows
  <2>3. PointsOfWindows' = PointsOfWindows \union {x \in {point} : window # {}}
    <3>1. point = Point(at, WindowOf(at)) /\ window = WindowOf(at)
      BY <1>2 DEF point
    <3>2. QED
      BY <3>1, <2>2, <1>9 DEF PointsOfWindows
  <2>4. QED
    BY <2>3, <1>4, <1>8
<1>11. ASSUME NEW j \in 1..(lo' - 1)  PROVE rows[j].ts + query.range <= at'
  <2>1. j \in 1..Len(rows)
    <3> DEFINE n == Len(rows)
               l == lo'
    <3>1. n \in Nat /\ l \in 1..(n + 1) /\ j \in 1..(l - 1)
      BY <1>3, <1>5, <1>11
    <3> HIDE DEF n, l
    <3>2. j \in 1..n
      BY <3>1
    <3>3. QED
      BY <3>2 DEF n
  <2>2. rows[j].ts + query.range <= at /\ rows[j].ts \in Nat
    BY <2>1, <1>2, <1>3
  <2>3. query.range \in Nat /\ query.step \in Nat /\ at' = at + query.step
    BY <1>3, RequestIs DEF EvalStep
  <2>4. QED
    BY <2>2, <2>3, <1>4
<1>12. rows' = rows /\ query' = query /\ now' = now /\ segments' = segments /\ tier' = tier /\ pc' = pc
  BY <1>1 DEF planVars
<1>13. Points' = Points
  BY <1>12 DEF Points, Stored
<1>14. Evaluating'
  BY <1>1, <1>5, <1>8, <1>9, <1>10, <1>11, <1>12, <1>13 DEF Evaluating, Sliding
<1>15. RowsRead'
  <2>1. Rows(segments)' = Rows(segments)
    BY <1>12 DEF Rows, RawRows, TierRows, RawWindow, InBucket, Stored
  <2>2. QED
    BY <2>1, <1>1, <1>12 DEF IInv, RowsRead, RowsOf
<1>16. SegmentsCut'
  BY <1>12 DEF IInv, SegmentsCut, Fit, Joined, Usable, ResolutionsGrow, Routed
<1>17. TierFor(query)' = TierFor(query)
  BY <1>12 DEF TierFor, SelectTier, MaxOf0, MinOf0, Reachable
<1>18. QED
  BY <1>12, <1>14, <1>15, <1>16, <1>17 DEF IInv, RequestKnown, TierChosen

\* The loop ends behind the last evaluation time.
LEMMA FinishStep ==
  ASSUME IInv, Finish
  PROVE  IInv'
<1>1. /\ pc = "eval" /\ Evaluated /\ Evaluated' /\ Sliding /\ pc' = "done"
      /\ rows' = rows /\ query' = query /\ now' = now /\ segments' = segments /\ tier' = tier
      /\ at' = at /\ lo' = lo /\ out' = out
  BY DEF IInv, Evaluating, Evaluated, Finish, planVars, evalVars
<1>2. PointsOfWindows' = PointsOfWindows
  BY <1>1 DEF PointsOfWindows, EvalTimes, WindowOf, Point
<1>3. Points' = Points /\ Rows(segments)' = Rows(segments)
  BY <1>1 DEF Points, Stored, Rows, RawRows, TierRows, RawWindow, InBucket
<1>4. Evaluating'
  BY <1>1, <1>2, <1>3 DEF IInv, Evaluating, Sliding
<1>5. RowsRead'
  BY <1>1, <1>3 DEF IInv, RowsRead, RowsOf
<1>6. SegmentsCut'
  BY <1>1 DEF IInv, SegmentsCut, Fit, Joined, Usable, ResolutionsGrow, Routed
<1>7. TierFor(query)' = TierFor(query)
  BY <1>1 DEF TierFor, SelectTier, MaxOf0, MinOf0, Reachable
<1>8. QED
  BY <1>1, <1>4, <1>5, <1>6, <1>7 DEF IInv, RequestKnown, TierChosen

\* Every step of a grouping has rows.
LEMMA GroupedIs ==
  ASSUME IInv, Evaluated
  PROVE  Grouped(query.step) \in Seq(Points)
<1> DEFINE bucket(j) == BucketOf(rows[j].ts, query.step)
           steps == {bucket(j) : j \in DOMAIN rows}
           R == {p \in steps \X steps : p[1] < p[2]}
           n == Cardinality(steps)
           ats == InOrder(steps, <)
           place(x) == Cardinality({y \in steps : <<y, x>> \in R})
           rank(x) == Cardinality({y \in steps : y < x})
           rowsAt(t) == {j \in DOMAIN rows : bucket(j) = t}
<1>1. /\ Len(rows) \in Nat /\ DOMAIN rows = 1..Len(rows) /\ query.step \in Nat \ {0} /\ now \in Nat
      /\ \A j \in DOMAIN rows : rows[j].ts \in Nat
  BY RowsKnown, RequestIs
<1>2. \A j \in DOMAIN rows : bucket(j) \in Nat
  BY <1>1, BucketIs
<1>3. steps \subseteq Nat /\ IsFiniteSet(steps)
  <2> DEFINE f == [j \in DOMAIN rows |-> bucket(j)]
  <2>1. f \in Surjection(DOMAIN rows, steps)
    BY DEF Surjection
  <2>2. IsFiniteSet(DOMAIN rows)
    <3>1. 1 \in Int /\ Len(rows) \in Int /\ DOMAIN rows = 1..Len(rows)
      BY <1>1
    <3>2. QED
      BY <3>1, FS_Interval
  <2>3. steps \subseteq Nat
    BY <1>2
  <2> HIDE DEF f, steps
  <2>4. IsFiniteSet(steps)
    BY <2>1, <2>2, FS_Surjection
  <2>5. QED
    BY <2>3, <2>4
<1>4. \A x \in steps : \E j \in DOMAIN rows : bucket(j) = x
  OBVIOUS
<1>5. Grouped(query.step) = [k \in DOMAIN ats |-> Point(ats[k], rowsAt(ats[k]))]
  BY DEF Grouped
<1> HIDE DEF bucket, steps
<1>6. \A x, y \in steps : <<x, y>> \in R <=> x < y
  OBVIOUS
<1>7. \A x \in steps : rank(x) = place(x)
  <2>1. \A x \in steps : {y \in steps : y < x} = {y \in steps : <<y, x>> \in R}
    BY <1>6
  <2> HIDE DEF R
  <2>2. QED
    BY <2>1
<1>8. /\ \A x \in steps : <<x, x>> \notin R
      /\ \A x, y \in steps : x # y => <<x, y>> \in R \/ <<y, x>> \in R
      /\ \A x, y, z \in steps : <<x, y>> \in R /\ <<y, z>> \in R => <<x, z>> \in R
  <2> HIDE DEF R
  <2>1. \A x, y \in steps : x \in Int /\ y \in Int
    BY <1>3
  <2>2. QED
    BY <1>6, <2>1
<1> HIDE DEF R
<1>9. n \in Nat /\ \A i \in 1..n : \E x \in steps : place(x) = i - 1
  <2> HIDE DEF n
  <2>1. QED
    BY <1>3, <1>8, RankIs DEF n
<1>10. ats = [i \in 1..n |-> CHOOSE x \in steps : rank(x) = i - 1]
  BY DEF InOrder
<1> HIDE DEF ats, n, rank, place
<1>11. DOMAIN ats = 1..n /\ \A i \in 1..n : ats[i] \in steps
  <2>1. \A i \in 1..n : \E x \in steps : rank(x) = i - 1
    BY <1>7, <1>9
  <2>2. QED
    BY <2>1, <1>10
<1>12. \A t \in steps : Point(t, rowsAt(t)) \in Points
  <2>1. SUFFICES ASSUME NEW t \in steps  PROVE Point(t, rowsAt(t)) \in Points
    OBVIOUS
  <2>2. rowsAt(t) \in SUBSET (1..Len(rows)) /\ rowsAt(t) # {}
    BY <1>1, <1>4
  <2>3. t \in Nat
    BY <1>3
  <2> HIDE DEF rowsAt
  <2>4. QED
    BY <2>2, <2>3, PointIs
<1> HIDE DEF rowsAt
<1>13. Grouped(query.step) \in [1..n -> Points]
  BY <1>5, <1>11, <1>12
<1>14. QED
  BY <1>9, <1>13, SeqDef

\* The points of an irate, one for each row but the first.
LEMMA ConsecutiveIs ==
  ASSUME IInv, Evaluated
  PROVE  /\ Consecutive(query.step) \in [1..(Len(rows) - 1) -> Points]
         /\ \A j \in 1..Len(rows) : LET x == Max(rows[j].samples)
                                    IN x \in rows[j].samples /\ \A t \in rows[j].samples : t <= x
<1>1. /\ Len(rows) \in Nat /\ query.step \in Nat \ {0} /\ now \in Nat
      /\ \A j \in 1..Len(rows) : /\ rows[j].ts \in Nat
                                 /\ rows[j].samples \subseteq Stored /\ rows[j].samples # {}
  BY RowsKnown, RequestIs
<1>2. Stored \subseteq Nat /\ IsFiniteSet(Stored)
  <2>1. 0 \in Int /\ now \in Int
    BY <1>1
  <2>2. QED
    BY <2>1, <1>1, FS_Interval DEF Stored
<1>3. ASSUME NEW j \in 1..Len(rows)
      PROVE  LET x == Max(rows[j].samples)
             IN x \in rows[j].samples /\ \A t \in rows[j].samples : t <= x
  <2> DEFINE S == rows[j].samples
  <2>1. S \subseteq Stored /\ S # {}
    BY <1>1
  <2> HIDE DEF S
  <2>2. S \in SUBSET Int
    BY <2>1, <1>2
  <2>3. IsFiniteSet(S)
    BY <2>1, <1>2, FS_Subset
  <2>4. Max(S) \in S /\ \A t \in S : t <= Max(S)
    BY <2>1, <2>2, <2>3, ExtremesAre
  <2>5. QED
    BY <2>4 DEF S
<1>4. ASSUME NEW j \in 1..(Len(rows) - 1)
      PROVE  LET prev == Max(rows[j].samples)
                 last == Max(rows[j + 1].samples)
             IN [at |-> BucketOf(rows[j + 1].ts, query.step), first |-> prev, last |-> last,
                 total |-> IF last >= prev THEN last - prev ELSE last] \in Points
  <2> DEFINE prev == Max(rows[j].samples)
             last == Max(rows[j + 1].samples)
             bucket == BucketOf(rows[j + 1].ts, query.step)
             total == IF last >= prev THEN last - prev ELSE last
  <2>1. j \in 1..Len(rows) /\ j + 1 \in 1..Len(rows)
    BY <1>1
  <2>2. prev \in Stored /\ last \in Stored
    BY <2>1, <1>1, <1>3
  <2>3. bucket \in Nat
    BY <2>1, <1>1, BucketIs
  <2> HIDE DEF prev, last, bucket
  <2>4. total \in Nat
    <3>1. prev \in Nat /\ last \in Nat
      BY <2>2, <1>2
    <3>2. QED
      BY <3>1
  <2> HIDE DEF total
  <2>5. [at |-> bucket, first |-> prev, last |-> last, total |-> total] \in Points
    BY <2>2, <2>3, <2>4 DEF Points
  <2>6. QED
    BY <2>5 DEF prev, last, bucket, total
<1>5. Consecutive(query.step) \in [1..(Len(rows) - 1) -> Points]
  BY <1>4 DEF Consecutive
<1>6. QED
  BY <1>3, <1>5

\* The results depend on the rows and the step alone.
LEMMA ResultsStay ==
  ASSUME rows' = rows, query' = query
  PROVE  Grouped(query.step)' = Grouped(query.step) /\ Consecutive(query.step)' = Consecutive(query.step)
<1>1. Consecutive(query.step)' = Consecutive(query.step)
  BY DEF Consecutive
<1>2. \A t, window : Point(t, window)' = Point(t, window)
  BY DEF Point
<1>3. Grouped(query.step)' = Grouped(query.step)
  BY <1>2 DEF Grouped, InOrder
<1>4. QED
  BY <1>1, <1>3

\* What the database groups or pairs has points of the same kind.
LEMMA PushedDownStep ==
  ASSUME IInv, PushedDown
  PROVE  IInv'
<1> DEFINE result == IF QueryFn(query) = "irate" THEN Consecutive(query.step) ELSE Grouped(query.step)
<1>1. /\ pc = "pushed" /\ Evaluated /\ Evaluated' /\ ~Sliding /\ pc' = "done" /\ out' = result
      /\ rows' = rows /\ query' = query /\ now' = now /\ segments' = segments /\ tier' = tier
      /\ at' = at /\ lo' = lo
  BY DEF IInv, Evaluating, Evaluated, PushedDown, planVars
<1>2. result \in Seq(Points)
  <2>1. Grouped(query.step) \in Seq(Points)
    BY <1>1, GroupedIs
  <2>2. Consecutive(query.step) \in Seq(Points)
    <3> DEFINE n == IF Len(rows) = 0 THEN 0 ELSE Len(rows) - 1
    <3>1. Len(rows) \in Nat /\ Consecutive(query.step) \in [1..(Len(rows) - 1) -> Points]
      BY <1>1, RowsKnown, ConsecutiveIs
    <3>2. n \in Nat /\ 1..(Len(rows) - 1) = 1..n
      BY <3>1
    <3> HIDE DEF n
    <3>3. Consecutive(query.step) \in [1..n -> Points]
      BY <3>1, <3>2
    <3>4. QED
      BY <3>2, <3>3, SeqDef
  <2>3. QED
    BY <2>1, <2>2
<1>3. Points' = Points /\ Rows(segments)' = Rows(segments)
  BY <1>1 DEF Points, Stored, Rows, RawRows, TierRows, RawWindow, InBucket
<1>4. result' = result
  <2>1. Grouped(query.step)' = Grouped(query.step) /\ Consecutive(query.step)' = Consecutive(query.step)
    BY <1>1, ResultsStay
  <2>2. QED
    BY <1>1, <2>1 DEF QueryFn
<1> HIDE DEF result
<1>5. out' \in Seq(Points') /\ ~Sliding' /\ out' = result'
  BY <1>1, <1>2, <1>3, <1>4 DEF Sliding
<1>6. Evaluating'
  BY <1>1, <1>5 DEF IInv, Evaluating, result
<1>7. RowsRead'
  BY <1>1, <1>3 DEF IInv, RowsRead, RowsOf
<1>8. SegmentsCut'
  BY <1>1 DEF IInv, SegmentsCut, Fit, Joined, Usable, ResolutionsGrow, Routed
<1>9. TierFor(query)' = TierFor(query)
  BY <1>1 DEF TierFor, SelectTier, MaxOf0, MinOf0, Reachable
<1>10. QED
  BY <1>1, <1>6, <1>7, <1>8, <1>9 DEF IInv, RequestKnown, TierChosen

\* A reply leaves nothing behind.
LEMMA RespondStep ==
  ASSUME IInv, Respond
  PROVE  IInv'
<1>1. /\ pc' = "idle" /\ query' = <<>> /\ tier' = 0 /\ segments' = <<>> /\ rows' = <<>>
      /\ at' = 0 /\ lo' = 1 /\ out' = <<>> /\ now' = now
  BY DEF Respond
<1>2. Len(rows') = 0 /\ segments' \in Seq(Segment) /\ out' \in Seq(Points')
  BY <1>1, EmptySeq
<1>3. lo' \in 1..(Len(rows') + 1) /\ at' \in Nat
  BY <1>1, <1>2
<1>4. Evaluating'
  BY <1>1, <1>2, <1>3 DEF Evaluating, Evaluated
<1>5. QED
  BY <1>1, <1>2, <1>4 DEF IInv, RequestKnown, TierChosen, SegmentsCut, RowsRead, Routed, Evaluated

\* Nothing changes when nothing happens.
LEMMA StutterStep ==
  ASSUME IInv, UNCHANGED vars
  PROVE  IInv'
<1>1. /\ now' = now /\ pc' = pc /\ query' = query /\ tier' = tier /\ segments' = segments
      /\ rows' = rows /\ at' = at /\ lo' = lo /\ out' = out
  BY DEF vars
<1>2. PointsOfWindows' = PointsOfWindows /\ Points' = Points /\ Rows(segments)' = Rows(segments)
  BY <1>1 DEF PointsOfWindows, EvalTimes, WindowOf, Point, Points, Stored, Rows, RawRows, TierRows,
     RawWindow, InBucket
<1>3. Grouped(query.step)' = Grouped(query.step) /\ Consecutive(query.step)' = Consecutive(query.step)
  BY <1>1, ResultsStay
<1>4. Evaluating'
  BY <1>1, <1>2, <1>3 DEF IInv, Evaluating, Sliding, Evaluated, QueryFn
<1>5. RowsRead'
  BY <1>1, <1>2 DEF IInv, RowsRead, RowsOf, Evaluated
<1>6. SegmentsCut'
  BY <1>1 DEF IInv, SegmentsCut, Fit, Joined, Usable, ResolutionsGrow, Routed
<1>7. TierFor(query)' = TierFor(query)
  BY <1>1 DEF TierFor, SelectTier, MaxOf0, MinOf0, Reachable
<1>8. QED
  BY <1>1, <1>4, <1>5, <1>6, <1>7 DEF IInv, RequestKnown, TierChosen

\* The invariant holds in every reachable state, whatever the tiers and the requests.
THEOREM Invariance == Spec => []IInv
<1>1. ASSUME IInv, [Next]_vars  PROVE IInv'
  <2>1. CASE Tick
    BY <1>1, <2>1, TickStep
  <2>2. ASSUME NEW q \in Queries, Ask(q)  PROVE IInv'
    BY <1>1, <2>2, AskStep
  <2>3. CASE Select
    BY <1>1, <2>3, SelectStep
  <2>4. CASE Route
    BY <1>1, <2>4, RouteStep
  <2>5. CASE Exec
    BY <1>1, <2>5, ExecStep
  <2>6. CASE ExecFails
    BY <1>1, <2>6, ExecFailsStep
  <2>7. CASE EvalStep
    BY <1>1, <2>7, EvalStepStep
  <2>8. CASE Finish
    BY <1>1, <2>8, FinishStep
  <2>9. CASE PushedDown
    BY <1>1, <2>9, PushedDownStep
  <2>10. CASE Respond
    BY <1>1, <2>10, RespondStep
  <2>11. CASE UNCHANGED vars
    BY <1>1, <2>11, StutterStep
  <2>12. QED
    BY <1>1, <2>1, <2>2, <2>3, <2>4, <2>5, <2>6, <2>7, <2>8, <2>9, <2>10, <2>11 DEF Next, Answer
<1>2. QED
  BY InitInv, <1>1, PTL DEF Spec

-----------------------------------------------------------------------------
(***************************************************************************)
(* What follows from it.                                                   *)
(***************************************************************************)

\* The variables have their types; the first pointer of the sliding window stays within
\* the rows.
THEOREM TypeCorrect == Spec => []TypeOK
<1>1. ASSUME IInv  PROVE TypeOK
  <2>1. query \in {<<>>} \union Requests
    BY <1>1, RequestIs DEF IInv, RequestKnown
  <2>2. tier \in {0} \union DOMAIN Tiers
    BY <1>1, TiersAre DEF IInv, TierChosen
  <2>3. \A i \in DOMAIN rows : rows[i].ts \in Nat /\ rows[i].samples \subseteq Stored
    <3>1. CASE Evaluated
      BY <1>1, <3>1, RowsKnown
    <3>2. CASE ~Evaluated
      BY <1>1, <3>2 DEF IInv, RowsRead
    <3>3. QED
      BY <3>1, <3>2
  <2>4. \A i \in DOMAIN out : out[i] \in Points
    <3>1. out \in Seq(Points)
      BY <1>1 DEF IInv, Evaluating
    <3>2. QED
      BY <3>1, LenProperties, ElementOfSeq
  <2>5. QED
    BY <1>1, <2>1, <2>2, <2>3, <2>4 DEF IInv, TypeOK, SegmentsCut, Evaluating, Points
<1>2. QED
  BY Invariance, <1>1, PTL

\* Only a histogram's quantile is computed from buckets wider than the window of its
\* function: neither the choice of the tier nor the cut of the range lets one in.
THEOREM FitsWindowHolds == Spec => []FitsWindow
<1>1. ASSUME IInv  PROVE FitsWindow
  <2>1. SUFFICES ASSUME Routed, query.fn # "histogram_quantile", NEW k \in DOMAIN segments,
                        segments[k].source # RawSource
                 PROVE  Tiers[segments[k].source].res <= query.range
    BY DEF FitsWindow
  <2>2. query \in Queries /\ Fit(segments, query) /\ tier \in 1..N /\ Tiers[tier].res <= query.range
    <3>1. query \in Queries /\ Fit(segments, query) /\ tier \in 1..N /\ tier = TierFor(query) /\ tier # 0
      BY <1>1, <2>1, TiersAre DEF IInv, Routed, RequestKnown, SegmentsCut, TierChosen
    <3>2. QED
      BY <3>1, <2>1, TierForIs
  <2>3. k \in 1..Len(segments) /\ segments[k] \in Segment
    BY <2>2, LenProperties, ElementOfSeq DEF Fit
  <2>4. Tiers[segments[k].source].res <= Tiers[tier].res
    BY <2>1, <2>2, <2>3 DEF Fit, Usable
  <2>5. segments[k].source \in 1..N
    BY <2>1, <2>3, TiersAre DEF Segment, Sources
  <2>6. Tiers[segments[k].source].res \in Nat /\ Tiers[tier].res \in Nat /\ query.range \in Nat
    BY <2>2, <2>5, TiersAre, RequestIs
  <2>7. QED
    BY <2>2, <2>4, <2>6
<1>2. QED
  BY Invariance, <1>1, PTL

\* What the segments are, once there are some.
LEMMA SegmentsAre ==
  ASSUME IInv, Routed
  PROVE  /\ query \in Queries /\ now \in Nat /\ Fit(segments, query)
         /\ Len(segments) \in Nat \ {0} /\ DOMAIN segments = 1..Len(segments)
         /\ \A k \in 1..Len(segments) :
              /\ segments[k].source \in 0..N
              /\ segments[k].start \in Nat /\ segments[k].end \in Nat
              /\ query.start <= segments[k].start /\ segments[k].start < segments[k].end
              /\ Width(segments[k].source) \in Nat \ {0}
         /\ \A k, l \in 1..Len(segments) :
              k < l => /\ segments[k].end <= segments[l].start
                       /\ segments[k].source > segments[l].source
                       /\ segments[k].source # RawSource
<1>1. query \in Queries /\ now \in Nat /\ Fit(segments, query)
  BY QueriesAssumption DEF IInv, Routed, RequestKnown, SegmentsCut, Slots
<1>2. /\ Len(segments) \in Nat \ {0} /\ DOMAIN segments = 1..Len(segments)
      /\ \A k \in 1..Len(segments) : segments[k] \in Segment
  BY <1>1, LenProperties, ElementOfSeq DEF Fit
<1>3. \A k \in 1..Len(segments) :
        /\ segments[k].source \in 0..N
        /\ segments[k].start \in Nat /\ segments[k].end \in Nat
        /\ Width(segments[k].source) \in Nat \ {0}
  BY <1>2, WidthIs DEF Segment
<1>4. \A k, l \in 1..Len(segments) :
        k < l => /\ segments[k].end <= segments[l].start
                 /\ segments[k].source > segments[l].source
                 /\ segments[k].source # RawSource
  <2>1. SUFFICES ASSUME NEW k \in 1..Len(segments), NEW l \in 1..Len(segments), k < l
                 PROVE  /\ segments[k].end <= segments[l].start
                        /\ segments[k].source > segments[l].source
                        /\ segments[k].source # RawSource
    OBVIOUS
  <2>2. segments[k].end <= segments[l].start /\ segments[k].source > segments[l].source
    BY <2>1, <1>1 DEF Fit
  <2>3. segments[k].source # 0
    BY <2>2, <1>3, TiersAre
  <2>4. QED
    BY <2>2, <2>3 DEF RawSource
<1>5. \A k \in 1..Len(segments) : query.start <= segments[k].start /\ segments[k].start < segments[k].end
  BY <1>1 DEF Fit
<1>6. QED
  BY <1>1, <1>2, <1>3, <1>4, <1>5

\* Whichever the boundaries, the range and the clock, the segments tile the range from the
\* first of them on: no sample is in two, none in none; with every tier usable, none at all
\* is left out.  That tiers get coarser with age is needed, and Validate does not see to it:
\* a tier that is left out as too coarse would leave a gap between two others.
THEOREM SegmentsTileHolds ==
  ASSUME ResolutionsGrow
  PROVE  Spec => []SegmentsTile
<1>1. ASSUME IInv  PROVE SegmentsTile
  <2>1. SUFFICES ASSUME Routed  PROVE SegmentsTile
    BY DEF SegmentsTile
  <2> DEFINE n == Len(segments)
  <2>2. /\ query \in Queries /\ now \in Nat /\ n \in Nat \ {0} /\ DOMAIN segments = 1..n
        /\ \A k \in 1..n : segments[k].start \in Nat /\ segments[k].end \in Nat
        /\ \A k, l \in 1..n : k < l => segments[k].end <= segments[l].start
        /\ \A k \in 1..n : segments[k].start < segments[k].end
    BY <1>1, <2>1, SegmentsAre
  <2>3. Joined(segments, query)
    BY <1>1, <2>1 DEF IInv, SegmentsCut
  <2>4. (\A i \in DOMAIN Tiers : Usable(i)) => segments[1].start = query.start
    BY <2>3, TiersAre DEF Joined
  <2>5. /\ \A k \in 1..(n - 1) : segments[k].end = segments[k + 1].start
        /\ segments[n].end = query.end
    BY <2>3 DEF Joined
  <2> HIDE DEF n
  <2>6. ASSUME NEW t \in Wanted, t >= segments[1].start
        PROVE  Cardinality({k \in DOMAIN segments : Within(t, segments[k])}) = 1
    <3>1. t \in Nat /\ t < query.end
      BY <2>2, <2>6 DEF Wanted, Stored
    <3> DEFINE later == {k \in 1..n : t < segments[k].end}
               k == Min(later)
    <3>2. k \in later /\ \A l \in later : k <= l
      <4>1. n \in later
        BY <3>1, <2>2, <2>5
      <4>2. later \subseteq 1..n
        OBVIOUS
      <4> HIDE DEF later
      <4>3. IsFiniteSet(1..n) /\ 1..n \subseteq Int
        BY <2>2, FS_Interval
      <4>4. IsFiniteSet(later) /\ later \in SUBSET Int
        BY <4>2, <4>3, FS_Subset
      <4>5. QED
        BY <4>1, <4>4, ExtremesAre
    <3> HIDE DEF k
    <3>3. k \in 1..n /\ t < segments[k].end
      BY <3>2
    <3>4. segments[k].start <= t
      <4>1. CASE k = 1
        BY <4>1, <2>2, <2>6, <3>1
      <4>2. CASE k # 1
        <5>1. k - 1 \in 1..n /\ k - 1 \in 1..(n - 1) /\ k - 1 + 1 = k /\ ~(k <= k - 1)
          BY <3>3, <4>2, <2>2
        <5>2. segments[k - 1].end = segments[k].start
          BY <5>1, <2>5
        <5>3. k - 1 \notin later
          BY <5>1, <3>2
        <5>4. ~(t < segments[k - 1].end) /\ segments[k - 1].end \in Nat
          BY <5>1, <5>3, <2>2
        <5>5. QED
          BY <5>2, <5>4, <3>1
      <4>3. QED
        BY <4>1, <4>2
    <3>5. ASSUME NEW l \in 1..n, Within(t, segments[l])  PROVE l = k
      <4>1. segments[l].start <= t /\ t < segments[l].end
        BY <3>5 DEF Within
      <4>2. ~(k < l)
        <5>1. SUFFICES ASSUME k < l  PROVE FALSE
          OBVIOUS
        <5>2. segments[k].end <= segments[l].start /\ segments[k].end \in Nat /\ segments[l].start \in Nat
          BY <5>1, <3>3, <2>2
        <5>3. QED
          BY <5>2, <4>1, <3>1, <3>3
      <4>3. ~(l < k)
        <5>1. SUFFICES ASSUME l < k  PROVE FALSE
          OBVIOUS
        <5>2. segments[l].end <= segments[k].start /\ segments[l].end \in Nat /\ segments[k].start \in Nat
          BY <5>1, <3>3, <2>2
        <5>3. QED
          BY <5>2, <4>1, <3>1, <3>4
      <4>4. QED
        BY <4>2, <4>3, <3>3, <2>2
    <3>6. Within(t, segments[k])
      BY <3>3, <3>4 DEF Within
    <3>7. {l \in DOMAIN segments : Within(t, segments[l])} = {k}
      <4> HIDE DEF later
      <4>1. QED
        BY <3>3, <3>5, <3>6, <2>2
    <3>8. QED
      BY <3>7, FS_Singleton
  <2>7. QED
    BY <2>4, <2>6 DEF SegmentsTile
<1>2. QED
  BY Invariance, <1>1, PTL

\* No bucket is wider than rawOverlap, which is two hours.
BucketsWithinOverlap == \A i \in 1..N : Tiers[i].res <= Overlap

\* No row stands for a sample that is younger than its tier's compact_after: rawOverlap
\* makes up for the bucket at a segment's end, which BETWEEN reads although the segment
\* ends where it begins.
THEOREM SettledOnlyHolds ==
  ASSUME BucketsWithinOverlap
  PROVE  Spec => []SettledOnly
<1>1. ASSUME IInv  PROVE SettledOnly
  <2>1. SUFFICES ASSUME NEW i \in DOMAIN rows, rows[i].source # RawSource, NEW t \in rows[i].samples
                 PROVE  t + Tiers[rows[i].source].after < now
    BY DEF SettledOnly
  <2>2. Evaluated /\ Routed
    <3>1. rows # <<>>
      BY <2>1
    <3>2. QED
      BY <1>1, <3>1 DEF IInv, RowsRead, Evaluated, Routed
  <2>3. rows[i] \in Rows(segments) /\ query \in Queries /\ now \in Nat /\ Fit(segments, query)
    BY <1>1, <2>1, <2>2, RowsKnown
  <2>4. PICK k \in 1..Len(segments) : RowFits(rows[i], segments[k])
    BY <2>3, RowsAre
  <2> DEFINE s == segments[k]
             w == Width(s.source)
             after == Tiers[s.source].after
  <2>5. /\ s.source \in 1..N /\ s.source # RawSource /\ rows[i].source = s.source
        /\ s.end \in Nat /\ w \in Nat \ {0} /\ after \in Nat /\ w <= Overlap /\ Overlap \in Nat
    <3>1. s.source = rows[i].source /\ s.source \in 0..N /\ s.end \in Nat /\ w \in Nat \ {0}
      BY <1>1, <2>2, <2>4, SegmentsAre DEF RowFits
    <3>2. s.source \in 1..N /\ w = Tiers[s.source].res
      BY <3>1, <2>1, TiersAre DEF RawSource, Width
    <3>3. QED
      BY <2>1, <3>1, <3>2, TiersAre, QueriesAssumption DEF BucketsWithinOverlap
  <2>6. /\ BucketOf(t, w) <= s.end /\ t \in Nat
        /\ s.end + after + Overlap <= now
    BY <2>1, <2>3, <2>4, <2>5 DEF RowFits, Fit, Stored
  <2> HIDE DEF w, after, s
  <2>7. t < BucketOf(t, w) + w /\ BucketOf(t, w) \in Nat
    BY <2>5, <2>6, BucketIs
  <2>8. t + after < now
    BY <2>3, <2>5, <2>6, <2>7
  <2>9. QED
    BY <2>5, <2>8 DEF after
<1>2. QED
  BY Invariance, <1>1, PTL

\* The buckets of a coarser tier consist of whole buckets of a finer one.
BucketsNest == \A i, j \in 1..N : i < j => Tiers[j].res % Tiers[i].res = 0

\* Multiples of a multiple.
LEMMA MultipleIs ==
  ASSUME NEW t \in Nat, NEW v \in Nat \ {0}, NEW w \in Nat \ {0}, t % v = 0, v % w = 0
  PROVE  t % w = 0 /\ w <= v
<1>1. t = v * (t \div v) /\ v = w * (v \div w) /\ t \div v \in Nat /\ v \div w \in Nat
  OBVIOUS
<1> DEFINE k == (v \div w) * (t \div v)
           m == v \div w
<1>2. t = w * k /\ k \in Nat
  BY <1>1
<1>3. v = w * m /\ m \in Nat
  BY <1>1
<1> HIDE DEF k, m
<1>4. t % w = 0
  BY <1>2
<1>5. m >= 1
  BY <1>3
<1>6. w * m >= w
  BY <1>3, <1>5
<1>7. QED
  BY <1>3, <1>4, <1>6

\* The bucket of a coarser width begins no later.
LEMMA NestedBuckets ==
  ASSUME NEW t \in Nat, NEW v \in Nat \ {0}, NEW w \in Nat \ {0}, v % w = 0
  PROVE  BucketOf(t, v) <= BucketOf(t, w)
<1>1. BucketOf(t, v) \in Nat /\ BucketOf(t, v) % v = 0 /\ BucketOf(t, v) <= t
  BY BucketIs
<1>2. BucketOf(t, v) % w = 0
  BY <1>1, MultipleIs
<1>3. QED
  BY <1>1, <1>2, BucketIs

\* Buckets that nest get no finer.
LEMMA NestingGrows == BucketsNest => ResolutionsGrow
<1>1. SUFFICES ASSUME BucketsNest, NEW i \in 1..N, NEW j \in 1..N, i < j
               PROVE  Tiers[i].res <= Tiers[j].res
  BY DEF ResolutionsGrow
<1>2. Tiers[j].res % Tiers[i].res = 0 /\ Tiers[i].res \in Nat \ {0} /\ Tiers[j].res \in Nat \ {0}
  BY <1>1, TiersAre DEF BucketsNest
<1>3. 0 % Tiers[j].res = 0
  BY <1>2
<1>4. QED
  BY <1>2, <1>3, MultipleIs

\* A sample of the range is in a row, unless its bucket begins before the first segment.
LEMMA SampleFound ==
  ASSUME IInv, Evaluated, BucketsNest, NEW u \in Wanted,
         u >= segments[1].start,
         BucketOf(u, Tiers[segments[1].source].res) >= segments[1].start
  PROVE  \E j \in 1..Len(rows) : /\ u \in rows[j].samples
                                 /\ \E k \in 1..Len(segments) : RowFits(rows[j], segments[k])
<1> DEFINE n == Len(segments)
           width(k) == Width(segments[k].source)
           bucket(k) == BucketOf(u, width(k))
<1>1. Routed
  BY DEF Evaluated, Routed
<1>2. /\ query \in Queries /\ now \in Nat /\ n \in Nat \ {0} /\ Fit(segments, query)
      /\ \A k \in 1..n : /\ segments[k].source \in 0..N
                         /\ segments[k].start \in Nat /\ segments[k].end \in Nat
                         /\ width(k) \in Nat \ {0}
      /\ \A k, l \in 1..n : k < l => /\ segments[k].source > segments[l].source
                                     /\ segments[k].source # RawSource
  BY <1>1, SegmentsAre
<1>3. /\ \A k \in 1..(n - 1) : segments[k].end = segments[k + 1].start
      /\ segments[n].end = query.end
  BY <1>1, NestingGrows DEF IInv, SegmentsCut, Joined
<1>4. u \in Nat /\ u \in Stored /\ u < query.end
  BY <1>2 DEF Wanted, Stored
<1>5. \A k \in 1..n : bucket(k) \in Nat /\ bucket(k) <= u /\ u < bucket(k) + width(k) /\ bucket(k) % width(k) = 0
  BY <1>2, <1>4, BucketIs
<1>6. segments[1].source # RawSource /\ bucket(1) >= segments[1].start
  BY <1>2 DEF Fit, Width
<1> DEFINE reach == {k \in 1..n : bucket(k) <= segments[k].end}
           k == Min(reach)
<1>7. k \in reach /\ \A l \in reach : k <= l
  <2>1. n \in reach
    <3>1. n \in 1..n /\ segments[n].end \in Nat /\ bucket(n) \in Nat /\ bucket(n) <= u
      BY <1>2, <1>5
    <3>2. QED
      BY <3>1, <1>3, <1>4
  <2>2. reach \subseteq 1..n
    OBVIOUS
  <2> HIDE DEF reach, n
  <2>3. IsFiniteSet(1..n) /\ 1..n \subseteq Int
    BY <1>2, FS_Interval
  <2>4. IsFiniteSet(reach) /\ reach \in SUBSET Int
    BY <2>2, <2>3, FS_Subset
  <2>5. QED
    BY <2>1, <2>4, ExtremesAre
<1> HIDE DEF k, n
<1>8. k \in 1..n /\ bucket(k) <= segments[k].end
  BY <1>7
<1>9. \/ k = 1
      \/ k - 1 \in 1..n /\ k - 1 < k /\ bucket(k - 1) > segments[k].start
  <2>1. SUFFICES ASSUME k # 1  PROVE k - 1 \in 1..n /\ k - 1 < k /\ bucket(k - 1) > segments[k].start
    OBVIOUS
  <2>2. k - 1 \in 1..n /\ k - 1 < k /\ k - 1 \in 1..(n - 1) /\ k - 1 + 1 = k /\ ~(k <= k - 1)
    BY <1>2, <1>8, <2>1
  <2>3. k - 1 \notin reach
    <3> HIDE DEF reach
    <3>1. QED
      BY <2>2, <1>7
  <2>4. ~(bucket(k - 1) <= segments[k - 1].end)
    BY <2>2, <2>3
  <2>5. segments[k - 1].end = segments[k].start /\ bucket(k - 1) \in Nat /\ segments[k].start \in Nat
    BY <2>2, <1>3, <1>2, <1>5, <1>8
  <2>6. QED
    BY <2>2, <2>4, <2>5
<1> HIDE DEF reach
<1>10. \E r \in RowsFor(segments[k]) : u \in r.samples
  <2>1. CASE segments[k].source = RawSource
    <3>1. k # 1
      BY <2>1, <1>6
    <3>2. k - 1 \in 1..n /\ bucket(k - 1) > segments[k].start
      BY <3>1, <1>9
    <3>3. segments[k].start <= u
      BY <3>2, <1>2, <1>4, <1>5, <1>8
    <3>4. segments[k].end = query.end
      <4>1. ~(k < n)
        BY <1>2, <1>8, <2>1
      <4>2. k = n
        BY <4>1, <1>2, <1>8
      <4>3. QED
        BY <4>2, <1>3
    <3>5. u \in RawWindow(segments[k])
      BY <3>3, <3>4, <1>4 DEF RawWindow
    <3> DEFINE r == [ts |-> BucketOf(u, RawBucket), source |-> RawSource,
                     samples |-> InBucket(BucketOf(u, RawBucket), RawBucket) \intersect RawWindow(segments[k])]
    <3>6. r \in RowsFor(segments[k])
      BY <3>5, <2>1 DEF RowsFor, RawRows
    <3>7. u \in r.samples
      BY <3>5, <1>4 DEF InBucket
    <3>8. QED
      BY <3>6, <3>7
  <2>2. CASE segments[k].source # RawSource
    <3> DEFINE w == Tiers[segments[k].source].res
               b == BucketOf(u, w)
               r == [ts |-> b, source |-> segments[k].source, samples |-> InBucket(b, w)]
    <3>1. b = bucket(k)
      BY <2>2 DEF Width
    <3>2. segments[k].start <= bucket(k)
      <4>1. CASE k = 1
        BY <4>1, <1>6
      <4>2. CASE k # 1
        <5>1. k - 1 \in 1..n /\ k - 1 < k /\ bucket(k - 1) > segments[k].start
          BY <4>2, <1>9
        <5>2. width(k - 1) % width(k) = 0
          <6> DEFINE a == segments[k - 1].source
                     c == segments[k].source
          <6>1. a \in 0..N /\ c \in 0..N /\ a > c /\ c # RawSource /\ N \in Nat
            BY <5>1, <1>2, <1>8, <2>2, TiersAre
          <6>2. width(k - 1) = Width(a) /\ width(k) = Width(c)
            OBVIOUS
          <6> HIDE DEF a, c, width
          <6>3. a \in 1..N /\ c \in 1..N /\ c < a /\ a # RawSource
            BY <6>1 DEF RawSource
          <6>4. Tiers[a].res % Tiers[c].res = 0
            BY <6>3 DEF BucketsNest
          <6>5. QED
            BY <6>1, <6>2, <6>3, <6>4 DEF Width
        <5>3. bucket(k - 1) <= bucket(k)
          <6>1. width(k - 1) \in Nat \ {0} /\ width(k) \in Nat \ {0}
            BY <5>1, <1>2, <1>8
          <6> HIDE DEF width
          <6>2. QED
            BY <6>1, <5>2, <1>4, NestedBuckets
        <5>4. bucket(k - 1) \in Nat /\ bucket(k) \in Nat /\ segments[k].start \in Nat
          BY <5>1, <1>2, <1>5, <1>8
        <5> HIDE DEF bucket
        <5>5. QED
          BY <5>1, <5>3, <5>4
      <4>3. QED
        BY <4>1, <4>2
    <3>3. b \in segments[k].start..segments[k].end /\ b % w = 0
      <4>1. b % w = 0
        BY <2>2, <1>5, <1>8 DEF Width
      <4>2. QED
        BY <4>1, <3>1, <3>2, <1>2, <1>5, <1>8
    <3>4. r \in RowsFor(segments[k])
      BY <3>3, <2>2 DEF RowsFor, TierRows
    <3>5. u \in r.samples
      BY <1>4 DEF InBucket
    <3>6. QED
      BY <3>4, <3>5
  <2>3. QED
    BY <2>1, <2>2
<1>11. PICK r \in RowsFor(segments[k]) : u \in r.samples
  BY <1>10
<1>12. r \in Rows(segments)
  BY <1>2, <1>8, <1>11, RowsAre DEF n
<1>13. PICK j \in 1..Len(rows) : rows[j] = r
  BY <1>12 DEF IInv, RowsRead, RowsOf
<1>14. \E l \in 1..Len(segments) : RowFits(r, segments[l])
  BY <1>2, <1>12, RowsAre
<1>15. QED
  BY <1>11, <1>13, <1>14

\* Every row that was read, with its segment and its bucket.
LEMMA RowHasSegment ==
  ASSUME IInv, Evaluated, NEW j \in 1..Len(rows)
  PROVE  \E k \in 1..Len(segments) :
           LET s == segments[k]
               w == Width(s.source)
           IN /\ rows[j].source = s.source /\ rows[j].ts \in Nat
              /\ rows[j].samples \subseteq Nat
              /\ s.source # RawSource => s.start <= rows[j].ts /\ rows[j].ts <= s.end
              /\ \A t \in rows[j].samples :
                   /\ BucketOf(t, w) = rows[j].ts /\ rows[j].ts <= t /\ t < rows[j].ts + w
                   /\ s.start <= t
<1>1. Routed
  BY DEF Evaluated, Routed
<1>2. rows[j] \in Rows(segments) /\ query \in Queries /\ now \in Nat /\ Fit(segments, query)
  BY RowsKnown
<1>3. PICK k \in 1..Len(segments) : RowFits(rows[j], segments[k])
  BY <1>2, RowsAre
<1> DEFINE s == segments[k]
           w == Width(s.source)
<1>4. s.start \in Nat /\ s.end \in Nat /\ w \in Nat \ {0}
  BY <1>1, SegmentsAre
<1>5. Stored \subseteq Nat /\ rows[j].ts \in Nat /\ rows[j].samples \subseteq Nat
  BY <1>2, <1>3 DEF RowFits, Stored
<1>6. ASSUME NEW t \in rows[j].samples
      PROVE  BucketOf(t, w) = rows[j].ts /\ rows[j].ts <= t /\ t < rows[j].ts + w /\ s.start <= t
  <2>1. t \in Nat /\ BucketOf(t, w) = rows[j].ts
    BY <1>3, <1>5 DEF RowFits
  <2>2. rows[j].ts <= t /\ t < rows[j].ts + w
    <3> HIDE DEF w
    <3>1. QED
      BY <2>1, <1>4, BucketIs
  <2>3. s.source = RawSource => s.start <= t
    BY <1>3 DEF RowFits, Within
  <2>4. s.source # RawSource => s.start <= rows[j].ts
    BY <1>3 DEF RowFits
  <2> HIDE DEF w, s
  <2>5. s.source # RawSource => s.start <= t
    BY <2>1, <2>2, <2>4, <1>4, <1>5
  <2>6. QED
    BY <2>1, <2>2, <2>3, <2>5
<1>7. rows[j].source = s.source /\ (s.source # RawSource => s.start <= rows[j].ts /\ rows[j].ts <= s.end)
  BY <1>3 DEF RowFits
<1>8. QED
  BY <1>5, <1>6, <1>7

\* A sample that two rows stand for is in a seam: one of the rows is the bucket with which
\* the older segment ends.
LEMMA SeamIs ==
  ASSUME IInv, Evaluated, NEW i \in 1..Len(rows), NEW j \in 1..Len(rows), i # j,
         NEW t \in rows[i].samples, t \in rows[j].samples
  PROVE  \E k \in 1..Len(segments) : InSeam(t, segments[k])
<1>1. Routed
  BY DEF Evaluated, Routed
<1>2. PICK k \in 1..Len(segments) :
        LET s == segments[k]
            w == Width(s.source)
        IN /\ rows[i].source = s.source /\ rows[i].ts \in Nat
           /\ rows[i].samples \subseteq Nat
           /\ s.source # RawSource => s.start <= rows[i].ts /\ rows[i].ts <= s.end
           /\ \A x \in rows[i].samples : BucketOf(x, w) = rows[i].ts /\ s.start <= x
  BY RowHasSegment
<1>3. PICK l \in 1..Len(segments) :
        LET s == segments[l]
            w == Width(s.source)
        IN /\ rows[j].source = s.source /\ rows[j].ts \in Nat
           /\ s.source # RawSource => s.start <= rows[j].ts /\ rows[j].ts <= s.end
           /\ \A x \in rows[j].samples : BucketOf(x, w) = rows[j].ts /\ s.start <= x
  BY RowHasSegment
<1>4. /\ query \in Queries /\ now \in Nat /\ Len(segments) \in Nat
      /\ \A m \in 1..Len(segments) : segments[m].start \in Nat /\ segments[m].end \in Nat
      /\ \A a, b \in 1..Len(segments) : a < b => /\ segments[a].end <= segments[b].start
                                                 /\ segments[a].source # RawSource
  BY <1>1, SegmentsAre
<1>5. k # l
  <2>1. SUFFICES ASSUME k = l  PROVE FALSE
    OBVIOUS
  <2>2. rows[i].ts = rows[j].ts /\ rows[i].source = rows[j].source
    BY <2>1, <1>2, <1>3
  <2>3. rows[i] = rows[j]
    <3>1. Fit(segments, query) /\ rows[i] \in Rows(segments) /\ rows[j] \in Rows(segments)
      BY RowsKnown
    <3>2. QED
      BY <3>1, <2>2, <1>4, RowsAre
  <2>4. rows[i] # rows[j]
    <3>1. i < j \/ j < i
      BY RowsKnown
    <3>2. QED
      BY <3>1 DEF IInv, RowsRead, RowsOf
  <2>5. QED
    BY <2>3, <2>4
<1>6. t \in Nat
  BY <1>2
<1>7. CASE k < l
  <2>1. segments[k].source # RawSource /\ segments[k].end <= segments[l].start /\ segments[l].start <= t
    BY <1>3, <1>4, <1>7
  <2>2. BucketOf(t, Tiers[segments[k].source].res) <= segments[k].end
    BY <2>1, <1>2 DEF Width
  <2>3. segments[k].end <= t
    BY <2>1, <1>4, <1>6
  <2>4. QED
    BY <2>1, <2>2, <2>3 DEF InSeam
<1>8. CASE l < k
  <2>1. segments[l].source # RawSource /\ segments[l].end <= segments[k].start /\ segments[k].start <= t
    BY <1>2, <1>4, <1>8
  <2>2. BucketOf(t, Tiers[segments[l].source].res) <= segments[l].end
    BY <2>1, <1>3 DEF Width
  <2>3. segments[l].end <= t
    BY <2>1, <1>4, <1>6
  <2>4. QED
    BY <2>1, <2>2, <2>3 DEF InSeam
<1>9. QED
  BY <1>4, <1>5, <1>7, <1>8

\* UNION ALL adds up the samples of the range once each, but for those of the buckets at
\* the seams between segments and those of the bucket that begins before the first one.
\* Nothing is lost at a seam as long as the buckets of a coarser tier consist of those of
\* the finer ones.
THEOREM DoubledOnlyInSeamsHolds ==
  ASSUME BucketsNest
  PROVE  Spec => []DoubledOnlyInSeams
<1>1. ASSUME IInv  PROVE DoubledOnlyInSeams
  <2>1. SUFFICES ASSUME Evaluated, NEW t \in Wanted
                 PROVE  /\ Copies(t) = 0 => Unread(t)
                        /\ Copies(t) > 1 => \E k \in DOMAIN segments : InSeam(t, segments[k])
    BY DEF DoubledOnlyInSeams
  <2> DEFINE S == {i \in DOMAIN rows : t \in rows[i].samples}
  <2>2. DOMAIN rows = 1..Len(rows) /\ Len(rows) \in Nat /\ Copies(t) = Cardinality(S)
    BY <1>1, <2>1, RowsKnown DEF Copies
  <2>3. IsFiniteSet(S)
    <3>1. S \subseteq 1..Len(rows) /\ IsFiniteSet(1..Len(rows))
      <4>1. 1 \in Int /\ Len(rows) \in Int
        BY <2>2
      <4>2. S \subseteq 1..Len(rows)
        BY <2>2
      <4>3. QED
        BY <4>1, <4>2, FS_Interval
    <3> HIDE DEF S
    <3>2. QED
      BY <3>1, FS_Subset
  <2>4. ASSUME Copies(t) = 0
        PROVE  Unread(t)
    <3> DEFINE b == BucketOf(t, Tiers[segments[1].source].res)
    <3>1. S = {}
      <4> HIDE DEF S
      <4>1. QED
        BY <2>2, <2>3, <2>4, FS_EmptySet
    <3>2. segments[1].start \in Nat /\ t \in Nat /\ b \in Nat
      <4>1. /\ segments[1].start \in Nat /\ Width(segments[1].source) \in Nat \ {0} /\ now \in Nat
            /\ segments[1].source # RawSource
        <5>1. Routed
          BY <2>1 DEF Routed, Evaluated
        <5>2. Len(segments) \in Nat \ {0} /\ Fit(segments, query)
          BY <1>1, <5>1, SegmentsAre
        <5>3. 1 \in 1..Len(segments)
          BY <5>2
        <5>4. QED
          BY <1>1, <5>1, <5>2, <5>3, SegmentsAre DEF Fit
      <4>2. t \in Nat
        BY <4>1 DEF Wanted, Stored
      <4>3. QED
        BY <4>1, <4>2, BucketIs DEF Width
    <3>3. ~(t >= segments[1].start /\ b >= segments[1].start)
      BY <1>1, <2>1, <2>2, <3>1, SampleFound
    <3> HIDE DEF b
    <3>4. t < segments[1].start \/ b < segments[1].start
      BY <3>2, <3>3
    <3>5. QED
      BY <3>4 DEF b, Unread
  <2>5. ASSUME Copies(t) > 1
        PROVE  \E k \in DOMAIN segments : InSeam(t, segments[k])
    <3>1. \E i, j \in S : i # j
      <4>1. SUFFICES ASSUME \A i, j \in S : i = j  PROVE FALSE
        OBVIOUS
      <4> HIDE DEF S
      <4>2. S = {} \/ \E i : S = {i}
        BY <4>1
      <4>3. Cardinality(S) = 0 \/ Cardinality(S) = 1
        BY <4>2, FS_EmptySet, FS_Singleton
      <4>4. QED
        BY <4>3, <2>2, <2>5
    <3>2. PICK i \in 1..Len(rows), j \in 1..Len(rows) :
            i # j /\ t \in rows[i].samples /\ t \in rows[j].samples
      BY <3>1, <2>2
    <3>3. \E k \in 1..Len(segments) : InSeam(t, segments[k])
      BY <1>1, <2>1, <3>2, SeamIs
    <3>4. DOMAIN segments = 1..Len(segments)
      BY <1>1, <2>1, SegmentsAre DEF Routed, Evaluated
    <3>5. QED
      BY <3>3, <3>4
  <2>6. QED
    BY <2>4, <2>5
<1>2. QED
  BY Invariance, <1>1, PTL

\* No segment has buckets wider than the widest.
LEMMA WidestIs ==
  ASSUME IInv, Routed
  PROVE  /\ Widest \in Nat
         /\ \A k \in 1..Len(segments) : Width(segments[k].source) <= Widest
<1> DEFINE used == {Tiers[i].res : i \in {j \in DOMAIN Tiers : Usable(j)}}
           S == {RawBucket} \union used
           bound == Tiers[tier].res + RawBucket
<1>1. /\ tier \in 1..N /\ RawBucket \in Nat /\ Tiers[tier].res \in Nat
      /\ \A i \in DOMAIN Tiers : Tiers[i].res \in Nat
  BY TiersAre, QueriesAssumption DEF IInv, TierChosen, Routed
<1>2. \A x \in S : x \in Nat /\ x <= bound
  BY <1>1 DEF Usable
<1>3. bound \in Nat
  BY <1>1
<1>4. S # {} /\ Widest = Max(S)
  BY DEF Widest
<1>5. RawBucket \in S /\ \A i \in DOMAIN Tiers : Usable(i) => Tiers[i].res \in S
  OBVIOUS
<1> HIDE DEF S, bound
<1>6. S \in SUBSET Nat /\ S \in SUBSET Int /\ IsFiniteSet(S)
  <2>1. S \in SUBSET Nat /\ S \in SUBSET Int
    BY <1>2
  <2>2. QED
    BY <2>1, <1>2, <1>3, FS_BoundedSetOfNaturals
<1>7. Widest \in S /\ \A x \in S : x <= Widest
  BY <1>4, <1>6, ExtremesAre
<1>8. ASSUME NEW k \in 1..Len(segments)  PROVE Width(segments[k].source) \in S
  <2>1. Fit(segments, query) /\ segments[k].source \in 0..N
    BY <1>8, SegmentsAre
  <2>2. CASE segments[k].source = RawSource
    BY <2>2, <1>5 DEF Width
  <2>3. CASE segments[k].source # RawSource
    <3>1. segments[k].source \in DOMAIN Tiers /\ Usable(segments[k].source)
      BY <2>1, <2>3, TiersAre DEF Fit, RawSource
    <3>2. QED
      BY <3>1, <2>3, <1>5 DEF Width
  <2>4. QED
    BY <2>2, <2>3
<1>9. QED
  BY <1>6, <1>7, <1>8

\* The two pointers, which only move forward, give every evaluation time exactly the rows
\* of its window, with any step and any window; and of the range's samples that come at
\* least the widest bucket after the window's beginning none is missing, but for the front
\* of the range that no segment reads.
THEOREM SlidingIsExactHolds ==
  ASSUME BucketsNest
  PROVE  Spec => []SlidingIsExact
<1>1. ASSUME IInv  PROVE SlidingIsExact
  <2>1. SUFFICES ASSUME Evaluated, query.fn = "rate"
                 PROVE  /\ ToSet(out) = PointsOfWindows
                        /\ \A t \in EvalTimes : \A u \in Wanted : WellInside(u, t) =>
                             Unread(u) \/ \E j \in WindowOf(t) : u \in rows[j].samples
    BY DEF SlidingIsExact, PointsOfWindows
  <2>2. ToSet(out) = PointsOfWindows
    BY <1>1, <2>1 DEF IInv, Evaluating, Sliding
  <2>3. ASSUME NEW t \in EvalTimes, NEW u \in Wanted, WellInside(u, t), ~Unread(u)
        PROVE  \E j \in WindowOf(t) : u \in rows[j].samples
    <3>1. Routed /\ 1 \in 1..Len(segments)
      <4>1. Routed
        BY <2>1 DEF Evaluated, Routed
      <4>2. QED
        BY <1>1, <4>1, SegmentsAre
    <3>2. /\ query \in Queries /\ now \in Nat /\ Fit(segments, query)
          /\ segments[1].start \in Nat
          /\ \A k \in 1..Len(segments) : Width(segments[k].source) \in Nat \ {0}
      BY <1>1, <3>1, SegmentsAre
    <3>3. Widest \in Nat /\ \A k \in 1..Len(segments) : Width(segments[k].source) <= Widest
      BY <1>1, <3>1, WidestIs
    <3>4. query.range \in Nat /\ query.start \in Nat /\ query.end \in Nat
      BY <3>2, RequestIs
    <3>5. t \in Nat /\ u \in Nat
      BY <3>2, <3>4 DEF EvalTimes, Wanted, Stored
    <3>6. t + Widest <= u + query.range /\ u <= t
      BY <2>3 DEF WellInside
    <3>7. BucketOf(u, Tiers[segments[1].source].res) >= segments[1].start /\ u >= segments[1].start
      <4> DEFINE w == Width(segments[1].source)
      <4>1. w = Tiers[segments[1].source].res
        BY <3>2 DEF Fit, Width
      <4>2. w \in Nat \ {0}
        BY <3>1, <3>2
      <4>3. ~(u < segments[1].start) /\ ~(BucketOf(u, w) < segments[1].start)
        BY <2>3, <4>1 DEF Unread
      <4> HIDE DEF w
      <4>4. BucketOf(u, w) \in Nat
        BY <4>2, <3>5, BucketIs
      <4>5. BucketOf(u, w) >= segments[1].start /\ u >= segments[1].start
        BY <4>3, <4>4, <3>2, <3>5
      <4>6. QED
        BY <4>1, <4>5
    <3>8. PICK j \in 1..Len(rows) : u \in rows[j].samples
      BY <1>1, <2>1, <3>7, SampleFound
    <3>9. PICK k \in 1..Len(segments) :
            /\ rows[j].ts \in Nat
            /\ rows[j].ts <= u /\ u < rows[j].ts + Width(segments[k].source)
      BY <1>1, <2>1, <3>8, RowHasSegment
    <3>10. rows[j].ts <= t /\ t < rows[j].ts + query.range
      <4> DEFINE w == Width(segments[k].source)
      <4>1. w \in Nat /\ w <= Widest /\ u < rows[j].ts + w
        BY <3>2, <3>3, <3>9
      <4> HIDE DEF w
      <4>2. query.range \in Nat /\ Widest \in Nat /\ rows[j].ts \in Nat /\ t + Widest <= u + query.range
        BY <3>3, <3>4, <3>6, <3>9
      <4>3. rows[j].ts <= t
        BY <4>2, <3>5, <3>6, <3>9
      <4>4. u < rows[j].ts + Widest
        BY <4>1, <4>2, <3>5
      <4>5. t < rows[j].ts + query.range
        BY <4>2, <4>4, <3>5
      <4>6. QED
        BY <4>3, <4>5
    <3>11. j \in WindowOf(t)
      BY <1>1, <2>1, <3>10, RowsKnown DEF WindowOf
    <3>12. QED
      BY <3>8, <3>11
  <2>4. QED
    BY <2>2, <2>3
<1>2. QED
  BY Invariance, <1>1, PTL

\* Raw samples are grouped into buckets that no tier's are narrower than.
RawIsFinest == \A i \in 1..N : RawBucket <= Tiers[i].res

\* An irate is computed from a later and an earlier sample, unless the rows are those of a
\* seam: rows of one time come in any order, and a bucket may reach beyond its segment.
THEOREM IrateLooksForwardHolds ==
  ASSUME ResolutionsGrow, RawIsFinest
  PROVE  Spec => []IrateLooksForward
<1>1. ASSUME IInv  PROVE IrateLooksForward
  <2>1. SUFFICES ASSUME pc = "done", QueryFn(query) = "irate", NEW i \in DOMAIN out,
                        out[i].first >= out[i].last
                 PROVE  \E k \in DOMAIN segments : InSeam(out[i].first, segments[k])
    BY DEF IrateLooksForward
  <2>2. Evaluated /\ Routed
    BY <2>1 DEF Evaluated, Routed
  <2>3. /\ query \in Queries /\ now \in Nat /\ Len(segments) \in Nat
        /\ DOMAIN segments = 1..Len(segments)
        /\ \A m \in 1..Len(segments) :
             /\ segments[m].start \in Nat /\ segments[m].end \in Nat
             /\ segments[m].source \in 0..N /\ Width(segments[m].source) \in Nat \ {0}
        /\ \A a, b \in 1..Len(segments) : a < b => /\ segments[a].end <= segments[b].start
                                                   /\ segments[a].source > segments[b].source
                                                   /\ segments[a].source # RawSource
    BY <1>1, <2>2, SegmentsAre
  <2>4. out = Consecutive(query.step)
    <3>1. ~Sliding
      BY <2>1 DEF Sliding, QueryFn
    <3>2. QED
      BY <1>1, <2>1, <3>1 DEF IInv, Evaluating
  <2>5. i \in 1..Len(rows) /\ i + 1 \in 1..Len(rows)
    <3>1. i \in 1..(Len(rows) - 1)
      BY <2>1, <2>4 DEF Consecutive
    <3>2. Len(rows) \in Nat
      BY <1>1, <2>2, RowsKnown
    <3>3. QED
      BY <3>1, <3>2
  <2> DEFINE x == Max(rows[i].samples)
             y == Max(rows[i + 1].samples)
             early == rows[i]
             late == rows[i + 1]
  <2>6. out[i].first = x /\ out[i].last = y
    BY <2>1, <2>4 DEF Consecutive
  <2>7. x \in early.samples /\ y \in late.samples /\ \A t \in late.samples : t <= y
    BY <1>1, <2>2, <2>5, ConsecutiveIs
  <2>8. early.ts <= late.ts /\ early # late
    <3>1. RowsOf(Rows(segments), rows)
      BY <1>1, <2>2 DEF IInv, RowsRead
    <3>2. \A k, l \in 1..Len(rows) : k < l => rows[k].ts <= rows[l].ts /\ rows[k] # rows[l]
      BY <3>1 DEF RowsOf
    <3>3. i < i + 1
      BY <2>5
    <3>4. QED
      BY <2>5, <3>2, <3>3
  <2>9. PICK k \in 1..Len(segments) :
          LET s == segments[k]
              w == Width(s.source)
          IN /\ early.source = s.source /\ early.ts \in Nat /\ early.samples \subseteq Nat
             /\ s.source # RawSource => s.start <= early.ts /\ early.ts <= s.end
             /\ \A t \in early.samples :
                  /\ BucketOf(t, w) = early.ts /\ early.ts <= t /\ t < early.ts + w
                  /\ s.start <= t
    BY <1>1, <2>2, <2>5, RowHasSegment
  <2>10. PICK l \in 1..Len(segments) :
           LET s == segments[l]
               w == Width(s.source)
           IN /\ late.source = s.source /\ late.ts \in Nat /\ late.samples \subseteq Nat
              /\ s.source # RawSource => s.start <= late.ts /\ late.ts <= s.end
              /\ \A t \in late.samples :
                   /\ BucketOf(t, w) = late.ts /\ late.ts <= t /\ t < late.ts + w
                   /\ s.start <= t
    BY <1>1, <2>2, <2>5, RowHasSegment
  <2> DEFINE wk == Width(segments[k].source)
             wl == Width(segments[l].source)
  <2>11. /\ x \in Nat /\ y \in Nat /\ early.ts \in Nat /\ late.ts \in Nat
         /\ BucketOf(x, wk) = early.ts /\ early.ts <= x /\ x < early.ts + wk
         /\ BucketOf(y, wl) = late.ts /\ late.ts <= y /\ y < late.ts + wl
         /\ segments[k].start <= x /\ segments[l].start <= y
    BY <2>7, <2>9, <2>10
  <2>12. wk \in Nat \ {0} /\ wl \in Nat \ {0}
    BY <2>3
  <2>13. x >= y
    BY <2>1, <2>6
  <2> HIDE DEF x, y, wk, wl
  \* Of one segment: the later row has the later bucket.
  <2>14. CASE k = l
    <3>1. wk = wl /\ early.source = late.source
      BY <2>9, <2>10, <2>14 DEF wk, wl
    <3>2. early.ts # late.ts
      <4>1. early \in Rows(segments) /\ late \in Rows(segments) /\ Fit(segments, query)
        BY <1>1, <2>2, <2>5, RowsKnown
      <4>2. QED
        BY <4>1, <3>1, <2>3, <2>8, RowsAre
    <3>3. early.ts < late.ts
      BY <3>2, <2>8, <2>11
    <3>4. late.ts % wk = 0 /\ late.ts <= x
      <4>1. late.ts % wk = 0
        BY <3>1, <2>11, <2>12, BucketIs
      <4>2. late.ts <= x
        BY <2>11, <2>13
      <4>3. QED
        BY <4>1, <4>2
    <3>5. late.ts <= early.ts
      BY <3>4, <2>11, <2>12, BucketIs
    <3>6. QED
      BY <3>3, <3>5, <2>11
  \* The earlier row is of the older segment: its sample is past the segment's end.
  <2>15. CASE k < l
    <3>1. segments[k].source # RawSource /\ segments[k].end <= segments[l].start
      BY <2>3, <2>15
    <3>2. segments[k].end <= x
      BY <3>1, <2>3, <2>11, <2>13
    <3>3. BucketOf(x, Tiers[segments[k].source].res) <= segments[k].end
      BY <3>1, <2>9, <2>11 DEF Width, wk
    <3>4. InSeam(x, segments[k])
      BY <3>1, <3>2, <3>3 DEF InSeam
    <3>5. QED
      BY <3>4, <2>3, <2>6 DEF x
  \* The earlier row is of the younger segment, and reads no later time: it is in the
  \* bucket in which the older segment ends.
  <2>16. CASE l < k
    <3>1. segments[l].source # RawSource /\ segments[l].source > segments[k].source
          /\ segments[l].end <= segments[k].start
      BY <2>3, <2>16
    <3>2. segments[l].end <= x
      BY <3>1, <2>3, <2>11
    <3>3. late.ts <= segments[l].end
      BY <3>1, <2>10
    <3>4. wk <= wl
      <4> DEFINE a == segments[k].source
                 c == segments[l].source
      <4>1. a \in 0..N /\ c \in 0..N /\ c > a /\ c # RawSource /\ N \in Nat
        BY <3>1, <2>3, TiersAre
      <4>2. wk = Width(a) /\ wl = Width(c)
        BY DEF wk, wl
      <4> HIDE DEF a, c
      <4>3. c \in 1..N /\ (a # RawSource => a \in 1..N)
        BY <4>1 DEF RawSource
      <4>4. CASE a = RawSource
        BY <4>2, <4>3, <4>4, <4>1 DEF Width, RawIsFinest
      <4>5. CASE a # RawSource
        BY <4>2, <4>3, <4>5, <4>1 DEF Width, ResolutionsGrow
      <4>6. QED
        BY <4>4, <4>5
    <3>5. BucketOf(x, wl) <= segments[l].end
      <4>1. late.ts % wl = 0 /\ late.ts <= x
        <5>1. late.ts % wl = 0
          BY <2>11, <2>12, BucketIs
        <5>2. late.ts <= x
          BY <3>2, <3>3, <2>3, <2>11
        <5>3. QED
          BY <5>1, <5>2
      <4>2. x < late.ts + wl
        BY <3>4, <2>8, <2>11, <2>12
      <4>3. /\ BucketOf(x, wl) \in Nat /\ BucketOf(x, wl) <= x /\ BucketOf(x, wl) % wl = 0
            /\ late.ts <= BucketOf(x, wl)
        BY <4>1, <2>11, <2>12, BucketIs
      <4>4. BucketOf(x, wl) < late.ts + wl
        BY <4>2, <4>3, <2>11, <2>12
      <4>5. BucketOf(x, wl) = late.ts
        BY <4>1, <4>3, <4>4, <2>11, <2>12, NextMultiple
      <4>6. QED
        BY <4>5, <3>3
    <3>6. InSeam(x, segments[l])
      <4>1. wl = Tiers[segments[l].source].res
        BY <3>1 DEF wl, Width
      <4>2. QED
        BY <4>1, <3>1, <3>2, <3>5 DEF InSeam
    <3>7. QED
      BY <3>6, <2>3, <2>6 DEF x
  <2>17. QED
    BY <2>3, <2>14, <2>15, <2>16
<1>2. QED
  BY Invariance, <1>1, PTL
=============================================================================
