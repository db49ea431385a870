---------------------------- MODULE SeriesProofs -----------------------------
(***************************************************************************)
(* Theorems about SeriesFetch and SeriesListing, for every value of their  *)
(* constants: any series, workers and thresholds; any listings and limit.  *)
(*                                                                         *)
(* The inductive invariant IInv follows a query's fingerprints from the    *)
(* index to the result: those picked are distinct and of the query's       *)
(* metric, each is still with one worker or in the result once, and none   *)
(* is lost while no worker fails.  Until a response that broke off is      *)
(* installed, the index only grows, so that what was picked or shown is    *)
(* still in it.                                                            *)
(*                                                                         *)
(* A listing has an invariant of its own, on top of that one: selectors    *)
(* behind it are covered by what it has listed, and of the current one     *)
(* each series is listed or still to be looked up, and stays in the index. *)
(* That nothing is listed without a selector that matches it needs neither *)
(* a whole index nor whole responses.                                      *)
(***************************************************************************)
EXTENDS SeriesListing, SetLemmas

-----------------------------------------------------------------------------
(***************************************************************************)
(* SeriesFetch: the inductive invariant.                                   *)
(***************************************************************************)

\* The query has picked its fingerprints, and its result comes from the cache.
FromCache == pc \in {"fetching", "counting", "fetched", "counted"}

\* Before and after that it holds nothing; while it is under way it has a selector.
HoldsNothing ==
  /\ pc # "idle" => selector \in Selectors
  /\ ~FromCache => picked = <<>> /\ pending = Nothing
  /\ pc \in {"idle", "evaluating", "joining"} => found = {} /\ ~failed
  /\ pc \in {"fetched", "counted"} => \A w \in Workers : pending[w] = {}

\* What was picked is in the table, each fingerprint once.
PickedInTable ==
  FromCache => /\ ToSet(picked) \subseteq Fps(Matching(timeSeries, selector))
               /\ IsInjective(picked)

\* A fingerprint is with one worker, or in the result, once.
InOnePlace ==
  FromCache =>
    /\ Fps(found) \subseteq ToSet(picked)
    /\ \A f, g \in found : f.fp = g.fp => f = g
    /\ \A w \in Workers : pending[w] \intersect Fps(found) = {}
    /\ \A w, v \in Workers : w # v => pending[w] \intersect pending[v] = {}

\* A fetch whose workers have not failed loses none; a count may, once the index has shrunk.
NoneLost ==
  FromCache /\ ~failed /\ (pc \in {"counting", "counted"} => ~cut) =>
    \A fp \in ToSet(picked) : fp \in Fps(found) \/ \E w \in Workers : fp \in pending[w]

\* Until a response that broke off is installed the index only grows: it holds what has
\* been shown, what has been picked, and what it will be replaced by holds all of it.
IndexGrows ==
  ~cut => /\ shown \subseteq cached
          /\ refresher = "decoding" => cached \subseteq response
          /\ FromCache => /\ ToSet(picked) \subseteq Fps(Matching(cached, selector))
                          /\ Fps(Matching(shown, selector)) \subseteq ToSet(picked)
                          /\ \A f \in found : f.labelled

IInv ==
  /\ TypeOK /\ IsFiniteSet(timeSeries)
  /\ HoldsNothing /\ PickedInTable /\ InOnePlace /\ NoneLost /\ IndexGrows

-----------------------------------------------------------------------------
(***************************************************************************)
(* Fingerprints, and the chunks of a sequence of them.                     *)
(***************************************************************************)

\* The fingerprints of finitely many series are finitely many.
LEMMA FpsFinite ==
  ASSUME NEW S, IsFiniteSet(S)
  PROVE  IsFiniteSet(Fps(S))
<1> DEFINE f == [s \in S |-> s.fp]
<1>1. f \in Surjection(S, Fps(S))
  <2>1. f \in [S -> Fps(S)]
    BY DEF Fps
  <2>2. \A x \in Fps(S) : \E s \in S : f[s] = x
    BY DEF Fps
  <2>3. QED
    BY <2>1, <2>2 DEF Surjection
<1>2. QED
  BY <1>1, FS_Surjection

\* The chunks of a sequence without repetitions: every element is in exactly one.
LEMMA ChunksPartition ==
  ASSUME NEW S, NEW s \in Seq(S), IsInjective(s)
  PROVE  /\ \A w \in Workers : Chunk(s, w) \subseteq ToSet(s)
         /\ \A x \in ToSet(s) : \E w \in Workers : x \in Chunk(s, w)
         /\ \A w, v \in Workers : w # v => Chunk(s, w) \intersect Chunk(s, v) = {}
<1>1. Len(s) \in Nat /\ DOMAIN s = 1..Len(s)
  BY LenProperties
<1>2. 1 \in Workers /\ NumWorkers \in Nat \ {0}
  BY FetchAssumption DEF Workers
<1>3. CASE Len(s) < ParallelThreshold
  BY <1>3, <1>2 DEF Chunk
<1>4. CASE ~(Len(s) < ParallelThreshold)
  <2> DEFINE size == ChunkSize(Len(s))
  <2>1. size \in Nat /\ size * NumWorkers >= Len(s)
    <3>1. Len(s) + NumWorkers - 1 \in Nat
      BY <1>1, <1>2
    <3>2. QED
      BY <3>1, <1>1, <1>2 DEF ChunkSize
  <2> HIDE DEF size
  <2>2. \A w \in Workers : Chunk(s, w) =
          {s[i] : i \in {j \in DOMAIN s : (w - 1) * size < j /\ j <= w * size}}
    BY <1>4 DEF Chunk, size
  <2>3. \A w \in Workers : Chunk(s, w) \subseteq ToSet(s)
    BY <2>2 DEF ToSet
  <2>4. ASSUME NEW x \in ToSet(s)  PROVE \E w \in Workers : x \in Chunk(s, w)
    <3>1. PICK j \in 1..Len(s) : s[j] = x
      BY <1>1 DEF ToSet
    <3>2. size > 0
      BY <2>1, <1>1, <1>2
    <3> DEFINE w == (j - 1) \div size + 1
    <3>3. w \in Nat \ {0} /\ (w - 1) * size <= j - 1 /\ j - 1 < w * size
      BY <3>2, <2>1, <1>1
    <3> HIDE DEF w
    <3>4. (w - 1) * size < NumWorkers * size
      BY <3>3, <2>1, <1>1, <1>2
    <3>5. w <= NumWorkers
      BY <3>4, <3>3, <3>2, <2>1, <1>2
    <3>6. (w - 1) * size < j /\ j <= w * size
      BY <3>3, <2>1, <1>1
    <3>7. w \in Workers
      BY <3>3, <3>5 DEF Workers
    <3>8. QED
      BY <3>7, <3>6, <3>1, <2>2, <1>1
  <2>5. ASSUME NEW w \in Workers, NEW v \in Workers, w # v, NEW x, x \in Chunk(s, w), x \in Chunk(s, v)
        PROVE  FALSE
    <3>1. PICK i \in 1..Len(s) : x = s[i] /\ (w - 1) * size < i /\ i <= w * size
      BY <2>2, <2>5, <1>1
    <3>2. PICK j \in 1..Len(s) : x = s[j] /\ (v - 1) * size < j /\ j <= v * size
      BY <2>2, <2>5, <1>1
    <3>3. i = j
      BY <3>1, <3>2, <1>1 DEF IsInjective
    <3>4. w \in Nat /\ v \in Nat
      BY <1>2 DEF Workers
    <3>5. (w - 1) * size < v * size /\ (v - 1) * size < w * size
      BY <3>1, <3>2, <3>3, <3>4, <2>1, <1>1
    <3>6. w - 1 < v /\ v - 1 < w
      BY <3>5, <3>4, <2>1
    <3>7. QED
      BY <3>6, <3>4, <2>5
  <2>6. QED
    BY <2>3, <2>4, <2>5
<1>5. QED
  BY <1>3, <1>4

\* GetFingerprints returns what the selector matches in the index, each fingerprint once.
LEMMA PickIs ==
  ASSUME NEW q, Pick(q), IsFiniteSet(cached), cached \subseteq AllSeries
  PROVE  /\ picked' \in Seq(Fps(AllSeries))
         /\ ToSet(picked') = Fps(Matching(cached, q))
         /\ IsInjective(picked')
<1> DEFINE P == Fps(Matching(cached, q))
<1>1. IsFiniteSet(P)
  <2>1. Matching(cached, q) \subseteq cached
    BY DEF Matching, OfMetric
  <2>2. IsFiniteSet(Matching(cached, q))
    BY <2>1, FS_Subset
  <2>3. QED
    BY <2>2, FpsFinite
<1>2. picked' = SetToSeq(P)
  BY DEF Pick
<1> HIDE DEF P
<1>3. picked' \in Seq(P) /\ ToSet(picked') = P /\ IsInjective(picked')
  BY <1>1, <1>2, SetToSeqIs
<1>4. P \subseteq Fps(AllSeries)
  BY DEF P, Fps, Matching, OfMetric
<1>5. picked' \in Seq(Fps(AllSeries))
  <2>1. Len(picked') \in Nat /\ picked' \in [1..Len(picked') -> P]
    BY <1>3, LenProperties
  <2>2. picked' \in [1..Len(picked') -> Fps(AllSeries)]
    BY <2>1, <1>4
  <2>3. QED
    BY <2>1, <2>2, SeqDef
<1>6. QED
  BY <1>3, <1>5 DEF P

-----------------------------------------------------------------------------
(***************************************************************************)
(* The invariant holds: initially, and after each step.                    *)
(***************************************************************************)

\* Nothing has been asked yet, and the index holds the table or nothing.
LEMMA InitInv == Init => IInv
<1> SUFFICES ASSUME Init  PROVE IInv
  OBVIOUS
<1>1. ToSet(picked) = {} /\ picked \in Seq(Fps(AllSeries))
  BY DEF Init, ToSet
<1>2. pending \in [Workers -> SUBSET ToSet(picked)]
  BY DEF Init, Nothing
<1>3. TypeOK
  BY <1>1, <1>2, FetchAssumption DEF Init, TypeOK
<1>4. IsFiniteSet(timeSeries)
  BY FetchAssumption DEF Init
<1>5. HoldsNothing
  BY DEF Init, HoldsNothing, FromCache
<1>6. PickedInTable /\ InOnePlace /\ NoneLost /\ IndexGrows
  BY DEF Init, PickedInTable, InOnePlace, NoneLost, IndexGrows, FromCache
<1>7. QED
  BY <1>3, <1>4, <1>5, <1>6 DEF IInv

\* A larger table has more fingerprints for a selector.
LEMMA MatchingGrows ==
  ASSUME NEW S, NEW T, S \subseteq T, NEW q
  PROVE  Fps(Matching(S, q)) \subseteq Fps(Matching(T, q))
BY DEF Fps, Matching, OfMetric

\* While the table or the index changes and the query does not, the query's part holds on.
LEMMA QueryUnmoved ==
  ASSUME IInv, UNCHANGED <<pc, selector, picked, pending, failed, found>>,
         timeSeries \subseteq timeSeries', cut => cut'
  PROVE  HoldsNothing' /\ PickedInTable' /\ InOnePlace' /\ NoneLost'
<1>1. HoldsNothing'
  BY DEF IInv, HoldsNothing, FromCache
<1>2. Fps(Matching(timeSeries, selector)) \subseteq Fps(Matching(timeSeries', selector))
  BY MatchingGrows
<1>3. PickedInTable'
  BY <1>2 DEF IInv, PickedInTable, FromCache
<1>4. InOnePlace'
  BY DEF IInv, InOnePlace, FromCache
<1>5. NoneLost'
  <2>1. FromCache' = FromCache
    BY DEF FromCache
  <2>2. ~cut' => ~cut
    OBVIOUS
  <2>3. QED
    BY <2>1, <2>2 DEF IInv, NoneLost
<1>6. QED
  BY <1>1, <1>3, <1>4, <1>5

\* The writer and the refresh.
LEMMA RefreshStep ==
  ASSUME IInv, Refresh \/ \E s \in AllSeries : Ingest(s)
  PROVE  IInv'
<1>1. ASSUME NEW s \in AllSeries, Ingest(s)  PROVE IInv'
  <2> USE <1>1 DEF Ingest, cacheVars, queryVars
  <2>1. TypeOK'
    BY DEF IInv, TypeOK
  <2>2. IsFiniteSet(timeSeries')
    BY FS_AddElement DEF IInv
  <2>3. HoldsNothing' /\ PickedInTable' /\ InOnePlace' /\ NoneLost'
    BY QueryUnmoved
  <2>4. IndexGrows'
    BY DEF IInv, IndexGrows, FromCache
  <2>5. QED
    BY <2>1, <2>2, <2>3, <2>4 DEF IInv
<1>2. CASE RefreshBegins
  <2> USE <1>2 DEF RefreshBegins, tableVars, queryVars
  <2>1. TypeOK' /\ IsFiniteSet(timeSeries')
    BY DEF IInv, TypeOK
  <2>2. HoldsNothing' /\ PickedInTable' /\ InOnePlace' /\ NoneLost'
    BY QueryUnmoved
  <2>3. IndexGrows'
    BY DEF IInv, IndexGrows, FromCache, TypeOK
  <2>4. QED
    BY <2>1, <2>2, <2>3 DEF IInv
<1>3. CASE RefreshCompletes
  <2> USE <1>3 DEF RefreshCompletes, Install, tableVars, queryVars
  <2>1. TypeOK' /\ IsFiniteSet(timeSeries')
    BY DEF IInv, TypeOK
  <2>2. HoldsNothing' /\ PickedInTable' /\ InOnePlace' /\ NoneLost'
    BY QueryUnmoved
  <2>3. IndexGrows'
    <3>1. ~cut => cached \subseteq response
      BY DEF IInv, IndexGrows
    <3>2. ~cut => Fps(Matching(cached, selector)) \subseteq Fps(Matching(cached', selector))
      BY <3>1, MatchingGrows
    <3>3. QED
      BY <3>1, <3>2 DEF IInv, IndexGrows, FromCache
  <2>4. QED
    BY <2>1, <2>2, <2>3 DEF IInv
<1>4. CASE RefreshCutShort
  <2> USE <1>4 DEF RefreshCutShort, Install, tableVars
  <2>1. TypeOK' /\ IsFiniteSet(timeSeries')
    BY DEF IInv, TypeOK
  <2>2. HoldsNothing' /\ PickedInTable' /\ InOnePlace' /\ NoneLost'
    BY QueryUnmoved
  <2>3. IndexGrows'
    BY DEF IndexGrows
  <2>4. QED
    BY <2>1, <2>2, <2>3 DEF IInv
<1>5. CASE RefreshSpins
  <2> USE <1>5 DEF RefreshSpins, tableVars, queryVars
  <2>1. TypeOK' /\ IsFiniteSet(timeSeries')
    BY DEF IInv, TypeOK
  <2>2. HoldsNothing' /\ PickedInTable' /\ InOnePlace' /\ NoneLost'
    BY QueryUnmoved
  <2>3. IndexGrows'
    BY DEF IInv, IndexGrows, FromCache
  <2>4. QED
    BY <2>1, <2>2, <2>3 DEF IInv
<1>6. QED
  BY <1>1, <1>2, <1>3, <1>4, <1>5 DEF Refresh

\* The fingerprints of a selector are picked and shared out among the workers.
LEMMA PickStep ==
  ASSUME IInv, NEW q \in Selectors, pc \in {"idle", "evaluating"}, Pick(q), selector' = q,
         UNCHANGED <<tableVars, cacheVars, failed, found, shown>>,
         pc' \in {"counting", "fetching"},
         pending' \in [Workers -> SUBSET ToSet(picked')],
         \A fp \in ToSet(picked') : \E w \in Workers : fp \in pending'[w],
         \A w, v \in Workers : w # v => pending'[w] \intersect pending'[v] = {}
  PROVE  IInv'
<1> USE DEF tableVars, cacheVars
<1>1. cached \subseteq AllSeries /\ IsFiniteSet(cached)
  <2>1. cached \subseteq timeSeries /\ timeSeries \subseteq AllSeries /\ IsFiniteSet(timeSeries)
    BY DEF IInv, TypeOK
  <2>2. QED
    BY <2>1, FS_Subset
<1>2. /\ picked' \in Seq(Fps(AllSeries))
      /\ ToSet(picked') = Fps(Matching(cached, q))
      /\ IsInjective(picked')
  BY <1>1, PickIs
<1>3. found = {} /\ ~failed
  BY DEF IInv, HoldsNothing
<1>4. TypeOK' /\ IsFiniteSet(timeSeries')
  BY <1>2 DEF IInv, TypeOK
<1>5. HoldsNothing'
  BY DEF HoldsNothing, FromCache
<1>6. PickedInTable'
  <2>1. cached \subseteq timeSeries'
    BY DEF IInv, TypeOK
  <2>2. Fps(Matching(cached, q)) \subseteq Fps(Matching(timeSeries', q))
    BY <2>1, MatchingGrows
  <2>3. QED
    BY <2>2, <1>2 DEF PickedInTable
<1>7. InOnePlace'
  BY <1>3 DEF InOnePlace, Fps
<1>8. NoneLost'
  BY DEF NoneLost
<1>9. IndexGrows'
  <2>1. ~cut => Fps(Matching(shown, q)) \subseteq ToSet(picked')
    <3>1. ~cut => shown \subseteq cached
      BY DEF IInv, IndexGrows
    <3>2. QED
      BY <3>1, <1>2, MatchingGrows
  <2>2. QED
    BY <2>1, <1>2, <1>3 DEF IInv, IndexGrows
<1>10. QED
  BY <1>4, <1>5, <1>6, <1>7, <1>8, <1>9 DEF IInv

\* Count and AskCache; and the queries that do not ask the index.
LEMMA AskStep ==
  ASSUME IInv, Ask \/ AskCache \/ AskJoin
  PROVE  IInv'
<1>1. ASSUME NEW q \in Selectors, Count(q)  PROVE IInv'
  <2> USE <1>1 DEF Count
  <2>1. 1 \in Workers
    BY FetchAssumption DEF Workers
  <2>2. pending' = [w \in Workers |-> IF w = 1 THEN ToSet(picked') ELSE {}]
    BY DEF Nothing
  <2>3. pending' \in [Workers -> SUBSET ToSet(picked')]
    BY <2>2
  <2>4. \A fp \in ToSet(picked') : \E w \in Workers : fp \in pending'[w]
    BY <2>1, <2>2
  <2>5. \A w, v \in Workers : w # v => pending'[w] \intersect pending'[v] = {}
    BY <2>2
  <2>6. QED
    BY <2>3, <2>4, <2>5, PickStep
<1>2. ASSUME NEW q \in Selectors, Evaluate(q)  PROVE IInv'
  <2> USE <1>2 DEF Evaluate, tableVars, cacheVars
  <2>1. TypeOK' /\ IsFiniteSet(timeSeries')
    BY DEF IInv, TypeOK
  <2>2. HoldsNothing'
    BY DEF IInv, HoldsNothing, FromCache
  <2>3. PickedInTable' /\ InOnePlace' /\ NoneLost'
    BY DEF PickedInTable, InOnePlace, NoneLost, FromCache
  <2>4. IndexGrows'
    BY DEF IInv, IndexGrows, FromCache
  <2>5. QED
    BY <2>1, <2>2, <2>3, <2>4 DEF IInv
<1>3. CASE AskCache
  <2> USE <1>3 DEF AskCache
  <2>1. selector \in Selectors
    BY DEF IInv, HoldsNothing
  <2>2. cached \subseteq AllSeries /\ IsFiniteSet(cached)
    <3>1. cached \subseteq timeSeries /\ timeSeries \subseteq AllSeries /\ IsFiniteSet(timeSeries)
      BY DEF IInv, TypeOK
    <3>2. QED
      BY <3>1, FS_Subset
  <2>3. picked' \in Seq(Fps(AllSeries)) /\ IsInjective(picked')
    BY <2>2, PickIs
  <2>4. pending' = [w \in Workers |-> Chunk(picked', w)]
    OBVIOUS
  <2>5. pending' \in [Workers -> SUBSET ToSet(picked')]
    BY <2>3, <2>4, ChunksPartition
  <2>6. \A fp \in ToSet(picked') : \E w \in Workers : fp \in pending'[w]
    BY <2>3, <2>4, ChunksPartition
  <2>7. \A w, v \in Workers : w # v => pending'[w] \intersect pending'[v] = {}
    BY <2>3, <2>4, ChunksPartition
  <2>8. QED
    BY <2>1, <2>5, <2>6, <2>7, PickStep
<1>4. CASE AskJoin
  <2> USE <1>4 DEF AskJoin, tableVars, cacheVars
  <2>1. TypeOK' /\ IsFiniteSet(timeSeries')
    BY DEF IInv, TypeOK
  <2>2. HoldsNothing'
    BY DEF IInv, HoldsNothing, FromCache
  <2>3. PickedInTable' /\ InOnePlace' /\ NoneLost'
    BY DEF PickedInTable, InOnePlace, NoneLost, FromCache
  <2>4. IndexGrows'
    BY DEF IInv, IndexGrows, FromCache
  <2>5. QED
    BY <2>1, <2>2, <2>3, <2>4 DEF IInv
<1>5. QED
  BY <1>1, <1>2, <1>3, <1>4 DEF Ask

\* The first row of a series, or its count: it leaves its worker for the result, unless it
\* is counted and the index has lost it.
LEMMA SeriesStep ==
  ASSUME IInv, NEW w \in Workers, NEW fp \in pending[w], pc \in {"fetching", "counting"},
         NEW b \in BOOLEAN, b <=> Labelled(fp),
         pending' = [pending EXCEPT ![w] = @ \ {fp}],
         \/ found' = found \union {[fp |-> fp, labelled |-> b]}
         \/ found' = found /\ ~b /\ pc = "counting",
         UNCHANGED <<tableVars, cacheVars, pc, selector, picked, failed, shown>>
  PROVE  IInv'
<1> USE DEF tableVars, cacheVars
<1> DEFINE new == [fp |-> fp, labelled |-> b]
<1>1. /\ pending \in [Workers -> SUBSET ToSet(picked)]
      /\ fp \in ToSet(picked) /\ ToSet(picked) \subseteq Fps(AllSeries)
  <2>1. pending \in [Workers -> SUBSET ToSet(picked)] /\ picked \in Seq(Fps(AllSeries))
    BY DEF IInv, TypeOK
  <2>2. \A i \in DOMAIN picked : picked[i] \in Fps(AllSeries)
    BY <2>1, LenProperties
  <2>3. QED
    BY <2>1, <2>2 DEF ToSet
<1>2. /\ pending' \in [Workers -> SUBSET ToSet(picked)]
      /\ \A v \in Workers : pending'[v] = IF v = w THEN pending[v] \ {fp} ELSE pending[v]
  BY <1>1
<1>3. new.fp = fp /\ new.labelled = b /\ new \in [fp : Fps(AllSeries), labelled : BOOLEAN]
  BY <1>1
<1>4. Fps(found') = Fps(found) \union {fp} \/ (Fps(found') = Fps(found) /\ found' = found)
  BY <1>3 DEF Fps
<1>5. FromCache
  BY DEF FromCache
<1> HIDE DEF new
<1>6. TypeOK' /\ IsFiniteSet(timeSeries')
  <2>1. found' \in SUBSET [fp : Fps(AllSeries), labelled : BOOLEAN]
    BY <1>3 DEF IInv, TypeOK, new
  <2>2. QED
    BY <1>2, <2>1 DEF IInv, TypeOK
<1>7. HoldsNothing'
  BY <1>5 DEF IInv, HoldsNothing, FromCache
<1>8. PickedInTable'
  BY DEF IInv, PickedInTable, FromCache
<1>9. InOnePlace'
  <2>1. /\ Fps(found) \subseteq ToSet(picked)
        /\ \A f, g \in found : f.fp = g.fp => f = g
        /\ \A v \in Workers : pending[v] \intersect Fps(found) = {}
        /\ \A u, v \in Workers : u # v => pending[u] \intersect pending[v] = {}
    BY <1>5 DEF IInv, InOnePlace
  <2>2. Fps(found') \subseteq ToSet(picked')
    BY <2>1, <1>1, <1>4
  <2>3. \A f, g \in found' : f.fp = g.fp => f = g
    <3>1. \A f \in found : f.fp # fp
      BY <2>1 DEF Fps
    <3>2. \A f \in found' : f \in found \/ f = new
      BY DEF new
    <3>3. QED
      BY <3>1, <3>2, <2>1, <1>3
  <2>4. \A v \in Workers : pending'[v] \intersect Fps(found') = {}
    BY <2>1, <1>2, <1>4
  <2>5. \A u, v \in Workers : u # v => pending'[u] \intersect pending'[v] = {}
    BY <2>1, <1>2
  <2>6. QED
    BY <2>2, <2>3, <2>4, <2>5 DEF InOnePlace
<1>10. ~cut => b
  BY <1>5, <1>1 DEF IInv, IndexGrows, Labelled, Fps, Matching, OfMetric
<1>11. NoneLost'
  <2> SUFFICES ASSUME ~failed, pc \in {"counting", "counted"} => ~cut, NEW x \in ToSet(picked)
               PROVE  x \in Fps(found') \/ \E v \in Workers : x \in pending'[v]
    BY DEF NoneLost
  <2>1. x \in Fps(found) \/ \E v \in Workers : x \in pending[v]
    BY <1>5 DEF IInv, NoneLost
  <2>2. Fps(found') = Fps(found) \union {fp}
    BY <1>10, <1>3 DEF Fps, new
  <2>3. QED
    BY <2>1, <2>2, <1>2
<1>12. IndexGrows'
  <2>1. \A f \in found' : f \in found \/ f = new
    BY DEF new
  <2>2. QED
    BY <2>1, <1>3, <1>5, <1>10 DEF IInv, IndexGrows, FromCache
<1>13. QED
  BY <1>6, <1>7, <1>8, <1>9, <1>11, <1>12 DEF IInv

\* What an answer shows is in the table, and in the index until it has been cut short.
LEMMA ShownExists ==
  ASSUME IInv, FromCache, NEW f \in found
  PROVE  /\ [metric |-> selector.metric, fp |-> f.fp] \in timeSeries
         /\ ~cut => [metric |-> selector.metric, fp |-> f.fp] \in cached
<1>1. f.fp \in ToSet(picked)
  BY DEF IInv, InOnePlace, Fps
<1>2. ASSUME NEW S, S \subseteq AllSeries, f.fp \in Fps(Matching(S, selector))
      PROVE  [metric |-> selector.metric, fp |-> f.fp] \in S
  <2>1. PICK s \in S : s.fp = f.fp /\ s.metric = selector.metric
    BY <1>2 DEF Fps, Matching, OfMetric
  <2>2. s = [metric |-> selector.metric, fp |-> f.fp]
    BY <2>1, <1>2, FetchAssumption
  <2>3. QED
    BY <2>1, <2>2
<1>3. timeSeries \subseteq AllSeries /\ cached \subseteq AllSeries
  BY DEF IInv, TypeOK
<1>4. f.fp \in Fps(Matching(timeSeries, selector))
  BY <1>1 DEF IInv, PickedInTable
<1>5. ~cut => f.fp \in Fps(Matching(cached, selector))
  BY <1>1 DEF IInv, IndexGrows
<1>6. QED
  BY <1>2, <1>3, <1>4, <1>5

\* The rest of the query.
LEMMA AnswerStep ==
  ASSUME IInv, \/ JoinReturns \/ CountSeries \/ Merge \/ Respond
               \/ \E w \in Workers : FetchSeries(w) \/ ChunkFails(w)
  PROVE  IInv'
<1>1. CASE JoinReturns
  <2> USE <1>1 DEF JoinReturns, tableVars, cacheVars
  <2>1. Fps(Matching(timeSeries, selector)) \subseteq Fps(AllSeries)
    BY DEF IInv, TypeOK, Fps, Matching, OfMetric
  <2>2. found' \in SUBSET [fp : Fps(AllSeries), labelled : BOOLEAN]
    <3>1. found \in SUBSET [fp : Fps(AllSeries), labelled : BOOLEAN]
      BY DEF IInv, TypeOK
    <3>2. [fp : Fps(Matching(timeSeries, selector)), labelled : {TRUE}]
            \in SUBSET [fp : Fps(AllSeries), labelled : BOOLEAN]
      BY <2>1
    <3>3. QED
      BY <3>1, <3>2
  <2>3. TypeOK' /\ IsFiniteSet(timeSeries')
    BY <2>2 DEF IInv, TypeOK
  <2>4. HoldsNothing'
    BY DEF IInv, HoldsNothing, FromCache
  <2>5. PickedInTable' /\ InOnePlace' /\ NoneLost'
    BY DEF PickedInTable, InOnePlace, NoneLost, FromCache
  <2>6. IndexGrows'
    BY DEF IInv, IndexGrows, FromCache
  <2>7. QED
    BY <2>3, <2>4, <2>5, <2>6 DEF IInv
<1>2. ASSUME NEW w \in Workers, FetchSeries(w)  PROVE IInv'
  <2>1. PICK fp \in pending[w] :
          /\ found' = found \union {[fp |-> fp, labelled |-> Labelled(fp)]}
          /\ pending' = [pending EXCEPT ![w] = @ \ {fp}]
    BY <1>2 DEF FetchSeries
  <2>2. Labelled(fp) \in BOOLEAN
    BY DEF Labelled
  <2>3. QED
    BY <1>2, <2>1, <2>2, SeriesStep DEF FetchSeries
<1>3. ASSUME NEW w \in Workers, ChunkFails(w)  PROVE IInv'
  <2> USE <1>3 DEF ChunkFails, tableVars, cacheVars
  <2>1. pending \in [Workers -> SUBSET ToSet(picked)]
    BY DEF IInv, TypeOK
  <2>2. /\ pending' \in [Workers -> SUBSET ToSet(picked)]
        /\ \A v \in Workers : pending'[v] \subseteq pending[v]
    BY <2>1
  <2>3. TypeOK' /\ IsFiniteSet(timeSeries')
    BY <2>2 DEF IInv, TypeOK
  <2>4. HoldsNothing' /\ PickedInTable'
    BY DEF IInv, HoldsNothing, PickedInTable, FromCache
  <2>5. InOnePlace'
    BY <2>2 DEF IInv, InOnePlace, FromCache
  <2>6. NoneLost'
    BY DEF NoneLost
  <2>7. IndexGrows'
    BY DEF IInv, IndexGrows, FromCache
  <2>8. QED
    BY <2>3, <2>4, <2>5, <2>6, <2>7 DEF IInv
<1>4. CASE CountSeries
  <2>1. 1 \in Workers
    BY FetchAssumption DEF Workers
  <2>2. PICK fp \in pending[1] :
          /\ found' = IF Labelled(fp) THEN found \union {[fp |-> fp, labelled |-> TRUE]} ELSE found
          /\ pending' = [pending EXCEPT ![1] = @ \ {fp}]
    BY <1>4 DEF CountSeries
  <2>3. CASE Labelled(fp)
    BY <1>4, <2>1, <2>2, <2>3, SeriesStep DEF CountSeries
  <2>4. CASE ~Labelled(fp)
    BY <1>4, <2>1, <2>2, <2>4, SeriesStep DEF CountSeries
  <2>5. QED
    BY <2>3, <2>4
<1>5. CASE Merge
  <2> USE <1>5 DEF Merge, tableVars, cacheVars
  <2>1. TypeOK' /\ IsFiniteSet(timeSeries')
    BY DEF IInv, TypeOK
  <2>2. HoldsNothing' /\ PickedInTable' /\ InOnePlace'
    BY DEF IInv, HoldsNothing, PickedInTable, InOnePlace, FromCache
  <2>3. NoneLost'
    BY DEF IInv, NoneLost, FromCache
  <2>4. IndexGrows'
    BY DEF IInv, IndexGrows, FromCache
  <2>5. QED
    BY <2>1, <2>2, <2>3, <2>4 DEF IInv
<1>6. CASE Respond
  <2> USE <1>6 DEF Respond, tableVars, cacheVars
  <2>1. shown' \subseteq timeSeries /\ (~cut => shown' \subseteq cached)
    <3>1. shown \subseteq timeSeries /\ (~cut => shown \subseteq cached)
      BY DEF IInv, TypeOK, IndexGrows
    <3>2. CASE Answered /\ ~cut
      <4>1. FromCache
        BY <3>2 DEF Answered, FromCache
      <4>2. QED
        BY <3>1, <3>2, <4>1, ShownExists
    <3>3. CASE ~(Answered /\ ~cut)
      BY <3>1, <3>3
    <3>4. QED
      BY <3>2, <3>3
  <2>2. ToSet(picked') = {} /\ picked' \in Seq(Fps(AllSeries))
    BY DEF ToSet
  <2>3. pending' \in [Workers -> SUBSET ToSet(picked')]
    BY DEF Nothing
  <2>4. TypeOK' /\ IsFiniteSet(timeSeries')
    BY <2>1, <2>2, <2>3 DEF IInv, TypeOK
  <2>5. HoldsNothing'
    BY DEF HoldsNothing, FromCache
  <2>6. PickedInTable' /\ InOnePlace' /\ NoneLost'
    BY DEF PickedInTable, InOnePlace, NoneLost, FromCache
  <2>7. IndexGrows'
    BY <2>1 DEF IInv, IndexGrows, FromCache
  <2>8. QED
    BY <2>4, <2>5, <2>6, <2>7 DEF IInv
<1>7. QED
  BY <1>1, <1>2, <1>3, <1>4, <1>5, <1>6

\* In every reachable state each picked fingerprint is with one worker or in the result,
\* once, unless a worker failed, whatever refreshes and the writer do meanwhile.
THEOREM Invariance == Spec => []IInv
<1>1. ASSUME IInv, [Next]_vars  PROVE IInv'
  <2>1. CASE UNCHANGED vars
    <3> USE <2>1 DEF vars
    <3>1. TypeOK' /\ IsFiniteSet(timeSeries')
      BY <1>1 DEF IInv, TypeOK
    <3>2. HoldsNothing' /\ PickedInTable' /\ InOnePlace' /\ NoneLost'
      BY <1>1, QueryUnmoved
    <3>3. IndexGrows'
      BY <1>1 DEF IInv, IndexGrows, FromCache
    <3>4. QED
      BY <3>1, <3>2, <3>3 DEF IInv
  <2>2. CASE Next
    BY <1>1, <2>2, RefreshStep, AskStep, AnswerStep DEF Next, Answer
  <2>3. QED
    BY <1>1, <2>1, <2>2
<1>2. QED
  BY InitInv, <1>1, PTL DEF Spec

\* The variables have their types; in particular the cache never holds a series the table
\* does not, nor does an answer from the cache show one.
THEOREM TypeCorrect == Spec => []TypeOK
<1>1. IInv => TypeOK
  BY DEF IInv
<1>2. QED
  BY <1>1, Invariance, PTL

\* A fetch that succeeds has every series that was picked, with one set of labels each:
\* whatever the number of workers and the threshold, the chunks of fetchWithCache leave
\* nothing out and overlap nowhere, and no failure of one goes unnoticed.
THEOREM FetchIsCompleteHolds == Spec => []FetchIsComplete
<1>1. ASSUME IInv, Answered, pc = "fetched"
      PROVE  Fps(found) = ToSet(picked) /\ Cardinality(found) = Len(picked)
  <2>1. FromCache /\ ~failed
    BY <1>1 DEF Answered, FromCache
  <2>2. Fps(found) = ToSet(picked)
    BY <1>1, <2>1 DEF IInv, HoldsNothing, InOnePlace, NoneLost
  <2>3. Cardinality(found) = Len(picked)
    <3> DEFINE n == Len(picked)
               f == [i \in 1..n |-> CHOOSE r \in found : r.fp = picked[i]]
    <3>1. n \in Nat /\ DOMAIN picked = 1..n
      BY <1>1, LenProperties DEF IInv, TypeOK
    <3>2. \A i \in 1..n : f[i] \in found /\ f[i].fp = picked[i]
      <4>1. \A i \in 1..n : \E r \in found : r.fp = picked[i]
        BY <2>2, <3>1 DEF ToSet, Fps
      <4>2. QED
        BY <4>1
    <3>3. f \in [1..n -> found]
      BY <3>2
    <3>4. \A i, j \in 1..n : f[i] = f[j] => i = j
      BY <1>1, <2>1, <3>1, <3>2 DEF IInv, PickedInTable, IsInjective
    <3>5. \A r \in found : \E i \in 1..n : f[i] = r
      <4>1. ASSUME NEW r \in found  PROVE \E i \in 1..n : f[i] = r
        <5>1. PICK i \in 1..n : picked[i] = r.fp
          BY <2>2, <3>1 DEF ToSet, Fps
        <5>2. f[i].fp = r.fp /\ f[i] \in found
          BY <5>1, <3>2
        <5>3. QED
          BY <5>2, <1>1, <2>1 DEF IInv, InOnePlace
      <4>2. QED
        BY <4>1
    <3> HIDE DEF f
    <3>6. f \in Bijection(1..n, found)
      BY <3>3, <3>4, <3>5 DEF Bijection, Injection, Surjection, IsInjective
    <3>7. QED
      BY <3>1, <3>6, FS_CountingElements DEF ExistsBijection
  <2>4. QED
    BY <2>2, <2>3
<1>2. IInv => FetchIsComplete
  BY <1>1 DEF FetchIsComplete
<1>3. QED
  BY <1>2, Invariance, PTL

\* No series is returned without its labels, and none is dropped from a count, although
\* the index may be replaced between GetFingerprints and GetLabels: until a response that
\* broke off is installed, what was picked stays in the index.
THEOREM LabelsFoundHolds == Spec => []LabelsFound
<1>1. IInv => LabelsFound
  BY DEF IInv, LabelsFound, Answered, FromCache, HoldsNothing, InOnePlace, NoneLost, IndexGrows
<1>2. QED
  BY <1>1, Invariance, PTL

\* A series that an answer from the cache has shown is in every later one that selects
\* it, unless a response that broke off has been installed.
THEOREM SeriesStayHolds == Spec => []SeriesStay
<1>1. ASSUME IInv, ~cut, Answered  PROVE Fps(Matching(shown, selector)) \subseteq Fps(found)
  <2>1. FromCache /\ ~failed
    BY <1>1 DEF Answered, FromCache
  <2>2. ToSet(picked) \subseteq Fps(found)
    BY <1>1, <2>1 DEF IInv, Answered, HoldsNothing, NoneLost
  <2>3. QED
    BY <1>1, <2>1, <2>2 DEF IInv, IndexGrows
<1>2. IInv => SeriesStay
  BY <1>1 DEF SeriesStay
<1>3. QED
  BY <1>2, Invariance, PTL

\* Until a response that broke off is installed, no step takes a series out of the index,
\* and none ever takes one out of the table.
LEMMA NothingLeaves ==
  ASSUME IInv, [Next]_vars
  PROVE  timeSeries \subseteq timeSeries' /\ (~cut' => ~cut /\ cached \subseteq cached')
<1> USE DEF tableVars, cacheVars
<1>1. CASE UNCHANGED vars
  BY <1>1 DEF vars
<1>2. ASSUME NEW s \in AllSeries, Ingest(s)  PROVE timeSeries \subseteq timeSeries' /\ UNCHANGED cacheVars
  BY <1>2 DEF Ingest
<1>3. CASE Refresh
  BY <1>3 DEF IInv, IndexGrows, Refresh, RefreshBegins, RefreshCompletes, RefreshCutShort, RefreshSpins, Install
<1>4. CASE Ask \/ Answer
  <2>1. Ask => UNCHANGED <<tableVars, cacheVars>>
    BY DEF Ask, Count, Evaluate
  <2>2. ASSUME NEW w \in Workers, FetchSeries(w) \/ ChunkFails(w)  PROVE UNCHANGED <<tableVars, cacheVars>>
    BY <2>2 DEF FetchSeries, ChunkFails
  <2>3. AskCache \/ AskJoin \/ JoinReturns => UNCHANGED <<tableVars, cacheVars>>
    BY DEF AskCache, AskJoin, JoinReturns
  <2>4. CountSeries \/ Merge \/ Respond => UNCHANGED <<tableVars, cacheVars>>
    BY DEF CountSeries, Merge, Respond
  <2>5. QED
    BY <1>4, <2>1, <2>2, <2>3, <2>4 DEF Answer
<1>5. QED
  BY <1>1, <1>2, <1>3, <1>4 DEF Next

\* Replacing the index takes no series out of it, although it is replaced by the rows of a
\* statement that was answered before: unless the answer breaks off.
THEOREM IndexOnlyGrows == Spec => [][~cut' => cached \subseteq cached']_vars
<1>1. IInv /\ [Next]_vars => [~cut' => cached \subseteq cached']_vars
  BY NothingLeaves
<1>2. QED
  BY <1>1, Invariance, PTL DEF Spec

-----------------------------------------------------------------------------
(***************************************************************************)
(* SeriesListing: the inductive invariant.                                 *)
(***************************************************************************)

\* How many of the selectors are behind the listing.
Behind == Len(asked) - Len(left)

\* The selectors that remain are the last ones of the request.
LeftIsRest ==
  /\ asked \in Seq(ToSet(asked)) /\ left \in Seq(ToSet(asked))
  /\ Len(left) <= Len(asked)
  /\ \A i \in 1..Len(left) : left[i] = asked[Behind + i]

\* Every series that m matches and that was there when the request came is listed, or one
\* of its labels is if m has no metric; unless the response to m was cut short.
Covered(m) ==
  m \notin short =>
    \A s \in Selected(known, m) : s \in listed \/ (~Named(m) /\ s.fp \in Fps(listed))

\* What there was to list when the request came is still there.
KnownStays ==
  known \subseteq timeSeries /\ (useCache => known \subseteq cached)

OnlyMatching ==
  \A s \in listed : \E i \in DOMAIN asked : s \in Selected(timeSeries, asked[i])

\* The series to be looked up are the current selector's, which has a metric.
Resolved ==
  lpc = "looking" =>
    left # <<>> /\ Named(Current) /\ toLook \subseteq Fps(Matching(timeSeries, Current))

\* They are in the index, and of that selector each series is listed or among them.
LookingForRest ==
  lpc = "looking" =>
    /\ toLook \subseteq Fps(Matching(cached, Current))
    /\ \A s \in Selected(known, Current) : s \in listed \/ s.fp \in toLook

Progress ==
  /\ lpc \in {"next", "looking"} => ~Full(listed) /\ ~lost
  /\ lpc = "listed" => lost \/ Full(listed) \/ left = <<>>
  /\ ~lost => Full(listed) \/ \A i \in 1..Behind : Covered(asked[i])

ListInv ==
  /\ lpc \in {"idle", "next", "looking", "listed"}
  /\ lpc = "idle" => listed = {} /\ ~lost
  /\ lpc # "idle" => LeftIsRest /\ OnlyMatching /\ Resolved
  /\ ~cut /\ lpc # "idle" => KnownStays /\ LookingForRest /\ Progress

-----------------------------------------------------------------------------
(***************************************************************************)
(* What a statement over the table returns.                                *)
(***************************************************************************)

\* A statement returns rows of the table, and, unless it reaches its limit, one for each
\* fingerprint.
LEMMA ScannedIs ==
  ASSUME NEW S, IsFiniteSet(S), NEW rows \in Scanned(S)
  PROVE  /\ rows \subseteq S /\ IsFiniteSet(rows)
         /\ Cardinality(rows) < Limit => Fps(rows) = Fps(S)
<1>1. PICK T \in SUBSET S : /\ Fps(T) = Fps(S)
                            /\ rows \in kSubset(Min({Limit, Cardinality(T)}), T)
  BY DEF Scanned
<1>2. rows \subseteq T /\ Cardinality(rows) = Min({Limit, Cardinality(T)})
  BY <1>1 DEF kSubset
<1>3. IsFiniteSet(T) /\ IsFiniteSet(rows)
  BY <1>1, <1>2, FS_Subset
<1>4. Cardinality(T) \in Nat /\ Limit \in Nat
  BY <1>3, FS_CardinalityType, ListingAssumption
<1>5. Cardinality(rows) < Limit => Cardinality(rows) = Cardinality(T)
  BY <1>2, <1>4, MinOfTwo
<1>6. Cardinality(rows) < Limit => rows = T
  BY <1>2, <1>3, <1>5, FS_Subset
<1>7. QED
  BY <1>1, <1>2, <1>3, <1>6

\* Of the rows that are not listed yet, those are added for which there is room: if the
\* list is not full afterwards, it has them all.
LEMMA AddedIs ==
  ASSUME NEW L, NEW R, NEW A, IsFiniteSet(L), IsFiniteSet(R), Cardinality(L) < Limit,
         A \in kSubset(Min({Limit - Cardinality(L), Cardinality(R \ L)}), R \ L),
         Cardinality(L \union A) < Limit
  PROVE  R \subseteq L \union A /\ Cardinality(R) < Limit
<1>1. IsFiniteSet(R \ L) /\ A \subseteq R \ L /\ IsFiniteSet(A)
  BY FS_Subset DEF kSubset
<1>2. /\ Cardinality(L) \in Nat /\ Cardinality(R \ L) \in Nat /\ Cardinality(A) \in Nat
      /\ Limit \in Nat
  BY <1>1, FS_CardinalityType, ListingAssumption
<1>3. Cardinality(A) = Min({Limit - Cardinality(L), Cardinality(R \ L)})
  BY DEF kSubset
<1>4. Cardinality(L \union A) = Cardinality(L) + Cardinality(A)
  <2>1. L \cap A = {}
    BY <1>1
  <2>2. Cardinality(L \cup A) = Cardinality(L) + Cardinality(A) - Cardinality(L \cap A)
    BY <1>1, FS_Union
  <2>3. Cardinality(L \cap A) = 0
    BY <2>1, FS_EmptySet
  <2>4. QED
    BY <2>2, <2>3, <1>2
<1>5. Cardinality(A) = Cardinality(R \ L)
  <2>1. Limit - Cardinality(L) \in Nat
    BY <1>2
  <2>2. Cardinality(A) = Limit - Cardinality(L) \/ Cardinality(A) = Cardinality(R \ L)
    <3> DEFINE a == Limit - Cardinality(L)
               b == Cardinality(R \ L)
    <3>1. a \in Int /\ b \in Int /\ Cardinality(A) = Min({a, b})
      BY <1>2, <1>3, <2>1
    <3> HIDE DEF a, b
    <3>2. Cardinality(A) = a \/ Cardinality(A) = b
      BY <3>1, MinOfTwo
    <3>3. QED
      BY <3>2 DEF a, b
  <2>3. QED
    BY <2>2, <1>4, <1>2
<1>6. A = R \ L
  BY <1>1, <1>5, FS_Subset
<1>7. R \subseteq L \union A
  BY <1>6
<1>8. Cardinality(R) <= Cardinality(L \union A)
  BY <1>7, <1>1, FS_Union, FS_Subset
<1>9. QED
  BY <1>7, <1>8, <1>2, <1>4, FS_CardinalityType

-----------------------------------------------------------------------------
(***************************************************************************)
(* The selectors.                                                          *)
(***************************************************************************)

\* The current selector is the one after those behind the listing.
LEMMA RestIs ==
  ASSUME LeftIsRest
  PROVE  /\ Behind \in Nat /\ Len(asked) \in Nat /\ DOMAIN asked = 1..Len(asked)
         /\ 1..Behind \subseteq DOMAIN asked
         /\ left = <<>> => Behind = Len(asked)
         /\ left # <<>> => Current = asked[Behind + 1] /\ Behind + 1 \in DOMAIN asked
<1>1. /\ asked \in Seq(ToSet(asked)) /\ left \in Seq(ToSet(asked))
      /\ Len(left) <= Len(asked) /\ Len(left) \in Nat /\ Len(asked) \in Nat
      /\ DOMAIN asked = 1..Len(asked)
  BY LenProperties DEF LeftIsRest
<1>2. Behind \in Nat /\ Behind <= Len(asked)
  BY <1>1 DEF Behind
<1>3. left = <<>> => Behind = Len(asked)
  BY <1>1 DEF Behind
<1>4. ASSUME left # <<>>  PROVE Current = asked[Behind + 1] /\ Behind + 1 \in DOMAIN asked
  <2>1. 1 \in 1..Len(left)
    BY <1>1, <1>4, EmptySeq
  <2>2. Current = left[1]
    BY <1>1, <1>4 DEF Current
  <2>3. left[1] = asked[Behind + 1]
    BY <2>1 DEF LeftIsRest
  <2>4. QED
    BY <2>1, <2>2, <2>3, <1>1 DEF Behind
<1>5. 1..Behind \subseteq DOMAIN asked
  BY <1>1, <1>2
<1>6. QED
  BY <1>1, <1>2, <1>3, <1>4, <1>5

\* The listing moves on to the next selector.
LEMMA RestMoves ==
  ASSUME LeftIsRest, left # <<>>, left' = Tail(left), asked' = asked
  PROVE  LeftIsRest' /\ Behind' = Behind + 1
<1>1. /\ left \in Seq(ToSet(asked)) /\ asked \in Seq(ToSet(asked))
      /\ Len(left) <= Len(asked) /\ Len(left) \in Nat /\ Len(asked) \in Nat
  BY LenProperties DEF LeftIsRest
<1>2. /\ left' \in Seq(ToSet(asked)) /\ Len(left') = Len(left) - 1
      /\ \A i \in 1..(Len(left) - 1) : left'[i] = left[i + 1]
  BY <1>1, HeadTailProperties
<1>3. Len(left') \in Nat /\ Len(left') <= Len(asked)
  BY <1>1, <1>2, LenProperties
<1>4. Behind' = Behind + 1
  BY <1>1, <1>2 DEF Behind
<1>5. ASSUME NEW i \in 1..Len(left')  PROVE left'[i] = asked'[Behind' + i]
  <2>1. left'[i] = left[i + 1] /\ i + 1 \in 1..Len(left)
    BY <1>1, <1>2
  <2>2. left[i + 1] = asked[Behind + (i + 1)]
    BY <2>1 DEF LeftIsRest
  <2>3. Behind + (i + 1) = Behind' + i
    BY <1>4, <1>1 DEF Behind
  <2>4. QED
    BY <2>1, <2>2, <2>3
<1>6. QED
  BY <1>1, <1>2, <1>3, <1>4, <1>5 DEF LeftIsRest

-----------------------------------------------------------------------------
(***************************************************************************)
(* The invariant holds: initially, and after each step.                    *)
(***************************************************************************)

\* Nothing has been listed at first.
LEMMA ListInitInv == ListInit => ListInv
BY DEF ListInit, ListInv

\* While a query or a refresh takes a step, the listing keeps its part.
LEMMA OthersStep ==
  ASSUME IInv, ListInv, [Next]_vars, UNCHANGED listVars
  PROVE  ListInv'
<1> USE DEF listVars
<1>1. /\ lpc' \in {"idle", "next", "looking", "listed"}
      /\ lpc' = "idle" => listed' = {} /\ ~lost'
  BY DEF ListInv
<1>2. Current' = Current
  BY DEF Current
<1>3. ASSUME lpc # "idle"
      PROVE  LeftIsRest' /\ OnlyMatching' /\ Resolved'
  <2>1. timeSeries \subseteq timeSeries'
    BY NothingLeaves
  <2>2. LeftIsRest /\ OnlyMatching /\ Resolved
    BY <1>3 DEF ListInv
  <2>3. LeftIsRest'
    BY <2>2 DEF LeftIsRest, Behind
  <2>4. OnlyMatching'
    BY <2>1, <2>2 DEF OnlyMatching, Selected
  <2>5. Resolved'
    <3>1. Fps(Matching(timeSeries, Current)) \subseteq Fps(Matching(timeSeries', Current))
      BY <2>1, MatchingGrows
    <3>2. QED
      BY <3>1, <1>2, <2>2 DEF Resolved
  <2>6. QED
    BY <2>3, <2>4, <2>5
<1>4. ASSUME ~cut', lpc # "idle"
      PROVE  KnownStays' /\ LookingForRest' /\ Progress'
  <2>1. timeSeries \subseteq timeSeries' /\ cached \subseteq cached' /\ ~cut
    BY <1>4, NothingLeaves
  <2>2. KnownStays /\ LookingForRest /\ Progress
    BY <1>4, <2>1 DEF ListInv
  <2>3. KnownStays'
    BY <2>1, <2>2 DEF KnownStays
  <2>4. LookingForRest'
    <3>1. Fps(Matching(cached, Current)) \subseteq Fps(Matching(cached', Current))
      BY <2>1, MatchingGrows
    <3>2. QED
      BY <3>1, <1>2, <2>2 DEF LookingForRest, Selected
  <2>5. Progress'
    BY <2>2 DEF Progress, Covered, Full, Behind, Selected
  <2>6. QED
    BY <2>3, <2>4, <2>5
<1>5. QED
  BY <1>1, <1>3, <1>4 DEF ListInv

\* A request for a listing comes.
LEMMA RequestStep ==
  ASSUME IInv, ListInv, NEW ms \in Listings, List(ms), UNCHANGED vars
  PROVE  ListInv'
<1> USE DEF List, vars
<1>1. listed' = {} /\ ~lost' /\ lpc' = "next" /\ cached \subseteq timeSeries
  BY DEF ListInv, IInv, TypeOK
<1>2. LeftIsRest' /\ Behind' = 0
  <2>1. ms \in Seq(ToSet(ms)) /\ Len(ms) \in Nat
    BY ListingAssumption, LenProperties
  <2>2. Behind' = 0
    BY <2>1 DEF Behind
  <2>3. \A i \in 1..Len(ms) : ms[i] = ms[0 + i]
    BY <2>1
  <2>4. QED
    BY <2>1, <2>2, <2>3 DEF LeftIsRest
<1>3. KnownStays' /\ OnlyMatching' /\ Resolved' /\ LookingForRest'
  BY <1>1 DEF KnownStays, OnlyMatching, Resolved, LookingForRest
<1>4. Progress'
  <2>1. ~Full(listed')
    BY <1>1, FS_EmptySet, ListingAssumption DEF Full
  <2>2. QED
    BY <1>1, <1>2, <2>1 DEF Progress, Full
<1>5. QED
  BY <1>1, <1>2, <1>3, <1>4 DEF ListInv

\* The labels of a series are looked up: they are there.
LEMMA LookStep ==
  ASSUME IInv, ListInv, Look, UNCHANGED vars
  PROVE  ListInv'
<1> USE DEF Look, vars
<1>1. LeftIsRest /\ OnlyMatching /\ left # <<>> /\ Named(Current)
      /\ toLook \subseteq Fps(Matching(timeSeries, Current))
  BY DEF ListInv, Resolved
<1> DEFINE series(fp) == [metric |-> Current.metric, fp |-> fp]
<1>2. PICK fp \in toLook :
        /\ toLook' = toLook \ {fp}
        /\ listed' = IF Labelled(fp) THEN Add(listed, series(fp)) ELSE listed
        /\ lpc' = IF Labelled(fp) /\ Full(listed') THEN "listed" ELSE "looking"
  OBVIOUS
<1>3. \A s \in AllSeries : s.metric = Current.metric /\ s.fp = fp => s = series(fp)
  BY FetchAssumption
<1>4. cached \subseteq timeSeries /\ timeSeries \subseteq AllSeries
  BY DEF IInv, TypeOK
<1>5. series(fp) \in Selected(timeSeries, Current)
  <2>1. series(fp) \in timeSeries /\ fp \in Current.fps
    BY <1>1, <1>2, <1>3, <1>4 DEF Fps, Matching, OfMetric
  <2>2. QED
    BY <2>1 DEF Selected
<1>6. Current' = Current /\ Behind' = Behind /\ lpc' \in {"looking", "listed"}
  BY <1>2 DEF Current, Behind
<1>7. LeftIsRest' /\ Resolved'
  BY <1>1, <1>2, <1>6 DEF LeftIsRest, Behind, Resolved
<1>8. OnlyMatching'
  <2>1. Current = asked[Behind + 1] /\ Behind + 1 \in DOMAIN asked
    BY <1>1, RestIs
  <2>2. \A s \in listed' : s \in listed \/ s = series(fp)
    BY <1>2 DEF Add
  <2> HIDE DEF series
  <2>3. QED
    BY <1>1, <1>5, <2>1, <2>2 DEF OnlyMatching
<1>9. ASSUME ~cut  PROVE KnownStays' /\ LookingForRest' /\ Progress'
  <2>1. KnownStays /\ LookingForRest /\ Progress
    BY <1>9 DEF ListInv
  <2>2. /\ toLook \subseteq Fps(Matching(cached, Current))
        /\ \A s \in Selected(known, Current) : s \in listed \/ s.fp \in toLook
    BY <2>1 DEF LookingForRest
  <2>3. Labelled(fp)
    BY <1>2, <2>2 DEF Labelled, Fps, Matching, OfMetric
  <2>4. listed' = listed \union {series(fp)}
    BY <1>2, <2>3 DEF Add
  <2>5. KnownStays'
    BY <2>1 DEF KnownStays
  <2>6. LookingForRest'
    <3>1. ASSUME NEW s \in Selected(known, Current)  PROVE s \in listed' \/ s.fp \in toLook'
      <4>1. s \in listed \/ s.fp \in toLook
        BY <2>2
      <4>2. s \in AllSeries /\ s.metric = Current.metric
        BY <2>1, <1>1, <1>4 DEF Selected, KnownStays
      <4>3. s.fp = fp => s = series(fp)
        BY <4>2, <1>3
      <4>4. QED
        BY <4>1, <4>3, <1>2, <2>4
    <3>2. QED
      BY <3>1, <1>2, <1>6, <2>2 DEF LookingForRest
  <2>7. Progress'
    <3>1. ~Full(listed) /\ ~lost /\ \A i \in 1..Behind : Covered(asked[i])
      BY <2>1 DEF Progress
    <3>2. Fps(listed) \subseteq Fps(listed') /\ listed \subseteq listed'
      BY <2>4 DEF Fps
    <3>3. \A i \in 1..Behind : Covered(asked[i])'
      BY <3>1, <3>2 DEF Covered, Selected
    <3>4. lpc' = "listed" <=> Full(listed')
      BY <1>2, <2>3
    <3>5. QED
      BY <1>6, <3>1, <3>3, <3>4 DEF Progress, Full
  <2>8. QED
    BY <2>5, <2>6, <2>7
<1>10. QED
  BY <1>6, <1>7, <1>8, <1>9 DEF ListInv

\* GetFingerprints finds every series of the selector that was there when the request came.
LEMMA ResolveStep ==
  ASSUME IInv, ListInv, ResolveInIndex, UNCHANGED vars
  PROVE  ListInv'
<1> USE DEF ResolveInIndex, vars
<1>1. Named(Current) /\ Current' = Current
  BY DEF FromIndex, Current
<1>2. LeftIsRest' /\ OnlyMatching'
  BY DEF ListInv, LeftIsRest, Behind, OnlyMatching, Selected
<1>3. Resolved'
  <2>1. Fps(Matching(cached, Current)) \subseteq Fps(Matching(timeSeries, Current))
    BY MatchingGrows DEF IInv, TypeOK
  <2>2. QED
    BY <1>1, <2>1 DEF Resolved, Named
<1>4. ASSUME ~cut  PROVE KnownStays' /\ LookingForRest' /\ Progress'
  <2>1. KnownStays /\ Progress
    BY <1>4 DEF ListInv
  <2>2. KnownStays'
    BY <2>1 DEF KnownStays
  <2>3. LookingForRest'
    <3>1. known \subseteq cached
      BY <2>1 DEF FromIndex, KnownStays
    <3>2. \A s \in Selected(known, Current) : s.fp \in toLook'
      BY <1>1, <3>1 DEF Selected, Fps, Matching, OfMetric
    <3>3. QED
      BY <1>1, <3>2 DEF LookingForRest
  <2>4. Progress'
    BY <2>1 DEF Progress, Covered, Full, Behind, Selected
  <2>5. QED
    BY <2>2, <2>3, <2>4
<1>5. QED
  BY <1>2, <1>3, <1>4 DEF ListInv

\* All its labels have been looked up: the selector is covered.
LEMMA LookedStep ==
  ASSUME IInv, ListInv, Looked, UNCHANGED vars
  PROVE  ListInv'
<1> USE DEF Looked, vars
<1>1. LeftIsRest /\ OnlyMatching /\ left # <<>>
  BY DEF ListInv, Resolved
<1>2. Behind \in Nat /\ Current = asked[Behind + 1]
  BY <1>1, RestIs
<1>3. LeftIsRest' /\ Behind' = Behind + 1
  BY <1>1, RestMoves
<1>4. OnlyMatching' /\ Resolved'
  BY <1>1 DEF OnlyMatching, Selected, Resolved
<1>5. ASSUME ~cut  PROVE KnownStays' /\ LookingForRest' /\ Progress'
  <2>1. KnownStays /\ LookingForRest /\ Progress
    BY <1>5 DEF ListInv
  <2>2. \A s \in Selected(known, Current) : s \in listed
    BY <2>1 DEF LookingForRest
  <2>3. KnownStays' /\ LookingForRest'
    BY <2>1 DEF KnownStays, LookingForRest
  <2>4. Progress'
    <3>1. ~Full(listed) /\ ~lost /\ \A i \in 1..Behind : Covered(asked[i])
      BY <2>1 DEF Progress
    <3>2. Covered(asked[Behind + 1])
      BY <2>2, <1>2 DEF Covered
    <3>3. \A i \in 1..(Behind + 1) : i \in 1..Behind \/ i = Behind + 1
      BY <1>2
    <3>4. \A i \in 1..(Behind + 1) : Covered(asked[i])
      BY <3>1, <3>2, <3>3
    <3>5. \A i \in 1..Behind' : Covered(asked[i])'
      BY <3>4, <1>3 DEF Covered, Selected
    <3>6. QED
      BY <3>1, <3>5 DEF Progress, Full
  <2>5. QED
    BY <2>3, <2>4
<1>6. QED
  BY <1>3, <1>4, <1>5 DEF ListInv

\* Rows of a statement over the table are added, all or some: those that are added match
\* the selector, and if all of them came it is covered, unless the limit is reached.
LEMMA RowsStep ==
  ASSUME IInv, ListInv, UNCHANGED vars, Scanning,
         NEW rows \in Scanned(Selected(timeSeries, Current)), NEW part \in SUBSET rows, AddRows(part),
         short \subseteq short', part = rows \/ Current \in short'
  PROVE  ListInv'
<1> USE DEF vars
<1> DEFINE S == Selected(timeSeries, Current)
<1>1. /\ LeftIsRest /\ OnlyMatching /\ left # <<>> /\ left' = Tail(left)
      /\ UNCHANGED <<useCache, toLook, asked, known, lost>>
      /\ lpc' = IF Full(listed') THEN "listed" ELSE "next"
  BY DEF ListInv, Scanning, AddRows
<1>2. PICK added \in kSubset(Min({Limit - Cardinality(listed), Cardinality(part \ listed)}), part \ listed) :
        listed' = listed \union added
  BY DEF AddRows
<1>3. S \subseteq timeSeries /\ timeSeries \subseteq AllSeries /\ IsFiniteSet(timeSeries)
  BY DEF Selected, IInv, TypeOK
<1>4. IsFiniteSet(S) /\ IsFiniteSet(listed)
  <2>1. listed \subseteq timeSeries
    BY <1>1 DEF OnlyMatching, Selected
  <2>2. QED
    BY <2>1, <1>3, FS_Subset
<1>5. Behind \in Nat /\ Current = asked[Behind + 1] /\ Behind + 1 \in DOMAIN asked
  BY <1>1, RestIs
<1>6. LeftIsRest' /\ Behind' = Behind + 1
  BY <1>1, RestMoves
<1> HIDE DEF S
<1>7. rows \subseteq S /\ IsFiniteSet(rows) /\ (Cardinality(rows) < Limit => Fps(rows) = Fps(S))
  BY <1>4, ScannedIs DEF S
<1>8. OnlyMatching'
  <2>1. \A s \in added : s \in Selected(timeSeries, asked[Behind + 1])
    BY <1>7, <1>5 DEF S, kSubset
  <2>2. QED
    BY <2>1, <1>1, <1>2, <1>5 DEF OnlyMatching, Selected
<1>9. Resolved'
  BY <1>1 DEF Resolved
<1>10. ASSUME ~cut  PROVE KnownStays' /\ LookingForRest' /\ Progress'
  <2>1. KnownStays /\ Progress /\ lpc = "next"
    BY <1>10 DEF ListInv, Scanning
  <2>2. ~Full(listed) /\ ~lost /\ \A i \in 1..Behind : Covered(asked[i])
    BY <2>1 DEF Progress
  <2>3. Cardinality(listed) < Limit
    BY <1>4, <2>2, FS_CardinalityType, ListingAssumption DEF Full
  <2>4. ASSUME ~Full(listed'), part = rows  PROVE rows \subseteq listed' /\ Fps(rows) = Fps(S)
    <3>1. IsFiniteSet(added)
      <4>1. added \subseteq rows
        BY <2>4 DEF kSubset
      <4>2. QED
        BY <4>1, <1>7, FS_Subset
    <3>2. IsFiniteSet(listed \union added)
      BY <3>1, <1>4, FS_Union
    <3>3. Cardinality(listed \union added) < Limit
      <4>1. Cardinality(listed \union added) \in Nat /\ Limit \in Nat
        BY <3>2, FS_CardinalityType, ListingAssumption
      <4>2. ~(Cardinality(listed \union added) >= Limit)
        BY <1>2, <2>4 DEF Full
      <4>3. QED
        BY <4>1, <4>2
    <3>4. rows \subseteq listed \union added /\ Cardinality(rows) < Limit
      BY <2>4, <3>3, <1>2, <1>4, <1>7, <2>3, AddedIs
    <3>5. QED
      BY <3>4, <1>2, <1>7
  <2>5. ASSUME ~Full(listed'), part = rows, NEW s \in Selected(known, Current)
        PROVE  s \in listed' \/ (~Named(Current) /\ s.fp \in Fps(listed'))
    <3>1. s \in S
      BY <2>1, <2>5 DEF S, Selected, KnownStays
    <3>2. PICK r \in rows : r.fp = s.fp
      <4>1. s.fp \in Fps(S)
        BY <3>1 DEF Fps
      <4>2. s.fp \in Fps(rows)
        BY <4>1, <2>4, <2>5
      <4>3. QED
        BY <4>2 DEF Fps
    <3>3. r \in S /\ r \in listed'
      BY <3>2, <1>7, <2>4, <2>5
    <3>4. CASE Named(Current)
      <4>1. r.metric = s.metric
        BY <3>1, <3>3, <3>4 DEF S, Selected
      <4>2. r = [metric |-> r.metric, fp |-> r.fp] /\ s = [metric |-> s.metric, fp |-> s.fp]
        BY <3>1, <3>3, <1>3, FetchAssumption
      <4>3. r = s
        BY <4>1, <4>2, <3>2
      <4>4. QED
        BY <4>3, <3>3
    <3>5. CASE ~Named(Current)
      BY <3>5, <3>2, <3>3 DEF Fps
    <3>6. QED
      BY <3>4, <3>5
  <2>6. KnownStays'
    BY <2>1, <1>1 DEF KnownStays
  <2>7. LookingForRest'
    BY <1>1 DEF LookingForRest
  <2>8. Progress'
    <3>1. ~lost'
      BY <2>2, <1>1
    <3>2. ASSUME ~Full(listed'), NEW i \in 1..Behind'  PROVE Covered(asked[i])'
      <4>1. Fps(listed) \subseteq Fps(listed') /\ listed \subseteq listed'
        BY <1>2 DEF Fps
      <4>2. i \in 1..Behind \/ i = Behind + 1
        BY <1>5, <1>6
      <4>3. CASE i \in 1..Behind
        BY <4>1, <4>3, <2>2, <1>1 DEF Covered, Selected
      <4>4. CASE i = Behind + 1
        BY <4>4, <3>2, <1>1, <1>5, <2>5 DEF Covered, Selected
      <4>5. QED
        BY <4>2, <4>3, <4>4
    <3>3. QED
      BY <3>1, <3>2, <1>1 DEF Progress, Full
  <2>9. QED
    BY <2>6, <2>7, <2>8
<1>11. lpc' \in {"next", "listed"}
  BY <1>1
<1>12. QED
  BY <1>6, <1>8, <1>9, <1>10, <1>11 DEF ListInv

\* A statement over the table is answered, to its last row or not.
LEMMA ScanStep ==
  ASSUME IInv, ListInv, ScanTable \/ ScanCutShort, UNCHANGED vars
  PROVE  ListInv'
<1>1. CASE ScanTable
  <2>1. PICK rows \in Scanned(Selected(timeSeries, Current)) : AddRows(rows)
    BY <1>1 DEF ScanTable
  <2>2. QED
    BY <1>1, <2>1, RowsStep DEF ScanTable
<1>2. CASE ScanCutShort
  <2>1. PICK rows \in Scanned(Selected(timeSeries, Current)) : \E part \in SUBSET rows \ {rows} : AddRows(part)
    BY <1>2 DEF ScanCutShort
  <2>2. PICK part \in SUBSET rows \ {rows} : AddRows(part)
    BY <2>1
  <2>3. Scanning /\ part \in SUBSET rows /\ short' = short \union {Current}
    BY <1>2 DEF ScanCutShort
  <2>4. QED
    BY <2>2, <2>3, RowsStep
<1>3. QED
  BY <1>1, <1>2

\* The ways in which a listing ends.
LEMMA EndStep ==
  ASSUME IInv, ListInv, UNCHANGED vars,
         RefuseListing \/ ScanFails \/ AllResolved \/ RespondListing
  PROVE  ListInv'
<1> USE DEF vars
<1>1. CASE RefuseListing \/ AllResolved
  <2> USE <1>1 DEF RefuseListing, AllResolved
  <2>1. LeftIsRest' /\ OnlyMatching' /\ Resolved'
    BY DEF ListInv, LeftIsRest, Behind, OnlyMatching, Selected, Resolved
  <2>2. ASSUME ~cut  PROVE KnownStays' /\ LookingForRest' /\ Progress'
    <3>1. KnownStays /\ Progress
      BY <2>2 DEF ListInv
    <3>2. KnownStays' /\ LookingForRest'
      BY <3>1 DEF KnownStays, LookingForRest
    <3>3. Progress'
      BY <3>1 DEF Progress, Covered, Full, Behind, Selected
    <3>4. QED
      BY <3>2, <3>3
  <2>3. QED
    BY <2>1, <2>2 DEF ListInv
<1>2. CASE ScanFails
  <2> USE <1>2 DEF ScanFails, Scanning
  <2>1. LeftIsRest' /\ OnlyMatching' /\ Resolved'
    BY DEF ListInv, LeftIsRest, Behind, OnlyMatching, Resolved
  <2>2. ASSUME ~cut  PROVE KnownStays' /\ LookingForRest' /\ Progress'
    BY <2>2 DEF ListInv, KnownStays, LookingForRest, Progress
  <2>3. QED
    BY <2>1, <2>2 DEF ListInv
<1>3. CASE RespondListing
  BY <1>3 DEF RespondListing, ListInv
<1>4. QED
  BY <1>1, <1>2, <1>3

-----------------------------------------------------------------------------
(***************************************************************************)
(* The theorems.                                                           *)
(***************************************************************************)

\* What holds of queries and refreshes holds next to listings as well.
THEOREM ListingsDoNotDisturb == ListSpec => Spec
<1>1. ListInit => Init
  BY DEF ListInit
<1>2. [ListNext]_allVars => [Next]_vars
  BY DEF ListNext, allVars
<1>3. QED
  BY <1>1, <1>2, PTL DEF ListSpec, Spec

\* In every reachable state what was known when a listing began is listed, still to be
\* looked up, or matched by a selector that is still to come.
THEOREM ListInvariance == ListSpec => []ListInv
<1>1. ASSUME IInv, ListInv, [ListNext]_allVars  PROVE ListInv'
  <2>1. CASE Next /\ UNCHANGED listVars
    BY <1>1, <2>1, OthersStep
  <2>2. CASE UNCHANGED allVars
    BY <1>1, <2>2, OthersStep DEF allVars
  <2>3. ASSUME NEW ms \in Listings, List(ms), UNCHANGED vars  PROVE ListInv'
    BY <1>1, <2>3, RequestStep
  <2>4. CASE ListingStep /\ UNCHANGED vars
    BY <1>1, <2>4, LookStep, ResolveStep, LookedStep, ScanStep, EndStep DEF ListingStep
  <2>5. QED
    BY <1>1, <2>1, <2>2, <2>3, <2>4 DEF ListNext
<1>2. ListSpec => ListInit /\ [][ListNext]_allVars
  BY PTL DEF ListSpec
<1>3. QED
  BY <1>1, <1>2, ListInitInv, ListingsDoNotDisturb, Invariance, PTL

\* A listing never has a series that none of its selectors matches.  It has every series
\* that one of them matches and that was there when it came, while the index may be
\* replaced between a selector's resolution and the labels, and between two selectors:
\* unless it stops at the limit, a selector does not parse, a statement fails, the response
\* to each statement that would have brought the series is cut short, or a cut response has
\* been installed as the index; and a selector without a metric lists one series of those
\* with equal labels.
THEOREM ListingIsCompleteHolds == ListSpec => []ListingIsComplete
<1>1. ASSUME ListInv, lpc = "listed"
      PROVE  \A s \in listed : \E i \in DOMAIN asked : s \in Selected(timeSeries, asked[i])
  BY <1>1 DEF ListInv, OnlyMatching
<1>2. ASSUME ListInv, lpc = "listed", ~cut, ~lost, ~Full(listed)
      PROVE  \A i \in DOMAIN asked : Covered(asked[i])
  <2>1. LeftIsRest /\ Progress
    BY <1>2 DEF ListInv
  <2>2. left = <<>> /\ \A i \in 1..Behind : Covered(asked[i])
    BY <1>2, <2>1 DEF Progress
  <2>3. 1..Behind = DOMAIN asked
    BY <2>1, <2>2, RestIs
  <2>4. QED
    BY <2>2, <2>3
<1>3. ListInv => ListingIsComplete
  BY <1>1, <1>2 DEF ListingIsComplete, Covered
<1>4. QED
  BY <1>3, ListInvariance, PTL
==============================================================================
