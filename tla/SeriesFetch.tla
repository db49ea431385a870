----------------------------- MODULE SeriesFetch -----------------------------
(***************************************************************************)
(* How a query gets its series: the label cache                            *)
(* (proxy/clickhouse/label_cache.go), refreshed in the background, the     *)
(* fetch of samples in parallel chunks (proxy/clickhouse/pool.go), and the *)
(* counts answered from labels alone (tryCacheOnlyAgg).                    *)
(*                                                                         *)
(* A query resolves its selector against the index once and then looks the *)
(* labels of each series up separately, while refreshes replace the index. *)
(* Queries only read what they share, so one query stands for all.         *)
(*                                                                         *)
(* A series is a metric with a label set; its fingerprint is a function of *)
(* the label set alone, so metrics share fingerprints.  The table of       *)
(* series only grows, and every series has samples in the query's window.  *)
(***************************************************************************)
EXTENDS Naturals, Sequences, SequencesExt, FiniteSets

CONSTANTS
  AllSeries,          \* series that may exist: [metric, fp]
  FirstSeries,        \* those in the table when the proxy starts
  Selectors,          \* queries: [metric, fps, counted], counted for count(m)
  MaxSeries,          \* cfg.Labels.CacheMaxSeries, 0 for no limit
  ParallelThreshold,  \* fewer fingerprints are fetched in one piece
  NumWorkers          \* numWorkers

ASSUME FetchAssumption ==
  /\ FirstSeries \subseteq AllSeries /\ IsFiniteSet(FirstSeries)
  /\ \A s \in AllSeries : s = [metric |-> s.metric, fp |-> s.fp]
  /\ \A q \in Selectors : {"metric", "fps", "counted"} \subseteq DOMAIN q
  /\ MaxSeries \in Nat /\ ParallelThreshold \in Nat
  /\ NumWorkers \in Nat \ {0}

VARIABLES
  timeSeries,  \* the time_series table
  cached,      \* the label cache: data and metricIndex, which are replaced together
  loaded,      \* c.loaded
  refresher,   \* where the refresh is
  response,    \* the rows its SELECT returns
  cut,         \* history: a response that broke off has been installed
  pc,          \* where the query is
  selector,    \* the query, <<>> before there is one
  picked,      \* GetFingerprints: the fingerprints, in order
  pending,     \* per worker: the fingerprints of its chunk whose rows have not come yet
  failed,      \* a worker's or the JOIN's query has failed
  found,       \* the series of the result: [fp, labelled]
  shown        \* history: series in answers that came from the cache, until cut

tableVars == <<timeSeries>>
cacheVars == <<cached, loaded, refresher, response, cut>>
queryVars == <<pc, selector, picked, pending, failed, found, shown>>
vars == <<timeSeries, cached, loaded, refresher, response, cut,
          pc, selector, picked, pending, failed, found, shown>>

-----------------------------------------------------------------------------
Fps(S) == {s.fp : s \in S}

OfMetric(S, q) == {s \in S : s.metric = q.metric}

\* matchAll: the matchers, as the set of fingerprints whose labels satisfy them.
Matching(S, q) == {s \in OfMetric(S, q) : s.fp \in q.fps}

\* GetFingerprints gives up on a metric with more than maxSeries series.
TooMany(q) == MaxSeries > 0 /\ Cardinality(OfMetric(cached, q)) > MaxSeries

Workers == 1..NumWorkers

\* Mutant: the chunks are rounded down.
ChunkSize_Floor(n) == n \div NumWorkers

ChunkSize(n) == (n + NumWorkers - 1) \div NumWorkers

\* fetchWithCache: the part of fps that worker w fetches; the last ones may get none.
Chunk(fps, w) ==
  IF Len(fps) < ParallelThreshold
  THEN IF w = 1 THEN ToSet(fps) ELSE {}
  ELSE LET size == ChunkSize(Len(fps))
       IN {fps[i] : i \in {j \in DOMAIN fps : (w - 1) * size < j /\ j <= w * size}}

Nothing == [w \in Workers |-> {}]

-----------------------------------------------------------------------------
\* main loads the cache before it serves; when that fails the proxy serves without it.
Init ==
  /\ timeSeries = FirstSeries
  /\ \/ cached = timeSeries /\ loaded = TRUE
     \/ cached = {} /\ loaded = FALSE
  /\ refresher = "waiting"
  /\ response = {}
  /\ cut = FALSE
  /\ pc = "idle"
  /\ selector = <<>>
  /\ picked = <<>>
  /\ pending = Nothing
  /\ failed = FALSE
  /\ found = {}
  /\ shown = {}

\* The writer stores a series it has not stored before (external to the proxy).
Ingest(s) ==
  /\ s \notin timeSeries
  /\ timeSeries' = timeSeries \union {s}
  /\ UNCHANGED <<cacheVars, queryVars>>

-----------------------------------------------------------------------------
(***************************************************************************)
(* The background refresh.                                                 *)
(***************************************************************************)

\* Mutant: the rows are decoded into the maps that queries read.
RefreshBegins_InPlace ==
  /\ refresher = "waiting"
  /\ refresher' = "decoding"
  /\ response' = timeSeries
  /\ cached' = {}
  /\ UNCHANGED <<tableVars, loaded, cut, queryVars>>

\* Mutant: only series with rows since some time are selected.
RefreshBegins_Recent ==
  /\ refresher = "waiting"
  /\ refresher' = "decoding"
  /\ response' \in SUBSET timeSeries
  /\ UNCHANGED <<tableVars, cached, loaded, cut, queryVars>>

\* The ticker fires and the SELECT is answered with status 200.  (Otherwise Refresh
\* returns an error that is logged, and nothing changes.)
RefreshBegins ==
  /\ refresher = "waiting"
  /\ refresher' = "decoding"
  /\ response' = timeSeries
  /\ UNCHANGED <<tableVars, cached, loaded, cut, queryVars>>

\* The new maps replace the old ones under the lock.
Install(S) ==
  /\ cached' = S
  /\ loaded' = TRUE
  /\ refresher' = "waiting"
  /\ response' = {}

RefreshCompletes ==
  /\ refresher = "decoding"
  /\ Install(response)
  /\ UNCHANGED <<tableVars, cut, queryVars>>

\* The connection or the timeout ends the response between two rows: dec.More() turns
\* false, as at the regular end, and the rows that have come are installed.
RefreshCutShort ==
  /\ refresher = "decoding"
  /\ \E S \in SUBSET response \ {response} : Install(S)
  /\ cut' = TRUE
  /\ shown' = {}
  /\ UNCHANGED <<tableVars, pc, selector, picked, pending, failed, found>>

\* The response breaks off within a row, or is continued by something that is not JSON
\* (the text of an exception): from then on Decode fails and More() stays true, so the
\* loop never ends.
RefreshSpins ==
  /\ refresher = "decoding"
  /\ refresher' = "spinning"
  /\ response' = {}
  /\ UNCHANGED <<tableVars, cached, loaded, cut, queryVars>>

-----------------------------------------------------------------------------
(***************************************************************************)
(* A query.                                                                *)
(***************************************************************************)

\* The index answers for q: it is loaded and has not too many series of the metric.
Usable(q) == loaded /\ ~TooMany(q)

\* GetFingerprints: the selector is resolved in the index.
Pick(q) == picked' = SetToSeq(Fps(Matching(cached, q)))

\* Mutant: the matchers are not applied.
Count_Unmatched(q) ==
  /\ pc = "idle" /\ q.counted /\ Usable(q)
  /\ selector' = q
  /\ Pick(q)
  /\ pending' = [Nothing EXCEPT ![1] = Fps(OfMetric(cached, q))]
  /\ pc' = "counting"
  /\ UNCHANGED <<tableVars, cacheVars, failed, found, shown>>

\* tryCacheOnlyAgg, for count(m): labels are all it needs.
Count(q) ==
  /\ pc = "idle" /\ q.counted /\ Usable(q)
  /\ selector' = q
  /\ Pick(q)
  /\ pending' = [Nothing EXCEPT ![1] = ToSet(picked')]
  /\ pc' = "counting"
  /\ UNCHANGED <<tableVars, cacheVars, failed, found, shown>>

\* Otherwise the evaluator asks for the samples, a count's too.
Evaluate(q) ==
  /\ pc = "idle" /\ (q.counted => ~Usable(q))
  /\ selector' = q
  /\ pc' = "evaluating"
  /\ UNCHANGED <<tableVars, cacheVars, picked, pending, failed, found, shown>>

\* FetchSeriesData: with an index to use, the series it has, in chunks ...
AskCache ==
  /\ pc = "evaluating" /\ Usable(selector)
  /\ Pick(selector)
  /\ pending' = [w \in Workers |-> Chunk(picked', w)]
  /\ pc' = "fetching"
  /\ UNCHANGED <<tableVars, cacheVars, selector, failed, found, shown>>

\* ... and without, a statement that joins samples and series.
AskJoin ==
  /\ pc = "evaluating" /\ ~Usable(selector)
  /\ pc' = "joining"
  /\ UNCHANGED <<tableVars, cacheVars, selector, picked, pending, failed, found, shown>>

JoinReturns ==
  /\ pc = "joining"
  /\ pc' = "joined"
  /\ \/ /\ found' = [fp : Fps(Matching(timeSeries, selector)), labelled : {TRUE}]
        /\ UNCHANGED failed
     \/ failed' = TRUE /\ UNCHANGED found
  /\ UNCHANGED <<tableVars, cacheVars, selector, picked, pending, shown>>

\* GetLabels, in whatever index is installed now.
Labelled(fp) == fp \in Fps(cached)

\* fetchChunk, the first row of a series: its labels, or none at all when it is not cached.
FetchSeries(w) ==
  /\ pc = "fetching"
  /\ \E fp \in pending[w] :
       /\ found' = found \union {[fp |-> fp, labelled |-> Labelled(fp)]}
       /\ pending' = [pending EXCEPT ![w] = @ \ {fp}]
  /\ UNCHANGED <<tableVars, cacheVars, pc, selector, picked, failed, shown>>

\* A worker's query fails; the others go on.
ChunkFails(w) ==
  /\ pc = "fetching"
  /\ pending[w] # {}
  /\ failed' = TRUE
  /\ pending' = [pending EXCEPT ![w] = {}]
  /\ UNCHANGED <<tableVars, cacheVars, pc, selector, picked, found, shown>>

\* tryCacheOnlyAgg: a fingerprint that is not cached any more is not counted.
CountSeries ==
  /\ pc = "counting"
  /\ \E fp \in pending[1] :
       /\ found' = IF Labelled(fp) THEN found \union {[fp |-> fp, labelled |-> TRUE]} ELSE found
       /\ pending' = [pending EXCEPT ![1] = @ \ {fp}]
  /\ UNCHANGED <<tableVars, cacheVars, pc, selector, picked, failed, shown>>

\* Mutant: a worker whose query has failed does not report back.
Merge_WaitsForRows ==
  /\ pc \in {"fetching", "counting"}
  /\ \A w \in Workers : pending[w] = {}
  /\ ~failed
  /\ pc' = IF pc = "fetching" THEN "fetched" ELSE "counted"
  /\ UNCHANGED <<tableVars, cacheVars, selector, picked, pending, failed, found, shown>>

\* wg.Wait: the results are merged, or one of the errors is returned.
Merge ==
  /\ pc \in {"fetching", "counting"}
  /\ \A w \in Workers : pending[w] = {}
  /\ pc' = IF pc = "fetching" THEN "fetched" ELSE "counted"
  /\ UNCHANGED <<tableVars, cacheVars, selector, picked, pending, failed, found, shown>>

\* The result has come from the cache, and is no error.
Answered == pc \in {"fetched", "counted"} /\ ~failed

\* The answer is written.
Respond ==
  /\ pc \in {"fetched", "counted", "joined"}
  /\ shown' = IF Answered /\ ~cut
              THEN shown \union {[metric |-> selector.metric, fp |-> f.fp] : f \in found}
              ELSE shown
  /\ pc' = "idle"
  /\ selector' = <<>> /\ picked' = <<>> /\ pending' = Nothing
  /\ failed' = FALSE /\ found' = {}
  /\ UNCHANGED <<tableVars, cacheVars>>

-----------------------------------------------------------------------------
Refresh ==
  \/ RefreshBegins
  \/ RefreshCompletes
  \/ RefreshCutShort
  \/ RefreshSpins

Ask == \E q \in Selectors : Count(q) \/ Evaluate(q)

Answer ==
  \/ AskCache
  \/ AskJoin
  \/ JoinReturns
  \/ \E w \in Workers : FetchSeries(w) \/ ChunkFails(w)
  \/ CountSeries
  \/ Merge
  \/ Respond

Next == (\E s \in AllSeries : Ingest(s)) \/ Refresh \/ Ask \/ Answer

Spec == Init /\ [][Next]_vars

(***************************************************************************)
(* A query that can go on does, and ClickHouse answers each of its         *)
(* statements, if only with an error.                                      *)
(***************************************************************************)
FairSpec == Spec /\ WF_vars(Answer)

-----------------------------------------------------------------------------
(***************************************************************************)
(* What is checked.                                                        *)
(***************************************************************************)

\* The variables have their types; the cache never holds a series the table does not.
TypeOK ==
  /\ timeSeries \subseteq AllSeries
  /\ cached \subseteq timeSeries /\ response \subseteq timeSeries
  /\ {loaded, cut, failed} \subseteq BOOLEAN
  /\ refresher \in {"waiting", "decoding", "spinning"}
  /\ pc \in {"idle", "evaluating", "fetching", "counting", "joining",
            "fetched", "counted", "joined"}
  /\ selector \in {<<>>} \union Selectors
  /\ picked \in Seq(Fps(AllSeries))
  /\ pending \in [Workers -> SUBSET ToSet(picked)]
  /\ found \in SUBSET [fp : Fps(AllSeries), labelled : BOOLEAN]
  /\ shown \subseteq timeSeries

\* A fetch that succeeds has every series that was picked, with one set of labels each:
\* the chunks leave nothing out, overlap nowhere, and none of them fails unnoticed.
FetchIsComplete ==
  Answered /\ pc = "fetched" =>
    /\ Fps(found) = ToSet(picked)
    /\ Cardinality(found) = Len(picked)

\* No series is returned without its labels, and none is dropped from a count, although
\* the index may be replaced between picking a series and looking its labels up: series
\* do not leave the index, unless a response that broke off has been installed.
LabelsFound ==
  ~cut /\ Answered => /\ \A f \in found : f.labelled
                      /\ Fps(found) = ToSet(picked)

\* A series that an answer from the cache has shown is in every later one that selects
\* it, unless a response that broke off has been installed.
SeriesStay ==
  ~cut /\ Answered => Fps(Matching(shown, selector)) \subseteq Fps(found)

\* Every query is answered, whatever chunks fail and whatever becomes of the refresh.
QueryEnds == pc # "idle" ~> pc = "idle"
=============================================================================
