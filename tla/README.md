# PromClick, specified in TLA+

PromClick answers PromQL from ClickHouse. Four programs share one database: a *writer*
(remote write → batched INSERTs), a *downsampler* (tier tables, materialized views,
backfill), a *proxy* (the Prometheus HTTP API, with a result cache, a label cache and query
routing over tiers) and a command line tool. This directory specifies the parts whose
correctness depends on order, failure, timing or arithmetic at boundaries, checks them with
TLC on small instances, and proves what matters most with TLAPS.

## 1. The system

| Component | Code | State | Operations | Interacts with |
|---|---|---|---|---|
| Remote writer | `proxy/clickhouse/writer.go`, `proxy/cmd/writer/main.go` | bounded channel, local batch, context | Write, run (receive, tick, done), flush, shutdown | HTTP clients; tables `time_series`, `samples` |
| Result cache | `proxy/cache/cache.go`, `Query`/`QueryRange` in `handlers/query.go` | LRU list and map, singleflight group | Get, Set, Fetch | every query handler |
| Downsampler | `proxy/clickhouse/downsampling.go`, `proxy/cmd/downsampler/main.go` | none of its own: tables, views, checksums in ClickHouse | one pass of DDL, view replacement, backfill; daemon loop | ClickHouse's view refreshes |
| Tier routing | `proxy/config/config.go`, `proxy/clickhouse/tier_query.go`, `tryDownsampledQuery` | none | choose tier, cut range, build UNION ALL, windowed evaluation | the tiers the downsampler fills |
| Label cache, sample fetch | `label_cache.go`, `pool.go` | series index behind a lock | background refresh, lookups, parallel fetch | query handlers, evaluator |
| Evaluator | `eval/` | per query: fetched series, cursors, result channels, accumulator | steps, windows, staleness, extrapolation, matching, aggregation | fetch |
| Translator | `translator/` | none | AST → plan, with the window of data to fetch | evaluator |
| Metadata handlers | `handlers/series.go`, `labels.go`, `meta.go`, `matchers.go` | per request: what has been listed | resolve selectors in the index or in the table | label cache, ClickHouse |
| Server, middleware, config, CLI, UI | `proxy/server`, `config`, `cmd`, `output`, `proxy/ui` | none worth modelling | requests in, responses out | |

What is hard, and what makes each part correct:

* **Writer** — handlers, the run goroutine and `main` interleave; the channel blocks; a flush
  is two INSERTs that fail separately; shutdown cancels a context that a flush may be using;
  the process may die at any time. Correct: every accepted sample has exactly one fate, the
  HTTP status tells the truth about acceptance, samples are findable, senders are not stuck.
* **Result cache** — `Get`, evaluation and `Set` are separate critical sections of many
  callers, with expiry and eviction between them. Correct: the answer belongs to the request,
  work is not duplicated, nothing unsettled is stored, lifetimes do not grow, list and map agree.
* **Downsampler** — a sequence of statements without transactions, each of which may fail
  before or after it took effect, restarted from whatever it left behind. Correct: the recorded
  checksum describes the installed view, nothing is counted twice, success means done.
* **Label cache, sample fetch** — a query looks into the index twice, and refreshes that may
  break off replace it in between; chunks are fetched in parallel and fail separately. Correct:
  a result has every series that was picked, with its labels; series do not come and go.
* **Listings** — selectors are resolved one after the other, from the index or from the table,
  while the index may be replaced. Correct: everything that was there is listed, once.
* **Translator** — a tree of functions is written into one flat record per selector, and what
  the record holds is applied in an order of its own, by two evaluators. Correct: an answer is
  what the expression means, and a range is its instants.
* **Tier routing** — boundaries that move with the clock, cut through ranges and buckets at
  every alignment. Correct: each sample of the range is read once, from a source that has it.
* **Evaluator** — the sides of an operation run in two goroutines under a context that may be
  cancelled; the window that is fetched is computed in one place and used in another; series
  with gaps are walked by cursors; matching is decided step by step. Correct: a range query is
  its instants, errors have a reason, every goroutine ends.

The complete list of hazards, each at its line, is in `PROJECT.json`.

## 2. Modules

| Module | What it is |
|---|---|
| `IngestPromise` | Abstract: what a write endpoint promises. Parts of a request move from memory to *stored* or *lost*, once. |
| `RemoteWriter` | The writer in detail; implements `IngestPromise` under a refinement mapping. |
| `RemoteWriterProofs` | TLAPS proofs about `RemoteWriter`. |
| `ResultCache` | LRU, singleflight, the two endpoints' store rule, and the clock. |
| `ResultCacheProofs` | TLAPS proofs about `ResultCache`. |
| `Downsampler` | A pass statement by statement; ClickHouse's refreshes; configuration changes. |
| `DownsamplerProofs` | TLAPS proofs about `Downsampler`. |
| `SetLemmas` | Lemmas that several proofs use: finite sets (`SetToSeq`, ranks and orders, images, `Min` and `Max`), functions by recursion on numbers, samples in the order of time and their windows. |
| `SeriesFetch` | The label index, its refresh, and a query's fetch of series from cache, chunks or JOIN. |
| `SeriesListing` | Listings of series; composed with `SeriesFetch`, whose index they read. |
| `SeriesProofs` | TLAPS proofs about `SeriesFetch` and, on top of them, about `SeriesListing`. |
| `TierRouting` | From the request through the tier, the segments and the rows to the points of the result. |
| `TierRoutingProofs` | TLAPS proofs about `TierRouting`. |
| `PromQL` | Operators on samples and vectors: steps, windows, staleness, grouping, matching. |
| `Evaluation` | A query plan from the fetch of its operands to the combined answer; uses `PromQL`. |
| `EvaluationProofs` | TLAPS proofs about `Evaluation`. |
| `RangeFunctions` | Operators on a window of samples and on a histogram's buckets; uses `PromQL`. |
| `Translation` | An expression's way through the plan and both evaluators, and its meaning; uses `RangeFunctions`. |
| `TranslationProofs` | TLAPS proofs about `Translation`. |
| `MC…` | Instances of the module after `MC`. |

### RemoteWriter ↔ code

`handler[d]` is where the handler of request *d* stands: `sending` (blocked in
`Writer.Write`'s select), `enqueued` (Write returned nil), then `acked` (204), `refused` (500)
or `broken` (nobody was left to read the answer). `queue` is `w.queue`, `batch` the local
slice of `run`, `pc` its place in the loop (`select`, the two INSERTs of a flush, the two of
the last flush, `stopped`). `Receive`, `Tick` and `Done` are the three arms of the select,
`InsertTimeSeries` and `InsertSamples` the two halves of `flush`, each of which may take
effect or not; the code ignores the difference between an error and a lost answer, so the
model does too. A flush under the cancelled context cannot take effect; the last flush uses
`context.Background()`. `Signal`, `ShutdownReturns`/`ShutdownTimesOut` and `Exit` are `main`;
`Crash` and `Restart` are the environment's. `accepted`, `lost` and `unlabelled` are history
variables. A handler can reach `Write` after `Shutdown` was called, because it may have been
reading its body then.

Decoding is abstracted: a request is a sequence of (metric, labels, number of samples), and
the fingerprint a function of the labels, which is what `SeriesRow` is about.

### ResultCache ↔ code

`pc[c]` walks a caller through `Fetch`: `get` (first `Get`), `do` (entering singleflight),
`recheck` (the second `Get`), `evaluate`, `store`, `release`, or `wait` for a follower, then
`done`. `lru` is `c.ll` front to back, `items` is `c.items` with the history fields `setAt`
and `usedAt`. `keep` is the `store` argument, computed from a clock that was read *before* the
evaluation. `Release` is atomic because singleflight forgets the call and hands out its result
under its mutex. Assumed: the 64-bit key hash has no collisions, and the data of a window do
not change once `max_freshness` has passed since its end. Results answered from the label
cache alone (`tryCacheOnlyAgg`) do not satisfy the second assumption; that is listed as a
hazard. `Set`'s branch for a key that is present cannot be reached through `Fetch`; the model's
`Put` has it anyway.

### Downsampler ↔ code

`pc` is the statement that comes next and `at` the tier the current loop is at. Each statement
of the code is one action with the outcomes: it took effect and the call succeeded; it took
effect and the call failed; it did not and the call failed. `Abort` is the error return up to
`main`. `view` and `sums` are what ClickHouse holds; `rows[t][h]` counts how many times tier
table *t* holds the samples of slot *h*. `Refresh` replaces the target's rows by what the view
selects, because the views are created without `APPEND`.

Time is in slots, `PerHour` of them in an hour. `compact_after` is truncated to hours in the SQL and
the chunks of a backfill are hours (`Span`), but they start at the oldest sample, which may lie
inside an hour and inside a bucket, and the last one is clipped. Buckets matter where tiers feed
each other: a coarser tier takes of the one before it the buckets that begin before a boundary,
which is itself rounded to a bucket (`Before`, `BucketOf`).

`Exec` has a timeout of five minutes and cancels nothing in ClickHouse. So the INSERT of a backfill
has one more outcome than the statements above (`Fail`): the client gives up, or is killed, while
the statement goes on (`GiveUp`). What it has selected is then in `late`, and gets into the table in
parts, at any time (`Land`), or not at all (`Drop`: it fails after all, or a refresh has replaced the
table it was writing to). `abandoned` counts these INSERTs for each slot; it is a history variable.
A kill during a statement is the failing outcome of that statement; `Crash` is a kill between two.

Left out: statements about tables, views and checksums that go on without their client (they are
taken to have ended when the client gives up: they are done in milliseconds, and the client waits for
minutes), changes of a tier's resolution, and deletion by TTL.

### TierRouting ↔ code

`Select` is `SelectTier` with the fallback for narrow windows, `Route` is `QuerySegments`,
where the code reads the clock (it may have moved since the request), `Exec` the UNION ALL
query. What comes then depends on the function: `EvalStep` is one round of
`windowedCounterEval`'s loop for rate and increase; `PushedDown` is the rest, where the
database groups rows by multiples of the step (`Grouped`, for gauges and regressions) or pairs
each row with the one before it (`Consecutive`, for irate). `CutAbove(q, i)` is the value of
`segStart` when the code's loop reaches tier *i*. `MetricType` is what `prom_metrics` says or,
when it does not or cannot be read, what the name suggests. `Misread` are the quantiles of
histograms whose inner statement selects more columns than `ExecTierQuery` scans.

There is one series with one sample per time slot, whose value is its slot. A row carries the
set of samples it stands for, so that double counting is visible, and a point of the result the
number of its samples with the first and the last of them.

### SeriesFetch ↔ code

`cached` is `c.data` with `c.metricIndex`; both are replaced together (`Install`). A refresh
takes what the table has when ClickHouse answers (`response`); its decoding loop is local, so
only its ends are steps: all rows, the rows before a break between two rows
(`RefreshCutShort`), or never (`RefreshSpins`: a syntax error or a break within a row leaves
the decoder in its error state). `Count` is `tryCacheOnlyAgg`; when the index is not usable,
`Evaluate` hands over to `FetchSeriesData`, which looks again (`AskCache`, `AskJoin`).
`pending[w]` is what is left of worker *w*'s chunk, `FetchSeries` the first row of a series,
with `GetLabels` in whatever index is installed then. Queries only read what they share, so
one query at a time stands for all. `cut` and `shown` are history variables. A row whose
`labels` column is not JSON is skipped by the code; the writer stores none, and there are none
in the model. Matchers are the set of fingerprints whose labels satisfy them. The numbers of
workers and the parallel threshold are constants in the code (4 and 500).

### SeriesListing ↔ code

`lpc` is where `matchedSeries` stands: `next` (at its loop over the selectors, `left`),
`looking` (between `GetFingerprints` and the last `GetLabels` of a selector; `toLook` is what
is left of the fingerprints), `listed`. `ScanTable` is `SeriesMatch`, whose `LIMIT 1 BY
fingerprint` keeps one of the metrics with equal labels, `ScanFails` its error, which the code
answers with an empty success. `ScanCutShort` is a response that breaks off between two rows: the
loop of `MetaQuerier.query` ends as if it were complete, as the refresh's does, and a part of the
rows is added; `short` (history) has the selectors to which that happened. A series is a metric with a label set, as in `add`; the
fingerprint stands for the label set without the name. The index, its refreshes and the writer
are those of `SeriesFetch`. A query and a listing do not run at the same time in the instance,
because neither writes anything the other reads.

### PromQL, Evaluation ↔ code

`pc` is where `EvalPlan` or `evalBinaryPlan` stands in the request's goroutine, `side[x].stage`
where the goroutine of operand *x* stands: `fetching`, `fetched`, `aggregating` (the loop of
`aggregateMatrixSimple` with its cursors), `ready`, `sent` (in the channel), `received`. A plan
without a binary operation, or with a literal on one side, has one operand, which the code
evaluates in the request's goroutine; the steps are the same. `DataStart` and `DataEnd` are the
translator's, `From` the handler's: an instant query is translated from a lookback earlier.
`ComputeValue` stands for `computeValue` and `computeValueNoOffset`, which differ in where the
offset is applied; `count_over_time` stands for the functions over a window, `-` for the
arithmetic operators, `>` for the comparisons. `acc` is the accumulator of `evalBinaryPlan`.
`GiveUp` is the `ctx.Done()` arm, which the request's cancellation or the query timeout enables.
Series and vectors are sets: the code ranges over maps, and sorts at the end. `FirstAfter` is
`sort.Search`, on which lookback and windows rest; it needs samples in the order of time.

`StoresAssumption` says what the table holds: each series has its labels for itself and one sample at
a time, in order. The order is that of the SQL. That there is one sample at a time is the
clients' doing: `samples` is a plain MergeTree, so a write that is repeated after its answer was lost
is stored twice, and then a count is of rows rather than of times. Such tables are left out.
`QueriesAssumption` is what the translator builds: at least one operand is no literal, and windows
are not negative.

`RangeIsInstants` compares with `QueryAt`, the meaning of a query at one instant read straight
from the table. Two kinds of queries are left out of it because the code answers them
differently from instant to instant; both are findings: a side without labels is taken for a
scalar, and many-to-one matches with `on` lose labels. What is as old as the start of a range
less its window and the lookback is not fetched (`IsSeen`): of a proper range that is the very oldest
instant its first step looks at; a range that ends before it starts, which the code evaluates at its
end, sees less than the instant would. Counts that the label cache answers
(`tryCacheOnlyAgg`) never reach the evaluator; they are in `Translation`.

### RangeFunctions, Translation ↔ code

An expression is a tree (`kind`, `arg`, …), a plan one record with the fields of `SQLPlan` that
decide an answer (`Blank`). `Transpile` follows `transpile` and its helpers: each node sets
what it sets in the code, and so overwrites what the code overwrites. The sides of an operation
are named in its plan by their expressions (the code nests their plans), so plans, results and
meanings are each one function over expressions: `Transpile(q)`, `Results(q)`, `Meaning(t)`.
`EvalPlan` follows the
evaluator without its goroutines, which are in `Evaluation`: `InstantRows` is `evalInstantSD`,
`StepRows` a step of `buildMatrixSD`, `Combine` the end of `evalBinaryPlan`. The handler has two
paths: `Evaluate`, and `FromLabels` for the counts the label cache answers. Expressions the
parser or the translator refuses end in `refused`, failed matches in `failed`.

The constants are the table (`Store`), the expressions with what each is built from (`Parts`;
`ExprsAssumption` says that they are finite trees over metrics the table has, ranges that are positive, as the
parser demands), the queries, and one trigonometric function (`Trig`). `StoreAssumption` is the table as in `Evaluation`, and
`LookbackAssumption` that the lookback is not 0: `ToPromqlConfig` sets it to 300 seconds.

`Meaning` is the other side: what the expression means at an instant, by recursion over the
tree and straight from the table, with windows and lookback written down again, but with the
same functions of one window. `PlanKeepsMeaning` compares the two. The plan forgets how
functions were nested, so the property cannot hold for every nesting; `InOrder` says for which
it does, and is meant to be read: what it leaves out is answered wrongly in some store. So are a few
corners that a condition of its own excludes:

* `FetchesAll` — the fetch is open at its old end where the lookback is closed, so a sample exactly as old as the
  range's start less the lookback is not fetched (the same corner as `IsSeen` in `Evaluation`);
* `HasLabels`, `HasOneOrLabels` — a vector whose rows have no labels is taken for a scalar, and
  if it has several points, its first one stands for all of them;
* `OneLiteral` — a literal evaluates to one row at the start of the query, so of an operation of two
  literals a range has one point;
* in a range, trigonometric functions, `label_join` and negations take another way than at
  an instant, and absent ignores the offset of its selector.

`RangeFollowsInstant` compares the two evaluators with each other, also where both
are wrong, under conditions (`Stepwise`) that leave out only what is known to differ.

`RangeFunctions` computes in integers, rounding quotients down, because rounding does not
matter to the properties: both sides compute the same quotient. So extrapolation and
interpolation take part with their cases, not with their precision.

## 3. What is checked

| Run | Instance | Shows |
|---|---|---|
| `writer` | 3 requests (two metrics with equal labels; a repeated series; a request without samples), batch 2, channel 1, one impatient client; fair | `OneFate`, `AnswersAreTrue`, `SamplesHaveSeries`, `BatchStaysShort`, `AcceptedIsSettled`, `SendersUnblock`, and the refinement `KeepsPromise` |
| `writer_drain` | the same, patient clients | *violation*: run returns with accepted requests on the channel (`writer.go:88` says "Drain remaining") |
| `cache` | 2 callers, 3 requests (one an instant query), capacity 2, TTL 1, freshness 1, clock to 4; fair | `CacheConsistent`, `AnswersMatch`, `StoredIsSettled`, `EvictsLeastRecent`, `NoDuplicateWork`, `EveryFetchReturns` |
| `downsampler` | 2 tiers, 2 configurations, samples in 3 slots of half an hour, both views refreshing, one INSERT of each slot given up on | `ChecksumIsTrue`, `SourcesExist`, `BackfilledOnce`, `OnlyOldHours` |
| `downsampler_applied` | one configuration | *violation*: a pass succeeds with a configured view missing |
| `downsampler_backfill` | one configuration | *violation*: an interrupted backfill is never completed |
| `downsampler_refresh` | one configuration, first view refreshing | *violation*: the first tier's view selects nothing |
| `eval` | two metrics of two or three series with gaps and markers; 24 shapes of query at an instant, over ranges whose step divides them or not, and over ranges that end before they start, also by more than the lookback; limit of two series; fair | `RangeIsInstants`, `ErrorsAreDeserved`, `EvaluationEnds` |
| `fetch` | up to 5 series of two metrics, two of which share a fingerprint; 2 workers; at most 3 series per metric from the cache; three listings with and without a metric's name, limit 3, whose statements may fail or be cut short; fair | `FetchIsComplete`, `LabelsFound`, `SeriesStay`, `QueryEnds`, `ListingIsComplete` |
| `plan` | about 2800 expressions (every function around every other, operations of every two operands) over two gauges, a counter and two histograms of two to five series with gaps and resets, at an instant, over three steps and over one | `PlanKeepsMeaning`, `RangeFollowsInstant` |
| `tiers` | 2 tiers (widths 2 and 4), 1452 queries over nine kinds of function and metric, clock from 10 to 16 | `SegmentsTile`, `FitsWindow`, `SettledOnly`, `DoubledOnlyInSeams`, `SlidingIsExact`, `IrateLooksForward` |
| `tiers_gap` | the same | *violation*: the oldest part of a range is read from nowhere |

Every passing run also checks its module's `TypeOK`; that of `ResultCache` says too that an
entry expires a TTL after it was set, however often it is used. `BackfilledOnce` says that a sample is
in the first tier once, and once more for each INSERT of it that was given up on: no failure of
any other kind, no crash and no retry adds a copy. The exception is reached (a finding): the next
pass still counts no rows and repeats the INSERT that is under way. `SlidingIsExact` is about rate: the two pointers
find exactly the rows of each window, and what the rows of a window can lack is

* what lies outside of the range: the first windows reach back before its start, where nothing is
  read, and the sample at its very end is not read either;
* what lies in the range's front and is read by no segment (`Unread`): time of a coarser tier that
  is passed over (the finding of `tiers_gap`), or a bucket that begins before the first segment;
* what comes less than the widest bucket after the beginning of the window, because its bucket may
  begin before it.

`IrateLooksForward` excepts the rows at a seam, which can go backwards in time (a finding).
`FitsWindow` is about everything but quantiles of histograms, which do not look at the window.
The violations are disagreements between the code and its own comments or README, quoted under
"findings" in `PROJECT.json`.

**Why the bounds are enough.** *Writer:* three requests give one on the channel, one in the
batch and one blocked at once; channel size 1 makes the channel full; batch size 2 is reached
exactly, passed, and missed. *Cache:* two keys fill a capacity of two and a third evicts; TTL 1
and a clock to 4 let an entry be stored, used, expire and be replaced; two callers suffice for
a race and for a leader with a follower. *Downsampler:* two tiers have both kinds of
view and both kinds of backfill; two configurations let a checksum change and change back. Slots are
half hours and buckets hours, the samples begin in the middle of a bucket and go on beyond the
boundary, so a backfill has two chunks, of which the first cuts two buckets and the last is
clipped; the clock makes one more step, which moves the boundary into a bucket. One INSERT of a slot
that is given up on (`MaxAbandoned`) is enough to land before, during and after a pass that repeats
it. *Fetch:* two chunks, one longer than the other, or one
empty; four series of a metric exceed the index's limit; a partial index may be any subset; listings
combine two selectors that overlap, one that falls back to the table, and one that is refused.
*Plan:* two wrappers around a selection and around a window function, and a chain of three
aggregations, show every pair in both orders; samples every three units with gaps, resets and
negative values let the order of functions show in the result.
*Evaluation:* samples at four times with lookback 2 give series that are seen, too old, ended by
a marker and back again within one range; three series exceed the limit of two. *Tiers:* the boundaries (5 and 9 slots before now)
move across the buckets as the clock runs, and starts, ends, steps and windows lie on and off
the buckets' edges. All bounds are constants (`MaxTime`, `MaxNow`, `MaxAbandoned`, the sets of requests); no
counter in the code is cut otherwise.

**Fairness.** In `RemoteWriter` each step of a goroutine is weakly fair: the Go scheduler runs
what can run, and an INSERT returns because the driver has timeouts. `Enqueue` is strongly
fair because blocked senders wait in the channel's FIFO queue. In `ResultCache` each caller's
`Fetch` is weakly fair; the evaluation ends because it runs under the query timeout.
In `SeriesFetch` a query's steps are weakly fair, because ClickHouse answers or the client
library reports an error; refreshes and the writer are not fair.
In `Evaluation` the query as a whole is weakly fair: some goroutine of it goes on while one can. Clients,
signals, crashes, restarts, requests and the passage of time are never fair. `Downsampler`,
`TierRouting` and `Translation` have safety properties only.

## 4. What is proved

`RemoteWriterProofs` proves for *every* value of the constants that satisfies
`ConfigAssumption` (request sequences over the declared series, positive sizes):

* `TypeCorrect`, `OneFateHolds`, `AnswersAreTrueHolds`, `SamplesHaveSeriesHolds`,
  `BatchStaysShortHolds` — the invariants of the `writer` run;
* `WriterKeepsPromise` — the writer implements `IngestPromise`.

The argument is one inductive invariant, `IInv` (`IInvHolds`). `OneFate` alone is not
inductive: to know that a flush stores a part *once* one must know that what is in memory was
accepted, and in one place only. So `IInv` adds: everything in memory belongs to accepted
requests; during the second half of a flush the batch's series are in `time_series` or
recorded as unlabelled; an exited process holds nothing. Lemmas state how parts move between
channel, batch and tables (what appending a request, taking the head of the channel or
emptying the batch does to the set of parts in memory), then one lemma per conjunct of `IInv`
shows that every step preserves it, action by action where the action can disturb it. The refinement maps every step to a step of
`IngestPromise` or a stutter.

`ResultCacheProofs` proves, for every value of the constants that satisfies `CacheAssumption`,
the invariants and the action property of the `cache` run:

* `TypeCorrect`, `CacheConsistentHolds`, `NoDuplicateWorkHolds`, `StoredIsSettledHolds` and
  `EvictsLeastRecentHolds`, without further assumptions;
* `AnswersMatchHolds`, under the assumption that no two requests share a key. The key holds whole
  milliseconds, so requests whose bounds differ by less do share one.

The first half of its invariant, `CacheInv`, is about the list and the map: they agree, the
list has no repetitions and is in the order of use, and each entry is settled and under its own
key. Lemmas say what taking an element out (`WithoutIs`, `WithoutSet`, `WithoutOrder`), moving it
to the front (`FrontedIs`) and dropping the last one (`FrontIs`, `KeptIs`) do to a sequence without
repetitions; `PromoteKeeps`, `DropKeeps` and `PutKeeps` show that Get and Set keep `CacheInv`. The
second half is about the callers. `NoDuplicateWork` is not inductive: it needs that a leader's key
is in flight (`FlightLed`), and that a key missed by the leader's second Get stays missing until
its Set (`MissHeld`). `StoredIsSettled` needs that the window of a request with `store` had settled
when it was asked (`KeepIsSettled`), so that what was read later is settled too (`StoreReady`).

`DownsamplerProofs` proves, for every set of configurations that satisfies
`DownsamplerAssumption`, any samples, resolutions and views that ClickHouse refreshes, and any number
of INSERTs that are given up on:

* `TypeCorrect`, `ChecksumIsTrueHolds` and `SourcesExistHolds`, without further assumptions;
* `OnlyOldHoursHolds`, under `BucketsNest`: the buckets of a tier consist of whole ones of the tier
  before it;
* `BackfilledOnceHolds`, under `TablesApart`: no configuration's later tier writes to the table of
  a first tier.

`Validate` checks neither of the two; the documented tiers satisfy both. Without the first, a boundary
that is rounded down to a coarse bucket could lie inside a fine one, whose younger half would come along.

The invariant `IInv` says where a pass is: which tables it has made (`TablesMade`), which view it has
dropped or installed (`Replacing`), and that installed views come from some configuration
(`ViewsConfigured`). `OldInv` adds what `OnlyOldHours` needs: a backfill ends where the tier begins
(`EndIsOld`), and what is under way in ClickHouse is old too (`HeldIsOld`), so that it may land at
any time, the clock only making it older; `BeforeIsOld` is the step from one tier to the next.
`OnceInv` counts what the INSERTs that were given up on have yet to put in as if it were there
already (`Counted`): then landing changes nothing, and giving up adds one copy and one to `abandoned`.
It also needs that the table has nothing ahead of the chunk that is next but what such INSERTs have
put or will put there (`FreshAhead`), which a refresh of the first tier's view does not
disturb because that view selects nothing. That a
set of slots has a first and a last one, which `Min` and `Max` assume (`FirstAndLast`), comes from
`SetLemmas`: the elements of a finite set have different ranks, so one has rank 0 and one the
highest.

`SeriesProofs` proves, for any series, workers, threshold and limits that satisfy
`FetchAssumption`, the invariants of the `fetch` run that are about queries:

* `TypeCorrect`, `FetchIsCompleteHolds`, `LabelsFoundHolds` and `SeriesStayHolds`;
* `IndexOnlyGrows` — no step takes a series out of the index, unless a refresh is cut short.

The invariant follows a fingerprint from the index to the result. Each one that was picked is with
one worker or in the result, and in one place only (`InOnePlace`), and none is lost unless a
worker failed (`NoneLost`); chunks of a sequence without repetitions share no element and
together have all of them, whatever the number of workers. `LabelsFound` and
`SeriesStay` need more than that: what is being decoded holds everything the index holds, because a
refresh reads the table later than the one it replaces and the table only grows, so that what was
picked or shown stays in the index until a broken response is installed (`IndexGrows`).

It then proves `ListingIsCompleteHolds` for any listings and limits that satisfy
`ListingAssumption`. That proof begins with `ListingsDoNotDisturb`: the composition implements `SeriesFetch`,
so everything proved above holds in it, and in particular that the index only grows. On top of that
its own invariant says that nothing is listed that no selector matches, that the selectors left are the last ones of the request (`LeftIsRest`), that
what was known when the listing began is still there (`KnownStays`), that of the current selector
each series is listed or still to be looked up (`LookingForRest`), and that every selector behind is
covered unless its response was cut short (`Progress`).

`TierRoutingProofs` proves the invariants of the `tiers` run for any tiers, requests, boundaries and
clock that satisfy `TiersAssumption` and `QueriesAssumption`:

* `TypeCorrect` and `FitsWindowHolds`, without further assumptions;
* `SegmentsTileHolds`, when no tier is finer than the one before it (`ResolutionsGrow`);
* `SettledOnlyHolds`, when no bucket is wider than `rawOverlap`, two hours
  (`BucketsWithinOverlap`);
* `DoubledOnlyInSeamsHolds` and `SlidingIsExactHolds`, when the buckets of a coarser tier consist of
  whole ones of the finer tiers (`BucketsNest`);
* `IrateLooksForwardHolds`, when tiers get no finer and no bucket is narrower than the five minutes
  into which raw samples are grouped (`RawIsFinest`).

The documented configuration (tiers of 5 minutes and 1 hour) satisfies all four conditions, but
`Validate` checks none of them: only that `compact_after` and `min_step` grow. They are needed. A
tier between two others that is coarser than the selected one, for example, is left out, and its part
of the range with it. The invariant says of each stage what the next rests on: the tier is
the one `SelectTier` and its fallback choose, the segments are ordered, below the clock and in
tiers that can be used (`Fit`), and without gaps (`Joined`); the rows are those of the segments in the order of
time (`RowsRead`), each with the samples of its bucket (`RowIs`); and in the sliding loop, rows
behind the first pointer are out of every window to come, and the points are those of the evaluation
times so far (`Evaluating`). `BoundaryIs`, `CutAboveIs` and `TierSegmentsAre` say what the
loop of `QuerySegments` computes, `SegmentsFit` and `SegmentsJoin` what follows for its segments,
`SourcesAre` and `SeamIs` which rows can hold one sample.

`EvaluationProofs` proves the invariants of the `eval` run for any tables, queries, lookback and
limit of series that satisfy `StalenessAssumption`, `StoresAssumption` and `QueriesAssumption`:

* `TypeCorrect` — among the rest that no cursor leaves its series;
* `RangeIsInstantsHolds` — a range query is its instants;
* `ErrorsAreDeservedHolds` — a query fails for a reason, and does not succeed when rows match
  ambiguously at some step.

Its central notion is `Shows(series, f, T)`: at each time of `T` the series have the values that the
function `f` gives, they have none at other times, each set of labels occurs once, and samples are in
the order of time. The table's rows are related to `f` once: `FirstAfterIs`, `WindowIs` and
`InstantIs` say what a binary search in a sequence in the order of time finds, and `ValueIs` that the
window the translator has fetched holds everything a step looks at, so that a value computed from it is
that of the table. After that each stage of the evaluation turns something that shows one function into
something that shows the next: `MatrixIs` for buildMatrixSD; `Aggregates` for the loop of
aggregateMatrix, whose cursors stand at each series' first sample that is not behind the steps to come
(`ReachIs`, `AggregateGoesOn`); `AddedShows` for the accumulator, which only ever appends;
`ScalarShows` for a literal on one side; `SetOpIsVector` and `BinaryOpIsFinite` for a matched pair of
vectors. Neither of the two properties is inductive: they speak of the answer only. The invariant adds
what each operand has at each stage (`SideIs`), in whatever order the goroutines reach theirs, and that
the accumulator shows the query at the steps behind and that none of these was ambiguous
(`Combined`).

The two exceptions of `RangeIsInstants` (a side that is taken for a scalar, matches that lose labels)
are exceptions of the theorem too.

`TranslationProofs` proves the invariants of the `plan` run for any table, expressions of any
depth, any queries, lookback and trigonometric function that satisfy the assumptions:

* `TypeCorrect` — among the rest, an expression has one plan at most, a query one result at most;
* `RangesFollowInstants` — the evaluator of ranges and that of instants agree at each step;
* `PlansKeepMeaning` — the answer is what the expression means at each step, from both paths.

Nothing here is inductive in the number of steps of the specification, of which a query takes three;
the induction is over expressions. The prover cannot instantiate the library's induction theorems, so
`TreeInduction` states it for sets of expressions: a set that has every expression all of whose proper
parts it has, has them all, because a smallest counterexample by the cardinality of `Parts` cannot exist.
For the same reason
`RecursionIs` shows that a function over expressions with a given recursive definition exists
(`PlansAre`, `ResultsAre`, `MeaningsAre`), and `ChainsAre` what a chain of aggregations or functions
does when it grows by one. On top of that the argument has four layers:

1. *Plans* (`Describes`): what each field of a plan says of the expression, whatever wrote it last;
   a plan with aggregations is no longer one of an operation.
2. *Fetch* (`ReachIs`, `ValuesAre`): the window that the plan fetches holds everything any step
   looks at, so a value computed from the fetched samples is that of the table.
3. *Steps* (`StepByStepIs`, `Follows`): a result is its rows at each step, and every function,
   aggregation and operation works step by step. From this and induction follows
   `RangesFollowInstants`.
4. *Meaning* (`Means`, `Meant`): a plan around one selector is `Flat` — its aggregations, then its
   functions of numbers, then one of labels, histograms or scalars — and is applied in the order in which
   the expression nests them (`LeafMeans`). Everything else is an operation with functions around it
   (`OperationSurrounded`), with a literal, a scalar or a matched vector on each side
   (`ResultsMean`). A count from the label cache counts the same groups because series and
   rows correspond one to one (`CountMeans`).

Several of the conditions listed with `RangeFunctions, Translation ↔ code` above came from obligations that
could not be proved and that the instances had not shown: the sample at the edge of the fetched window,
vectors without labels, trigonometry of `time()` over a range of one step, and the absence of a shifted
selector.

Only model-checked: liveness (`AcceptedIsSettled`, `SendersUnblock`, `EveryFetchReturns`,
`QueryEnds`, `EvaluationEnds`), which is out of the prover's reach. Every invariant, every action
property and the refinement that a passing run checks is stated by a theorem. The operators that
the model and the meaning share — the functions of one window in `RangeFunctions`, the quantile of a
histogram — are compared with nothing, by TLC or by proof.

## 5. What is not modelled, and why

* The interpolation of quantiles and the aggregation of several series over tiers
  (`computeHistogramQuantile`, `applyAggChain` in the handler): arithmetic on what
  `TierRouting` reads. Materialized-view tiers of the tool's configuration (`RenderMV`), an
  older form of downsampling in which aggregated rows take the place of samples.
* Floating point: quotients are rounded down, and functions that differ from a modelled one only
  in their arithmetic (avg, stddev, bottomk, the other mathematical functions) are left out.
* Calendar functions, `vector()`, `round`, and the `@` modifier.
* limitk, limit_ratio, mad_over_time, double_exponential_smoothing and sorting by labels: the
  parser refuses them, so `eval/limit.go` and `eval/smoothing.go` are not reached (a finding).
* The unscoped metadata endpoints and the OpenTelemetry tables: one statement, rendered.
* Pure I/O and rendering: HTTP server, middleware, SQL text, response formatting, CLI, UI.
* The proxy's own write endpoint: `SetWriter` is never called, so it always answers 501.

## 6. What could come next

1. Lemmas about `RangeFunctions`: that extrapolation never exceeds the range, that a quantile lies
   within its bucket.
2. Action properties of `Evaluation` and `SeriesListing` with proofs: what is combined or listed is not
   taken back.
3. Several series over tiers, with the handler's own aggregation.
