----------------------------- MODULE TierRouting -----------------------------
(***************************************************************************)
(* How a range query is answered from downsampled tiers: SelectTier and    *)
(* QuerySegments of proxy/config/config.go, tryDownsampledQuery,           *)
(* tryDownsampledHistogram and what they evaluate in                       *)
(* proxy/server/handlers/query.go, and the queries over the segments in    *)
(* proxy/clickhouse/tier_query.go.                                         *)
(*                                                                         *)
(* Time is a natural number of slots, with one sample per slot, whose      *)
(* value is its slot.  A row of the query is abstracted to the set of      *)
(* samples it stands for: counter_total and val_count to their number,     *)
(* first_time and val_min, last_time, last_value and val_max to the first  *)
(* and the last of them.  The clock is read when the segments are cut,     *)
(* after the request came in.  A tier is taken to hold every bucket; what  *)
(* it holds in fact is Downsampler's subject, and SettledOnly says that no *)
(* bucket is asked for that could not have been written yet.               *)
(*                                                                         *)
(* There is one series.  What is done with several of them, aggregations   *)
(* and the quantile of a histogram, is left out.                           *)
(***************************************************************************)
EXTENDS Naturals, Sequences, SequencesExt, FiniteSetsExt

CONSTANTS
  Tiers,      \* h.Cfg.Downsampling.Tiers, finest first
  Queries,    \* requests: start, end, step, the function with its range, and its metric
  Overlap,    \* rawOverlap
  RawBucket,  \* toStartOfFiveMinutes: the bucket into which raw samples are grouped
  Start,      \* where the clock is when the model starts
  MaxNow      \* bound: where the clock stops

Fields == {"res", "after", "minStep"}

\* Validate: compact_after and min_step grow; resolutions are not looked at.
ASSUME TiersAssumption ==
  /\ Tiers \in Seq([Fields -> Nat]) /\ Tiers # <<>>
  /\ \A i \in DOMAIN Tiers : Tiers[i].res > 0
  /\ \A i \in 1..(Len(Tiers) - 1) :
       /\ Tiers[i].after < Tiers[i + 1].after
       /\ Tiers[i].minStep < Tiers[i + 1].minStep

\* fn is the function, inner the one inside a histogram_quantile, type what prom_metrics
\* says of the metric ("" if nothing), named what its name suggests.
Requests == [start : Nat, end : Nat, step : Nat, range : Nat,
             fn : STRING, inner : STRING, type : STRING, named : STRING]

ASSUME QueriesAssumption ==
  /\ Queries \subseteq Requests
  /\ \A q \in Queries : q.start <= q.end /\ q.step > 0 /\ q.range > 0
  /\ Overlap \in Nat /\ RawBucket \in Nat \ {0}
  /\ Start \in Nat /\ MaxNow \in Nat /\ Start <= MaxNow

VARIABLES
  now,       \* time.Now()
  pc,        \* where the handler is
  query,     \* the request, <<>> before there is one
  tier,      \* the index of selectedTier, 0 for nil
  segments,  \* the segments QuerySegments returned
  rows,      \* the rows of the query, by ts
  at,        \* the evaluation time
  lo,        \* windowedCounterEval: the first bucket of the window
  out        \* the series that is returned: what each of its points was computed from

planVars == <<query, tier, segments, rows>>
evalVars == <<at, lo, out>>
vars == <<now, pc, query, tier, segments, rows, at, lo, out>>

Slots == 0..MaxNow

RawSource == 0

-----------------------------------------------------------------------------
(***************************************************************************)
(* Which tier.                                                             *)
(***************************************************************************)

MaxOf0(S) == IF S = {} THEN 0 ELSE Max(S)
MinOf0(S) == IF S = {} THEN 0 ELSE Min(S)

Reachable(step) == {i \in DOMAIN Tiers : step >= Tiers[i].minStep}

\* SelectTier: the last tier whose min_step the step reaches; 0 for none.
SelectTier(step) == MaxOf0(Reachable(step))

\* Mutant: the tier may be coarser than the window.
TierFor_AnyResolution(q) == SelectTier(q.step)

\* tryDownsampledQuery: a tier that is coarser than the window of the function gives
\* way to the first one that is not.  tryDownsampledHistogram does not look at the window.
TierFor(q) ==
  LET i == SelectTier(q.step)
  IN IF q.fn # "histogram_quantile" /\ i # 0 /\ Tiers[i].res > q.range
     THEN MinOf0({j \in Reachable(q.step) : Tiers[j].res <= q.range})
     ELSE i

-----------------------------------------------------------------------------
(***************************************************************************)
(* QuerySegments: the range is cut at the boundaries, oldest first.        *)
(***************************************************************************)

\* Mutant: the segments are cut at compact_after itself.
Boundary_NoOverlap(i) == now - Tiers[i].after

\* The times before which tier i is used.  (Times before slot 0 hold no sample.)
Boundary(i) == IF Tiers[i].after + Overlap <= now THEN now - (Tiers[i].after + Overlap) ELSE 0

\* Where tier i's part of the range starts: where the next coarser tier's part ends.
CutAbove(q, i) ==
  Max({q.start} \union {Min({Boundary(j), q.end}) : j \in (i + 1)..Len(Tiers)})

\* "Only use tiers with resolution <= selectedTier resolution"
Usable(i) == Tiers[i].res <= Tiers[tier].res

\* A finite set as a sequence: an element comes after as many as are before it.
InOrder(S, before(_, _)) ==
  [i \in 1..Cardinality(S) |-> CHOOSE x \in S : Cardinality({y \in S : before(y, x)}) = i - 1]

TierSegments(q) ==
  LET reaches(i) == CutAbove(q, i) < Boundary(i) /\ CutAbove(q, i) < q.end
      used == {i \in DOMAIN Tiers : reaches(i) /\ Usable(i)}
      oldestFirst == InOrder(used, >)
      segment(i) == [source |-> i, start |-> CutAbove(q, i), end |-> Min({Boundary(i), q.end})]
  IN [k \in DOMAIN oldestFirst |-> segment(oldestFirst[k])]

\* Mutant: the raw segment starts at compact_after.
RawSegment_NoOverlap(q) ==
  LET s == Max({q.start, now - Tiers[1].after})
  IN IF s < q.end THEN << [source |-> RawSource, start |-> s, end |-> q.end] >> ELSE << >>

\* The newest data, and what no tier's part reaches.
RawSegment(q) ==
  IF CutAbove(q, 0) < q.end
  THEN << [source |-> RawSource, start |-> CutAbove(q, 0), end |-> q.end] >>
  ELSE << >>

QuerySegments(q) == TierSegments(q) \o RawSegment(q)

-----------------------------------------------------------------------------
(***************************************************************************)
(* Which functions.                                                        *)
(***************************************************************************)
CounterFns == {"rate", "increase", "irate"}
GaugeFns == {"avg_over_time", "min_over_time", "max_over_time", "sum_over_time", "count_over_time"}
RegressionFns == {"deriv", "predict_linear"}

QueryFn(q) == IF q.fn = "histogram_quantile" THEN q.inner ELSE q.fn

\* GetMetricType: when the table does not say, or cannot be read, the name does.
MetricType(q, readable) == IF readable /\ q.type # "" THEN q.type ELSE q.named

\* An unknown type is guessed from the name again.
IsCounterLike(q, type) ==
  \/ type \in {"counter", "histogram"}
  \/ type = "unknown" /\ q.named \in {"counter", "histogram"}

\* BuildSegmentedQuery: the others require raw samples.
Buildable(q, type) ==
  \/ QueryFn(q) \in CounterFns /\ IsCounterLike(q, type)
  \/ QueryFn(q) \in GaugeFns \union RegressionFns

\* ExecTierQuery reads three columns; rate and increase select five, the gauges six.
Misread(q) == q.fn = "histogram_quantile" /\ q.inner \in {"rate", "increase"} \union GaugeFns

\* The downsampled path is left when there is nothing but raw data to read, or nothing
\* at all (BuildSegmentedQuery: "no segments").
OnlyRaw(segs) == \A k \in DOMAIN segs : segs[k].source = RawSource

-----------------------------------------------------------------------------
(***************************************************************************)
(* The rows of a segment.                                                  *)
(***************************************************************************)

\* One sample per slot, up to now.
Stored == 0..now

BucketOf(t, width) == t - (t % width)

InBucket(ts, width) == {t \in Stored : BucketOf(t, width) = ts}

\* Mutant: a tier's segment leaves out the bucket at its start.
TierRows_OpenStart(s) ==
  {[ts |-> b, source |-> s.source, samples |-> InBucket(b, Tiers[s.source].res)] :
     b \in {t \in s.start..s.end : t % Tiers[s.source].res = 0 /\ t # s.start}}

\* buildTierCounterSegment: ts BETWEEN start AND end, both included.
TierRows(s) ==
  {[ts |-> b, source |-> s.source, samples |-> InBucket(b, Tiers[s.source].res)] :
     b \in {t \in s.start..s.end : t % Tiers[s.source].res = 0}}

\* Mutant: the raw segment reads whatever is older than its end.
RawWindow_NoStart(s) == {t \in Stored : t < s.end}

\* buildRawCounterSegment: unix_milli >= start AND unix_milli < end ...
RawWindow(s) == {t \in Stored : s.start <= t /\ t < s.end}

\* ... grouped into buckets, of which the first may be cut short by start.
RawRows(s) ==
  {[ts |-> b, source |-> RawSource, samples |-> InBucket(b, RawBucket) \intersect RawWindow(s)] :
     b \in {BucketOf(t, RawBucket) : t \in RawWindow(s)}}

Rows(segs) ==
  UNION {IF segs[k].source = RawSource THEN RawRows(segs[k]) ELSE TierRows(segs[k]) :
           k \in DOMAIN segs}

Sources == {RawSource} \union DOMAIN Tiers

\* UNION ALL ... ORDER BY fingerprint, step_ts: rows of one time come in any order.
Orders == {p \in [Sources -> 1..Cardinality(Sources)] : IsInjective(p)}

Before(r, s, p) == r.ts < s.ts \/ (r.ts = s.ts /\ p[r.source] < p[s.source])

Sorted(rs, p) == InOrder(rs, LAMBDA r, s : Before(r, s, p))

\* A point of the result: what the rows in it stand for.
Point(t, window) ==
  LET samples == UNION {rows[j].samples : j \in window}
  IN [at |-> t, total |-> Cardinality({jt \in window \X samples : jt[2] \in rows[jt[1]].samples}),
      first |-> Min(samples), last |-> Max(samples)]

\* buildGaugeUnion, buildDerivUnion, buildPredictLinearUnion: GROUP BY step_ts, which is
\* startOfIntervalExpr(ts, step); gaugeToMatrix picks a column.
Grouped(step) ==
  LET steps == {BucketOf(rows[j].ts, step) : j \in DOMAIN rows}
      ats == InOrder(steps, <)
  IN [k \in DOMAIN ats |-> Point(ats[k], {j \in DOMAIN rows : BucketOf(rows[j].ts, step) = ats[k]})]

\* buildIRateUnion: from the last value of the row before to that of the row, for each
\* row but the first.
Consecutive(step) ==
  [j \in 1..(Len(rows) - 1) |->
     LET prev == Max(rows[j].samples)
         last == Max(rows[j + 1].samples)
     IN [at |-> BucketOf(rows[j + 1].ts, step), first |-> prev, last |-> last,
         total |-> IF last >= prev THEN last - prev ELSE last]]

-----------------------------------------------------------------------------
Init ==
  /\ now = Start
  /\ pc = "idle"
  /\ query = <<>>
  /\ tier = 0
  /\ segments = <<>>
  /\ rows = <<>>
  /\ at = 0
  /\ lo = 1
  /\ out = <<>>

\* Time passes, and a sample arrives.  (Once the rows are read the clock does not matter.)
Tick ==
  /\ now < MaxNow
  /\ pc \notin {"eval", "pushed", "done"}
  /\ now' = now + 1
  /\ UNCHANGED <<pc, planVars, evalVars>>

\* A request arrives; its range may reach beyond now.
Ask(q) ==
  /\ pc = "idle"
  /\ query' = q
  /\ pc' = "select"
  /\ UNCHANGED <<now, tier, segments, rows, evalVars>>

\* No tier: the query goes to the evaluator, which reads raw samples only.
Select ==
  /\ pc = "select"
  /\ tier' = TierFor(query)
  /\ pc' = IF tier' = 0 THEN "raw" ELSE "route"
  /\ UNCHANGED <<now, query, segments, rows, evalVars>>

Route ==
  /\ pc = "route"
  /\ segments' = QuerySegments(query)
  /\ pc' = IF OnlyRaw(segments') THEN "raw" ELSE "exec"
  /\ UNCHANGED <<now, query, tier, rows, evalVars>>

\* ExecTierQueryRaw, ExecGaugeQuery, ExecTierQuery
Exec ==
  /\ pc = "exec"
  /\ \E readable \in BOOLEAN : Buildable(query, MetricType(query, readable))
  /\ ~Misread(query)
  /\ \E p \in Orders : rows' = Sorted(Rows(segments), p)
  /\ at' = query.start
  /\ pc' = IF query.fn \in {"rate", "increase"} THEN "eval" ELSE "pushed"
  /\ UNCHANGED <<now, query, tier, segments, lo, out>>

\* The label cache is not loaded, the function requires raw samples, or the query fails:
\* "falling back to raw".
ExecFails ==
  /\ pc = "exec"
  /\ pc' = "raw"
  /\ UNCHANGED <<now, planVars, evalVars>>

\* Mutant: a bucket that starts with the window is left in it.
FirstInWindow_Closed(i, t) ==
  Min({j \in i..(Len(rows) + 1) : j > Len(rows) \/ rows[j].ts + query.range >= t})

\* Mutant: the pointer runs one place too far.
FirstInWindow_PastEnd(i, t) ==
  Min({j \in i..(Len(rows) + 2) :
         j > Len(rows) + 1 \/ (j <= Len(rows) /\ rows[j].ts + query.range > t)})

\* The first pointer: past the buckets at or before the start of the window.
FirstInWindow(i, t) ==
  Min({j \in i..(Len(rows) + 1) : j > Len(rows) \/ rows[j].ts + query.range > t})

\* The second pointer: from the first one up to the evaluation time.
Window(i, t) == {j \in i..Len(rows) : rows[j].ts <= t}

\* One evaluation time of windowedCounterEval; an empty window gives no sample.
EvalStep ==
  /\ pc = "eval"
  /\ at <= query.end
  /\ lo' = FirstInWindow(lo, at)
  /\ LET window == Window(lo', at) IN
       out' = IF window = {} THEN out
              ELSE Append(out, Point(at, window))
  /\ at' = at + query.step
  /\ UNCHANGED <<now, pc, planVars>>

Finish ==
  /\ pc = "eval"
  /\ at > query.end
  /\ pc' = "done"
  /\ UNCHANGED <<now, planVars, evalVars>>

\* The rows of the query are the points of the result.
PushedDown ==
  /\ pc = "pushed"
  /\ out' = IF QueryFn(query) = "irate" THEN Consecutive(query.step) ELSE Grouped(query.step)
  /\ pc' = "done"
  /\ UNCHANGED <<now, planVars, at, lo>>

\* The response is written, after the evaluator has answered from raw samples if need be.
Respond ==
  /\ pc \in {"raw", "done"}
  /\ pc' = "idle"
  /\ query' = <<>> /\ tier' = 0 /\ segments' = <<>> /\ rows' = <<>>
  /\ at' = 0 /\ lo' = 1 /\ out' = <<>>
  /\ UNCHANGED now

Answer == Select \/ Route \/ Exec \/ ExecFails \/ EvalStep \/ Finish \/ PushedDown \/ Respond

Next == Tick \/ (\E q \in Queries : Ask(q)) \/ Answer

Spec == Init /\ [][Next]_vars

-----------------------------------------------------------------------------
(***************************************************************************)
(* What is checked.                                                        *)
(***************************************************************************)

Segment == [source : Sources, start : Nat, end : Nat]

\* The variables have their types; the window's first pointer stays within the rows.
TypeOK ==
  /\ now \in Slots
  /\ pc \in {"idle", "select", "route", "exec", "eval", "pushed", "raw", "done"}
  /\ query \in {<<>>} \union Requests
  /\ tier \in {0} \union DOMAIN Tiers
  /\ segments \in Seq(Segment)
  /\ \A i \in DOMAIN rows : rows[i].ts \in Nat /\ rows[i].samples \subseteq Stored
  /\ at \in Nat
  /\ lo \in 1..(Len(rows) + 1)
  /\ \A i \in DOMAIN out :
       out[i] \in [at : Nat, total : Nat, first : Stored, last : Stored]

Routed == pc \in {"exec", "eval", "pushed", "done"}

Evaluated == pc \in {"eval", "pushed", "done"}

Wanted == {t \in Stored : query.start <= t /\ t < query.end}

Within(t, s) == s.start <= t /\ t < s.end

\* The segments never overlap, and from the first of them on they leave no gap; the
\* front of the range is left out only if some tier is coarser than the selected one.
SegmentsTile ==
  Routed =>
    /\ \A t \in Wanted : t >= segments[1].start =>
         Cardinality({k \in DOMAIN segments : Within(t, segments[k])}) = 1
    /\ (\A i \in DOMAIN Tiers : Usable(i)) => segments[1].start = query.start

\* No tier is read whose buckets are wider than the function's window: of such a bucket
\* only a part would belong to the window.  (But for the quantiles of histograms.)
FitsWindow == Routed /\ query.fn # "histogram_quantile" => \A k \in DOMAIN segments :
                          segments[k].source # RawSource => Tiers[segments[k].source].res <= query.range

\* A bucket read from a tier consists of samples older than compact_after, which is when
\* the tier gets them: although BETWEEN includes the bucket in which the segment ends,
\* rawOverlap keeps it clear of compact_after (as long as no bucket is wider than it).
SettledOnly ==
  \A i \in DOMAIN rows : rows[i].source # RawSource =>
    \A t \in rows[i].samples : t + Tiers[rows[i].source].after < now

Copies(t) == Cardinality({i \in DOMAIN rows : t \in rows[i].samples})

InSeam(t, s) ==
  s.source # RawSource /\ s.end <= t /\ BucketOf(t, Tiers[s.source].res) <= s.end

\* The front of the range that no segment reads: what is before the first segment, which
\* begins later than the range when a tier coarser than the selected one is passed over,
\* and the rest of the bucket that begins before that segment.
Unread(t) ==
  LET s == segments[1] IN t < s.start \/ BucketOf(t, Tiers[s.source].res) < s.start

\* What UNION ALL adds up: of the samples from the first segment on, none is left out
\* but those of a bucket that begins before the segment, and none is read twice but
\* those of the bucket in which a tier's segment ends and the next one begins.
DoubledOnlyInSeams ==
  Evaluated => \A t \in Wanted :
    /\ Copies(t) = 0 => Unread(t)
    /\ Copies(t) > 1 => \E k \in DOMAIN segments : InSeam(t, segments[k])

EvalTimes == {t \in query.start..query.end : t < at /\ (t - query.start) % query.step = 0}

WindowOf(t) == {i \in DOMAIN rows : rows[i].ts <= t /\ t < rows[i].ts + query.range}

\* The widest bucket that may be read.
Widest == Max({RawBucket} \union {Tiers[i].res : i \in {j \in DOMAIN Tiers : Usable(j)}})

\* A sample's whole bucket lies in the window at t: the sample comes at least the widest
\* bucket after the window's beginning.
WellInside(u, t) == t + Widest <= u + query.range /\ u <= t

\* The sliding window with its two pointers, which only ever move forward, yields at
\* every evaluation time what the window (t - range, t] holds, with its first and its last
\* row, and nothing where it is empty.  Of the samples of a window it can lack
\*   - those outside of the range: no segment reads before its start, to which the first
\*     windows reach back, nor at its very end;
\*   - those of the range's front that no segment reads (Unread);
\*   - those that come less than the widest bucket after the window's beginning, as their
\*     bucket may begin before the window;
\* and no others.
SlidingIsExact ==
  Evaluated /\ query.fn = "rate" =>
    /\ ToSet(out) = {Point(t, WindowOf(t)) : t \in {u \in EvalTimes : WindowOf(u) # {}}}
    /\ \A t \in EvalTimes : \A u \in Wanted : WellInside(u, t) =>
         Unread(u) \/ \E j \in WindowOf(t) : u \in rows[j].samples

\* An irate is computed from an earlier and a later sample, from whichever tiers the two
\* rows come and in whichever order rows of one time are read: except where a bucket
\* overlaps the segment after its own, in which case the times can coincide or go
\* backwards, and the rate is zero or negative.
IrateLooksForward ==
  pc = "done" /\ QueryFn(query) = "irate" =>
    \A i \in DOMAIN out :
      out[i].first >= out[i].last => \E k \in DOMAIN segments : InSeam(out[i].first, segments[k])

\* "Time range is split into segments via UNION ALL" (README.md:438): every sample of the
\* range belongs to a segment.
RangeIsCovered ==
  Routed => \A t \in Wanted : \E k \in DOMAIN segments : Within(t, segments[k])
=============================================================================
