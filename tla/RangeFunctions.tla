---------------------------- MODULE RangeFunctions ----------------------------
(***************************************************************************)
(* The functions of a window of samples and of a histogram's buckets:      *)
(* eval/over_time.go, eval/extrapolate.go and eval/histogram.go.           *)
(*                                                                         *)
(* Values are integers: where the code divides floats, the quotient is     *)
(* rounded down.  A quantile is given in quarters.  Samples of a series    *)
(* have distinct times, and a histogram's bounds are integers.             *)
(***************************************************************************)
EXTENDS PromQL

CONSTANTS
  NaN,      \* not a number
  PlusInf   \* the bound of a histogram's last bucket: le="+Inf"

ASSUME NumbersAssumption == NaN \notin Int /\ PlusInf \in Nat

-----------------------------------------------------------------------------
Values(w) == [i \in DOMAIN w |-> w[i].v]

SumOf(seq) == FoldFunction(+, 0, seq)

\* QuantileOverTime, quantileValue: R-7 interpolation between neighbours.
Quantile(quarters, values) ==
  LET sorted == SortSeq(values, <)
      rank == quarters * (Len(sorted) - 1)
      low == rank \div 4 + 1
      high == Min({low + 1, Len(sorted)})
  IN (sorted[low] * (4 - (rank % 4)) + sorted[high] * (rank % 4)) \div 4

\* What a reset of a counter takes away from its rise.
Corrections(w) ==
  SumOf([i \in 1..(Len(w) - 1) |-> IF w[i + 1].v < w[i].v THEN w[i].v ELSE 0])

(***************************************************************************)
(* ExtrapolatedRate.  The rise is extrapolated to the window's ends, unless *)
(* they are further from the samples than these are from each other, and   *)
(* not beyond the time when the counter would have been zero.              *)
(***************************************************************************)
Rise(w, isCounter) ==
  w[Len(w)].v - Head(w).v + (IF isCounter THEN Corrections(w) ELSE 0)

Extrapolate(rise, w, from, to, isCounter, isRate) ==
  LET gaps == Len(w) - 1
      first == Head(w)
      last == w[Len(w)]
      sampled == last.t - first.t
      capped == isCounter /\ rise > 0 /\ first.v >= 0
                  /\ sampled * first.v < (first.t - from) * rise
      startNum == IF capped THEN sampled * first.v ELSE first.t - from
      startDen == IF capped THEN rise ELSE 1
      \* A distance of num/den, or half a gap, over 2 * gaps * den.
      Extension(num, den) ==
        IF 10 * gaps * num < 11 * sampled * den THEN 2 * gaps * num ELSE sampled * den
      interval == 2 * gaps * sampled * startDen + Extension(startNum, startDen)
                    + startDen * Extension(to - last.t, 1)
      per == 2 * gaps * sampled * startDen * (IF isRate THEN to - from ELSE 1)
      result == (rise * interval) \div per
  IN IF isCounter /\ result < 0 THEN 0 ELSE result

ExtrapolatedRate(w, from, to, isCounter, isRate) ==
  Extrapolate(Rise(w, isCounter), w, from, to, isCounter, isRate)

\* IRate: between the last two samples; after a reset the counter rose from zero.
IRate(prev, last) ==
  (IF last.v < prev.v THEN last.v ELSE last.v - prev.v) \div (last.t - prev.t)

\* linearRegression: the line of least squares through the samples, with `at` for zero.
LinearRegression(w, at) ==
  LET n == Len(w)
      X(i) == w[i].t - at
      sumX == SumOf([i \in 1..n |-> X(i)])
      sumY == SumOf(Values(w))
  IN [n |-> n, sumX |-> sumX, sumY |-> sumY,
      cov |-> n * SumOf([i \in 1..n |-> X(i) * w[i].v]) - sumX * sumY,
      var |-> n * SumOf([i \in 1..n |-> X(i) * X(i)]) - sumX * sumX]

Slope(line) == line.cov \div line.var

PointOn(line, x) ==
  (line.sumY * line.var + line.cov * (line.n * x - line.sumX)) \div (line.n * line.var)

Deriv(w) == Slope(LinearRegression(w, w[1].t))

PredictLinear(w, at, later) == PointOn(LinearRegression(w, at), later)

\* StdvarOverTime
Stdvar(values) ==
  LET n == Len(values)
      sum == SumOf(values)
  IN (n * SumOf([i \in 1..n |-> values[i] * values[i]]) - sum * sum) \div (n * n)

\* The functions that need two samples; the others need one.
NeedTwo == {"rate", "increase", "delta", "irate", "idelta", "deriv", "predict_linear"}

WindowFunctions == NeedTwo \union
  {"resets", "changes", "sum_over_time", "avg_over_time", "count_over_time", "min_over_time",
   "max_over_time", "last_over_time", "present_over_time", "quantile_over_time",
   "stdvar_over_time"}

\* computeValue's switch: the value of fn over the samples of (from, to], if it has one.
OverRange(fn, param, w, from, to) ==
  LET n == Len(w)
  IN IF n = 0 \/ (fn \in NeedTwo /\ n < 2) THEN {}
     ELSE {CASE fn \in {"rate", "increase", "delta"} ->
                  ExtrapolatedRate(w, from, to, fn # "delta", fn = "rate")
             [] fn = "irate"    -> IRate(w[n - 1], w[n])
             [] fn = "idelta"   -> w[n].v - w[n - 1].v
             [] fn = "deriv"    -> Deriv(w)
             [] fn = "predict_linear" -> PredictLinear(w, to, param)
             [] fn = "resets"   -> Cardinality({i \in 2..n : w[i].v < w[i - 1].v})
             [] fn = "changes"  -> Cardinality({i \in 2..n : w[i].v # w[i - 1].v})
             [] fn = "sum_over_time"      -> SumOf(Values(w))
             [] fn = "avg_over_time"      -> SumOf(Values(w)) \div n
             [] fn = "count_over_time"    -> n
             [] fn = "min_over_time"      -> Min({w[i].v : i \in 1..n})
             [] fn = "max_over_time"      -> Max({w[i].v : i \in 1..n})
             [] fn = "last_over_time"     -> w[n].v
             [] fn = "present_over_time"  -> 1
             [] fn = "quantile_over_time" -> Quantile(param, Values(w))
             [] fn = "stdvar_over_time"   -> Stdvar(Values(w))}

-----------------------------------------------------------------------------
\* ensureMonotonic: a bucket has counted no less than those below it.
Cumulative(bounds, counts) ==
  [i \in DOMAIN bounds |-> Max({counts[bounds[j]] : j \in 1..i})]

\* The quantile lies in the first bucket that reaches its rank; there, by its share.
InBuckets(quarters, bounds, cum) ==
  LET m == Len(bounds)
      rank == quarters * cum[m]
      b == Min({m} \union {i \in 1..(m - 1) : 4 * cum[i] >= rank})
      start == IF b = 1 THEN 0 ELSE bounds[b - 1]
      below == IF b = 1 THEN 0 ELSE cum[b - 1]
  IN CASE m < 2 \/ bounds[m] # PlusInf -> NaN
       [] m >= 2 /\ bounds[m] = PlusInf /\ cum[m] = 0 -> NaN
       [] OTHER ->
            IF b = m THEN bounds[m - 1]
            ELSE IF b = 1 /\ bounds[1] <= 0 THEN bounds[1]
            ELSE IF cum[b] = below THEN NaN
            ELSE start + ((bounds[b] - start) * (rank - 4 * below)) \div (4 * (cum[b] - below))

\* HistogramQuantile.  counts: what each bound's bucket has counted, bounds below included.
HistogramQuantile(quarters, counts) ==
  LET bounds == SetToSortSeq(DOMAIN counts, <)
  IN InBuckets(quarters, bounds, Cumulative(bounds, counts))
=============================================================================
