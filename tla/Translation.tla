----------------------------- MODULE Translation -----------------------------
(***************************************************************************)
(* From an expression to its answer through an SQLPlan: translator/ and    *)
(* the order in which eval/evaluator.go applies what the plan holds.       *)
(*                                                                         *)
(* An expression is a tree; the plan of everything that is no binary       *)
(* operation is one flat record, into which each node of the tree writes.  *)
(* The module follows that: what a node overwrites, and which of the       *)
(* record's fields the two evaluators of a plan, for an instant and for a  *)
(* range, apply in which order.  Evaluation has the goroutines, cursors    *)
(* and failures of an evaluation, here it is one step.  The handlers'      *)
(* answers from the label cache are here; the tiers are off.               *)
(*                                                                         *)
(* A time is a multiple of the clock's unit, 0 the zero of T in a sample.  *)
(* A label's replacement is the whole of another label: label_replace with *)
(* a regular expression that matches everything, label_join of one label.  *)
(* Sorting has no effect on the set of an answer's points and is left out; *)
(* topk breaks no ties.                                                    *)
(***************************************************************************)
EXTENDS RangeFunctions, FiniteSets

CONSTANTS
  Store,    \* the samples table, which no query changes: a function from metrics to sets of series
  Parts,    \* of each expression, the expression itself and all it is built from
  Queries,  \* [expr, start, end, step], step 0 for an instant query
  Trig(_)   \* one of sin, cos, ..., rad

VARIABLES
  pc,       \* where the handler is
  query,    \* the query, <<>> before there is one
  plan,     \* the plan TranspileQuery returned, if it did: at most one
  path,     \* who answers: "labels", the label cache, or "eval", the evaluator
  answer    \* the result EvalPlan returned, if it did: at most one

vars == <<pc, query, plan, path, answer>>

-----------------------------------------------------------------------------
(***************************************************************************)
(* Expressions, tables and queries.                                        *)
(***************************************************************************)
Exprs == DOMAIN Parts

Zero == [kind |-> "number", v |-> 0]

\* A negation has a left side that nobody wrote.
Operands(e) ==
  CASE e.kind \in {"number", "time", "selector", "over", "subquery"} -> {}
    [] e.kind = "neg"    -> {Zero, e.arg}
    [] e.kind = "binary" -> {e.lhs, e.rhs}
    [] e.kind \in {"agg", "math", "label_replace", "label_join", "scalar", "absent",
                   "histogram_quantile"} -> {e.arg}

\* Expressions are finite trees; ranges are positive.
ASSUME ExprsAssumption ==
  /\ Parts = [e \in Exprs |-> Parts[e]]
  /\ \A e \in Exprs :
       /\ e.kind \in {"number", "time", "selector", "over", "subquery", "neg", "binary", "agg",
                     "math", "label_replace", "label_join", "scalar", "absent", "histogram_quantile"}
       /\ Operands(e) \subseteq Exprs
       /\ IsFiniteSet(Parts[e]) /\ Parts[e] \subseteq Exprs
       /\ Parts[e] = {e} \union UNION {Parts[x] : x \in Operands(e)}
       /\ \A x \in Operands(e) : e \notin Parts[x]
       /\ \A x \in Parts[e] : Parts[x] \subseteq Parts[e]
       /\ e.kind \in {"selector", "over"} =>
            /\ e.offset \in Int
            /\ e.eq = [n \in DOMAIN e.eq |-> e.eq[n]]
            /\ e.metric # "" /\ e.metric \in DOMAIN Store
       /\ e.kind = "over" => /\ e.fn \in WindowFunctions \union {"absent_over_time"}
                             /\ e.range \in Nat \ {0}

\* ToPromqlConfig: the lookback is five minutes.
ASSUME LookbackAssumption == Staleness # 0

\* The rows of a series come in the order of time, one at each time; its labels are its own.
\* There are no staleness markers, which functions of a window do not know.
ASSUME StoreAssumption == \A m \in DOMAIN Store :
  /\ IsFiniteSet(Store[m])
  /\ \A s \in Store[m] :
       /\ s = [labels |-> s.labels, samples |-> s.samples]
       /\ s.labels = [n \in DOMAIN s.labels |-> s.labels[n]]
       /\ s.samples \in Seq([t : Int, v : Int])
       /\ \A i, j \in DOMAIN s.samples : i < j => s.samples[i].t < s.samples[j].t
  /\ \A r, s \in Store[m] : r.labels = s.labels => r = s

ASSUME QueriesAssumption == \A q \in Queries :
  /\ DOMAIN q = {"expr", "start", "end", "step"}
  /\ q.expr \in Exprs
  /\ q.start \in Int /\ q.end \in Int /\ q.step \in Nat
  /\ q.step = 0 => q.start = q.end

-----------------------------------------------------------------------------
(***************************************************************************)
(* The translator.                                                         *)
(***************************************************************************)

\* SQLPlan.  lhs and rhs are named by the expressions they are the plans of; of a side that
\* is a literal the evaluator gets the value.
Blank ==
  [exprType |-> "", isScalar |-> FALSE, val |-> 0,
   metric |-> "", eq |-> NoLabels, from |-> 0, to |-> 0, offset |-> 0, range |-> 0,
   fn |-> "", inner |-> "", aggs |-> <<>>, param |-> 0, math |-> <<>>,
   dst |-> "", src |-> "", absentEq |-> NoLabels,
   op |-> "", match |-> <<>>, lhs |-> <<>>, rhs |-> <<>>,
   scalarL |-> FALSE, scalarR |-> FALSE, valL |-> 0, valR |-> 0]

\* Query gives the translator a start that is a lookback before the time of evaluation.
From(q) == IF q.step = 0 THEN q.start - Staleness ELSE q.start

Literal(v) == [Blank EXCEPT !.isScalar = TRUE, !.val = v]

TranspileVectorSelector(e, q) ==
  [Blank EXCEPT !.exprType = "vector", !.metric = e.metric, !.eq = e.eq, !.offset = e.offset,
                !.from = From(q) - Staleness - e.offset, !.to = q.end - e.offset]

\* Mutant: the range is added to the start of what is fetched.
TranspileMatrixSelector_AddsRange(e, q) ==
  [TranspileVectorSelector(e, q) EXCEPT !.exprType = "matrix", !.range = e.range, !.from = @ + e.range]

TranspileMatrixSelector(e, q) ==
  [TranspileVectorSelector(e, q) EXCEPT !.exprType = "matrix", !.range = e.range, !.from = @ - e.range]

\* transpileRangeFunc, transpilePredictLinear, transpileQuantileOverTime, transpileAbsentOverTime
TranspileRangeFunc(e, q) ==
  [TranspileMatrixSelector(e, q) EXCEPT
     !.fn = e.fn,
     !.exprType = IF e.fn = "absent_over_time" THEN "absent" ELSE "call",
     !.param = e.param]

AggStep(e) == [op |-> e.op, param |-> e.param, names |-> e.names, without |-> e.without]
MathStep(e) == [fn |-> e.fn, param |-> e.param]

\* Mutant: the step becomes the first of the chain.
TranspileAggregateExpr_Prepends(e, inner) ==
  [inner EXCEPT !.exprType = "aggregate", !.param = e.param,
                !.aggs = <<AggStep(e)>> \o @]

\* The node's step is the last of the chain; its parameter takes the place of any other.
TranspileAggregateExpr(e, inner) ==
  [inner EXCEPT !.exprType = "aggregate", !.param = e.param,
                !.aggs = Append(@, AggStep(e))]

\* transpileMathFunc, transpileClampMinMax
TranspileMathFunc(e, inner) ==
  [inner EXCEPT !.math = Append(@, MathStep(e))]

TranspileHistogramQuantile(e, inner) ==
  [inner EXCEPT !.inner = inner.fn, !.fn = "histogram_quantile",
                !.exprType = "histogram_quantile", !.param = e.param]

TranspileAbsent(e, inner) ==
  [inner EXCEPT !.fn = "absent", !.exprType = "absent",
                !.absentEq = IF e.arg.kind = "selector" THEN e.arg.eq ELSE @]

\* transpileLabelReplace, transpileLabelJoin
TranspileLabelFunc(e, inner) ==
  [inner EXCEPT !.fn = e.kind, !.exprType = "label_func", !.dst = e.dst, !.src = e.src]

\* A node with one operand writes into the operand's plan.
Wrap(e, inner) ==
  CASE e.kind = "agg"    -> TranspileAggregateExpr(e, inner)
    [] e.kind = "math"   -> TranspileMathFunc(e, inner)
    [] e.kind = "histogram_quantile" -> TranspileHistogramQuantile(e, inner)
    [] e.kind = "absent" -> TranspileAbsent(e, inner)
    [] e.kind \in {"label_replace", "label_join"} -> TranspileLabelFunc(e, inner)
    [] e.kind = "scalar" -> [inner EXCEPT !.exprType = "scalar_func"]

\* transpileUnaryExpr: 0 - e.arg, with a left side that is not marked as a literal.
Negation(e) ==
  [Blank EXCEPT !.exprType = "binary", !.op = "-", !.lhs = Zero, !.rhs = e.arg,
                !.match = [card |-> "one-to-one", on |-> FALSE, names |-> {}, include |-> {}]]

TranspileBinaryExpr(e, l, r) ==
  [Blank EXCEPT !.exprType = "binary", !.op = e.op, !.match = e.match, !.lhs = e.lhs, !.rhs = e.rhs,
                !.scalarL = l.isScalar, !.scalarR = r.isScalar, !.valL = l.val, !.valR = r.val]

\* transpile, when plans[x] are those of the operands x: the plan, or none if e is refused.
TranspileNode(e, q, plans) ==
  CASE e.kind = "number"   -> {Literal(e.v)}
    [] e.kind = "time"     -> {[Blank EXCEPT !.exprType = "time"]}
    [] e.kind = "selector" -> {TranspileVectorSelector(e, q)}
    [] e.kind = "over"     -> {TranspileRangeFunc(e, q)}
    [] e.kind = "subquery" -> {}
    [] e.kind = "neg"      -> {Negation(e) : p \in plans[e.arg]}
    [] e.kind = "binary"   -> {TranspileBinaryExpr(e, s[1], s[2]) : s \in plans[e.lhs] \X plans[e.rhs]}
    [] e.kind \in {"agg", "math", "label_replace", "label_join", "scalar", "absent",
                   "histogram_quantile"} -> {Wrap(e, p) : p \in plans[e.arg]}

Transpile(q) == LET plans[e \in Exprs] == TranspileNode(e, q, plans) IN plans

-----------------------------------------------------------------------------
(***************************************************************************)
(* What the evaluator applies to the rows of one instant.                  *)
(***************************************************************************)
StepsOf(q) == Steps(q.start, q.end, q.step)

\* The series a selector matches; a plan without a metric selects nothing.
SelectedBy(p) ==
  {s \in IF p.metric \in DOMAIN Store THEN Store[p.metric] ELSE {} :
     \A n \in DOMAIN p.eq : n \in DOMAIN s.labels /\ s.labels[n] = p.eq[n]}

\* The rows of the SQL query, by series.
Fetch(p) ==
  {s \in {[s EXCEPT !.samples = WindowSamples(@, p.from, p.to)] : s \in SelectedBy(p)} :
     s.samples # <<>>}

\* computeValue, computeValueNoOffset
ComputeValue(p, samples, at) ==
  LET t == at - p.offset
      fn == IF p.fn # "histogram_quantile" THEN p.fn
            ELSE IF p.inner \in {"increase", "irate"} THEN p.inner ELSE "rate"
  IN IF fn \in WindowFunctions
     THEN OverRange(fn, p.param, WindowSamples(samples, t - p.range, t), t - p.range, t)
     ELSE InstantValue(samples, t)

ValuesAt(p, series, t) ==
  UNION {{[labels |-> s.labels, v |-> v] : v \in ComputeValue(p, s.samples, t)} : s \in series}

WithLabel(labels, name, v) ==
  [n \in DOMAIN labels \union {name} |-> IF n = name THEN v ELSE labels[n]]

\* applyOneAggStep: AggregateVector, AggregateTopK, aggregateQuantile, AggregateCountValues
ApplyOneAggStep(rows, a) ==
  LET Group(r) == GroupLabels(r.labels, a.names, a.without)
      Of(g) == {r \in rows : Group(r) = g}
      groups == {Group(r) : r \in rows}
  IN CASE a.op = "topk" ->
            {r \in rows : Cardinality({s \in Of(Group(r)) : s.v > r.v}) < a.param}
       [] a.op = "quantile" ->
            {[labels |-> g, v |-> Quantile(a.param, Values(SetToSeq(Of(g))))] : g \in groups}
       [] a.op = "count_values" ->
            UNION {{[labels |-> WithLabel(g, "value", v), v |-> Cardinality({r \in Of(g) : r.v = v})]
                      : v \in {r.v : r \in Of(g)}} : g \in groups}
       [] OTHER -> AggregateVector(rows, a.op, a.names, a.without)

ApplyAggChain(rows, aggs) ==
  LET after[i \in 0..Len(aggs)] ==
        IF i = 0 THEN rows ELSE ApplyOneAggStep(after[i - 1], aggs[i])
  IN after[Len(aggs)]

\* applyMathChain for an instant; applyMathOp, for a range, knows no trigonometry.
ApplyMathOp(m, v, ranged) ==
  CASE m.fn = "abs"       -> IF v < 0 THEN -v ELSE v
    [] m.fn = "sgn"       -> IF v > 0 THEN 1 ELSE IF v < 0 THEN -1 ELSE 0
    [] m.fn = "clamp_min" -> Max({m.param, v})
    [] m.fn = "clamp_max" -> Min({m.param, v})
    [] m.fn = "trig"      -> IF ranged THEN v ELSE Trig(v)

ApplyMath(rows, m, ranged) == {[r EXCEPT !.v = ApplyMathOp(m, @, ranged)] : r \in rows}

ApplyMathChain(rows, chain, ranged) ==
  LET after[i \in 0..Len(chain)] ==
        IF i = 0 THEN rows ELSE ApplyMath(after[i - 1], chain[i], ranged)
  IN after[Len(chain)]

\* applyHistogramQuantile: a row without a bound gets the bound 0; equal bounds add up.
ApplyHistogramQuantile(rows, quarters) ==
  LET Group(r) == Drop(r.labels, {"le"})
      Le(r) == IF "le" \in DOMAIN r.labels THEN r.labels["le"] ELSE 0
      Buckets(g, b) == {r \in rows : Group(r) = g /\ Le(r) = b}
      Counts(g) == [b \in {Le(r) : r \in {r \in rows : Group(r) = g}} |->
                      MapThenSumSet(LAMBDA r : r.v, Buckets(g, b))]
  IN {[labels |-> g, v |-> HistogramQuantile(quarters, Counts(g))] : g \in {Group(r) : r \in rows}}

\* EvalLabelReplace, EvalLabelJoin: without the source label, the destination goes.
ApplyLabelFunc(rows, p) ==
  {[r EXCEPT !.labels = IF p.src \in DOMAIN @ THEN WithLabel(@, p.dst, @[p.src])
                        ELSE Drop(@, {p.dst})] : r \in rows}

ToScalar(rows) ==
  {[labels |-> NoLabels, v |-> IF Cardinality(rows) = 1 THEN (CHOOSE r \in rows : TRUE).v ELSE NaN]}

-----------------------------------------------------------------------------
(***************************************************************************)
(* The evaluation of a plan.  A result is [type, points]: a vector has one *)
(* point [labels, t, v] for each row, a matrix one for each sample.        *)
(***************************************************************************)
Stamped(rows, t) == {[labels |-> r.labels, t |-> t, v |-> r.v] : r \in rows}
RowsAt(points, t) == {[labels |-> x.labels, v |-> x.v] : x \in {x \in points : x.t = t}}

IsAbsent(p) == p.fn = "absent" \/ p.exprType = "absent"
IsHistogram(p) == p.fn = "histogram_quantile" \/ p.exprType = "histogram_quantile"

\* The rows of an aggregation have no time when no row of a quantile or a count has.
LosesTime(p) ==
  /\ \E i \in DOMAIN p.aggs : p.aggs[i].op \in {"quantile", "count_values"}
  /\ ~IsHistogram(p) /\ p.exprType # "scalar_func"

QuantilesOf(rows, p) == IF IsHistogram(p) THEN ApplyHistogramQuantile(rows, p.param) ELSE rows

ScalarOf(rows, p) == IF p.exprType = "scalar_func" THEN ToScalar(rows) ELSE rows

RelabelledBy(fns, rows, p) == IF p.fn \in fns THEN ApplyLabelFunc(rows, p) ELSE rows

AbsentRows(p, series, t) ==
  {r \in {[labels |-> p.absentEq, v |-> 1]} : \A s \in series : InstantValue(s.samples, t) = {}}

\* evalInstantSD: every field of the plan has its place, whatever the order of the nodes.
InstantRows(rows, p) ==
  LET mathed == ApplyMathChain(ApplyAggChain(rows, p.aggs), p.math, FALSE)
  IN RelabelledBy({"label_replace", "label_join"}, ScalarOf(QuantilesOf(mathed, p), p), p)

\* Mutant: labels are replaced before rows are grouped by them.
StepRows_LabelsFirst(rows, p) ==
  IF IsHistogram(p) \/ p.exprType = "scalar_func" THEN InstantRows(rows, p)
  ELSE ApplyMathChain(ApplyAggChain(RelabelledBy({"label_replace"}, rows, p), p.aggs), p.math, TRUE)

\* A step of buildMatrixSD, series first, or of buildMatrixSD_stepFirst.
StepRows(rows, p) ==
  IF IsHistogram(p) \/ p.exprType = "scalar_func" THEN InstantRows(rows, p)
  ELSE RelabelledBy({"label_replace"},
                    ApplyMathChain(ApplyAggChain(rows, p.aggs), p.math, TRUE), p)

\* The points at t, for an instant query or as a step of a range.
PointsAt(p, series, t, ranged) ==
  LET rows == ValuesAt(p, series, t)
  IN IF IsAbsent(p) THEN Stamped(AbsentRows(p, series, t), t)
     ELSE IF ranged THEN Stamped(StepRows(rows, p), t)
     ELSE Stamped(InstantRows(rows, p), IF LosesTime(p) THEN 0 ELSE t)

\* EvalPlan of a plan that is no binary operation.
EvalLeaf(p, q) ==
  LET series == Fetch(p)
      steps == StepsOf(q)
  IN CASE p.isScalar -> [type |-> "vector", points |-> {[labels |-> NoLabels, t |-> q.start, v |-> p.val]}]
       [] p.exprType = "time" /\ ~p.isScalar ->
            IF q.step = 0
            THEN [type |-> "vector", points |-> {[labels |-> NoLabels, t |-> q.end, v |-> q.end]}]
            ELSE [type |-> "matrix", points |-> {[labels |-> NoLabels, t |-> t, v |-> t] : t \in ToSet(steps)}]
       [] OTHER ->
            LET ranged == Len(steps) # 1
            IN [type |-> IF ranged THEN "matrix" ELSE "vector",
                points |-> UNION {PointsAt(p, series, t, ranged) : t \in ToSet(steps)}]

\* applyMathChainResult
WithMath(res, p) ==
  [res EXCEPT !.points = ApplyMathChain(@, p.math, res.type = "matrix")]

\* applyScalarBinary
ApplyScalarBinary(res, scalar, op, onLeft) ==
  [res EXCEPT !.points =
     UNION {{[x EXCEPT !.v = y] : y \in IF onLeft THEN ApplyBinaryOp(op, scalar, x.v)
                                        ELSE ApplyBinaryOp(op, x.v, scalar)} : x \in @}]

\* isScalarResult: one row, or one series, without labels.
IsScalarResult(res) == res.points # {} /\ \A x \in res.points : x.labels = NoLabels

\* extractScalarValue: the value at its first sample.
ScalarValue(res) ==
  LET first == Min({x.t : x \in res.points}) IN (CHOOSE x \in res.points : x.t = first).v

\* The results of both sides.  A failure to match at one step fails the query.
Combine(p, l, r, q) ==
  LET Left(t) == RowsAt(l.points, t)
      Right(t) == RowsAt(r.points, t)
      Refused(t) == p.op \notin SetOps /\ MultipleMatches(p.match, Left(t), Right(t))
      Both(t) == IF p.op \in SetOps THEN VectorSetOp(p.op, p.match, Left(t), Right(t))
                 ELSE VectorBinaryOp(p.op, FALSE, p.match, Left(t), Right(t))
      steps == ToSet(StepsOf(q))
  IN IF IsScalarResult(r) THEN {ApplyScalarBinary(l, ScalarValue(r), p.op, FALSE)}
     ELSE IF IsScalarResult(l) THEN {ApplyScalarBinary(r, ScalarValue(l), p.op, TRUE)}
     ELSE IF \E t \in steps : Refused(t) THEN {}
     ELSE {WithMath([type |-> IF Cardinality(steps) = 1 THEN "vector" ELSE "matrix",
                     points |-> UNION {Stamped(Both(t), t) : t \in steps}], p)}

\* EvalPlan, evalBinaryPlan, when results[x] are those of the sides: the result, or none when
\* it fails.  Two literals are folded like a vector and a literal.
EvalPlan(p, q, results) ==
  IF p.isScalar \/ p.exprType # "binary" THEN {EvalLeaf(p, q)}
  ELSE IF p.scalarR
  THEN {WithMath(ApplyScalarBinary(l, p.valR, p.op, FALSE), p) : l \in results[p.lhs]}
  ELSE IF p.scalarL
  THEN {WithMath(ApplyScalarBinary(r, p.valL, p.op, TRUE), p) : r \in results[p.rhs]}
  ELSE UNION {Combine(p, s[1], s[2], q) : s \in results[p.lhs] \X results[p.rhs]}

\* The results of the plans of expressions.
Results(q) ==
  LET results[e \in Exprs] == UNION {EvalPlan(p, q, results) : p \in Transpile(q)[e]} IN results

-----------------------------------------------------------------------------
(***************************************************************************)
(* The label cache.                                                        *)
(***************************************************************************)

\* The plan is taken for a count of a selector's series.
CacheOnly(p) ==
  /\ p.fn = "" /\ p.exprType # "binary" /\ p.metric # ""
  /\ Len(p.aggs) = 1 /\ p.aggs[1].op \in {"count", "group"}

\* tryCacheOnlyAgg: every series of the index counts, at every step.  A range that ends
\* before it starts has none here, where generateSteps makes one at its end.
CacheOnlyAgg(p, q) ==
  LET indexed == {[labels |-> s.labels, v |-> 1] : s \in SelectedBy(p)}
      steps == IF q.step > 0 /\ q.end < q.start THEN {} ELSE ToSet(StepsOf(q))
  IN [type |-> IF Cardinality(steps) = 1 THEN "vector" ELSE "matrix",
      points |-> UNION {Stamped(ApplyOneAggStep(indexed, p.aggs[1]), t) : t \in steps}]

-----------------------------------------------------------------------------
(***************************************************************************)
(* The handler.                                                            *)
(***************************************************************************)
Init ==
  /\ pc = "idle"
  /\ query = <<>>
  /\ plan = {}
  /\ path = ""
  /\ answer = {}

\* Query, QueryRange: a query comes and is translated.
Ask(q) ==
  /\ pc = "idle"
  /\ query' = q
  /\ plan' = Transpile(q)[q.expr]
  /\ pc' = IF plan' = {} THEN "refused" ELSE "translated"
  /\ UNCHANGED <<path, answer>>

\* computeInstant, computeRange: the index answers; unless it has not been loaded yet, or
\* has too many of the metric's series.
FromLabels ==
  /\ pc = "translated"
  /\ \E p \in plan : CacheOnly(p) /\ answer' = {CacheOnlyAgg(p, query)}
  /\ path' = "labels"
  /\ pc' = "answered"
  /\ UNCHANGED <<query, plan>>

Evaluate ==
  /\ pc = "translated"
  /\ answer' = UNION {EvalPlan(p, query, Results(query)) : p \in plan}
  /\ path' = "eval"
  /\ pc' = IF answer' = {} THEN "failed" ELSE "answered"
  /\ UNCHANGED <<query, plan>>

Reply ==
  /\ pc \in {"refused", "failed", "answered"}
  /\ pc' = "idle"
  /\ query' = <<>>
  /\ plan' = {}
  /\ path' = ""
  /\ answer' = {}

Next ==
  \/ \E q \in Queries : Ask(q)
  \/ FromLabels
  \/ Evaluate
  \/ Reply

Spec == Init /\ [][Next]_vars

-----------------------------------------------------------------------------
(***************************************************************************)
(* The meaning of an expression at an instant, by recursion over its tree  *)
(* and straight from the table: what PromQL says.                          *)
(***************************************************************************)
ScalarKinds == {"number", "time", "scalar"}

\* The newest sample of the last Staleness, and the samples of a window.
LookedUp(s, t) ==
  LET seen == {x \in ToSet(s.samples) : t - x.t \in 0..Staleness}
  IN {x.v : x \in {x \in seen : \A y \in seen : y.t <= x.t}}

InWindow(e, s, t) ==
  LET seen == {x \in ToSet(s.samples) : t - e.offset - x.t \in 0..(e.range - 1)}
      nth(i) == CHOOSE x \in seen : Cardinality({y \in seen : y.t < x.t}) = i - 1
  IN [i \in 1..Cardinality(seen) |-> nth(i)]

Selected(e) == {s \in Store[e.metric] : Keep(s.labels, DOMAIN e.eq) = e.eq}

RowsOf(S, Of(_)) == UNION {{[labels |-> s.labels, v |-> v] : v \in Of(s)} : s \in S}

Unmarked(rows) == {[labels |-> r.labels, v |-> r.v] : r \in rows}

ScalarIn(rows) == (CHOOSE r \in rows : TRUE).v

\* A vector with a scalar.
OneOver(op, rows, scalar, onLeft) ==
  RowsOf(rows, LAMBDA r : IF onLeft THEN ApplyBinaryOp(op, scalar, r.v)
                                    ELSE ApplyBinaryOp(op, r.v, scalar))

\* What e means at t when its operands x mean of[x].
MeaningNode(e, t, of) ==
  CASE e.kind = "number"   -> {[labels |-> NoLabels, v |-> e.v]}
    [] e.kind = "time"     -> {[labels |-> NoLabels, v |-> t]}
    [] e.kind = "selector" -> RowsOf(Selected(e), LAMBDA s : LookedUp(s, t - e.offset))
    [] e.kind = "over" /\ e.fn # "absent_over_time" ->
         RowsOf(Selected(e), LAMBDA s : OverRange(e.fn, e.param, InWindow(e, s, t),
                                                  t - e.offset - e.range, t - e.offset))
    [] e.kind = "over" /\ e.fn = "absent_over_time" ->
         {r \in {[labels |-> e.eq, v |-> 1]} : \A s \in Selected(e) : InWindow(e, s, t) = <<>>}
    [] e.kind = "agg"    -> ApplyOneAggStep(of[e.arg], AggStep(e))
    [] e.kind = "math"   -> ApplyMath(of[e.arg], MathStep(e), FALSE)
    [] e.kind = "neg"    -> OneOver("-", of[e.arg], 0, TRUE)
    [] e.kind = "scalar" -> ToScalar(of[e.arg])
    [] e.kind = "absent" ->
         {r \in {[labels |-> IF e.arg.kind = "selector" THEN e.arg.eq ELSE NoLabels, v |-> 1]} :
            of[e.arg] = {}}
    [] e.kind = "histogram_quantile" -> ApplyHistogramQuantile(of[e.arg], e.param)
    [] e.kind \in {"label_replace", "label_join"} -> ApplyLabelFunc(of[e.arg], e)
    [] e.kind = "binary" ->
         IF e.rhs.kind \in ScalarKinds THEN OneOver(e.op, of[e.lhs], ScalarIn(of[e.rhs]), FALSE)
         ELSE IF e.lhs.kind \in ScalarKinds THEN OneOver(e.op, of[e.rhs], ScalarIn(of[e.lhs]), TRUE)
         ELSE IF e.op \in SetOps THEN VectorSetOp(e.op, e.match, of[e.lhs], of[e.rhs])
         ELSE Unmarked(VectorBinaryOp(e.op, FALSE, e.match, of[e.lhs], of[e.rhs]))
    [] e.kind = "subquery" -> {}

Meaning(t) == LET of[e \in Exprs] == MeaningNode(e, t, of) IN of

(***************************************************************************)
(* The nestings whose meaning a plan can hold.                             *)
(***************************************************************************)
Ranged(q) == Len(StepsOf(q)) > 1

\* A range does not end before it starts, and no sample is as old as the very oldest
\* instant its first step looks back at: everything its steps look at is fetched.
FetchesAll(q) ==
  /\ q.start <= q.end
  /\ q.step # 0 => \A e \in Parts[q.expr] : e.kind = "selector" =>
       \A s \in Selected(e) : \A x \in ToSet(s.samples) : x.t # q.start - Staleness - e.offset

OneLiteral(e) == (e.lhs.kind = "number") # (e.rhs.kind = "number")

\* No row of x is without labels: its result is not taken for a scalar.
HasLabels(q, x) == \A res \in Results(q)[x] : \A y \in res.points : y.labels # NoLabels

\* If it is, then it is one row.
HasOneOrLabels(q, x) ==
  \A res \in Results(q)[x] : IsScalarResult(res) => \A y, z \in res.points : y = z

\* Operations of which both sides are evaluated and matched, row by row.
Matches(q, e) == HasLabels(q, e.lhs) /\ HasLabels(q, e.rhs)

Parameterised == {"quantile_over_time", "predict_linear"}

\* What e is built from does not get in its way in the plan.
InOrderAt(q, e) ==
  LET below == Parts[e] \ {e}
  IN /\ e.kind # "subquery"
     /\ e.kind = "over" => e.fn # "absent_over_time"
     /\ e.kind = "agg" =>
          /\ e.op \in {"quantile", "count_values"} => Ranged(q)
          /\ e.arg.kind \in {"selector", "over", "agg"}
          /\ \A x \in below : x.kind = "over" => x.fn \notin Parameterised
     /\ e.kind = "math" =>
          /\ e.fn = "trig" => ~Ranged(q) /\ \A x \in below : x.kind # "time"
          /\ e.arg.kind \in {"selector", "over", "agg", "math", "label_replace", "label_join", "binary"}
          /\ e.arg.kind = "binary" => OneLiteral(e.arg) \/ Matches(q, e.arg)
     /\ e.kind = "neg" => IF Ranged(q) THEN HasLabels(q, e.arg) ELSE HasOneOrLabels(q, e.arg)
     /\ e.kind = "scalar" => \A x \in below : x.kind \in {"selector", "over", "agg", "math"}
     /\ e.kind = "absent" => e.arg.kind = "selector" /\ e.arg.offset = 0
     /\ e.kind = "histogram_quantile" =>
          \E x \in below :
            /\ x.kind = "over" /\ x.fn \in {"rate", "increase", "irate"}
            /\ \/ e.arg = x
               \/ e.arg.kind = "agg" /\ e.arg.arg = x /\ ("le" \in e.arg.names) # e.arg.without
     /\ e.kind \in {"label_replace", "label_join"} =>
          /\ e.kind = "label_join" => ~Ranged(q)
          /\ \A x \in below : x.kind \in {"selector", "agg", "math"}
     /\ e.kind = "binary" =>
          \/ OneLiteral(e)
          \/ Matches(q, e)
          \/ /\ ~Ranged(q)
             /\ \/ e.rhs.kind \in ScalarKinds
                \/ e.lhs.kind \in ScalarKinds /\ HasOneOrLabels(q, e.rhs)

InOrder(q) ==
  /\ q.expr.kind = "number" => ~Ranged(q)
  /\ \A e \in Parts[q.expr] : InOrderAt(q, e)

-----------------------------------------------------------------------------
(***************************************************************************)
(* What is checked.                                                        *)
(***************************************************************************)

\* The variables have their types, and what a plan fetches is not empty before it is fetched.
TypeOK ==
  /\ pc \in {"idle", "translated", "refused", "failed", "answered"}
  /\ query \in Queries \union {<<>>}
  /\ path \in {"", "labels", "eval"}
  /\ \A p \in plan : DOMAIN p = DOMAIN Blank /\ (query.start <= query.end => p.from <= p.to)
  /\ Cardinality(plan) <= 1 /\ Cardinality(answer) <= 1
  /\ \A res \in answer : res.type \in {"vector", "matrix"}
                        /\ \A x \in res.points : DOMAIN x = {"labels", "t", "v"}

MeantAt(q, t) == Stamped(Meaning(t)[q.expr], t)

\* Each series of the selector that is counted has a sample at each of the steps.
AllSeriesLive(e, q) ==
  /\ e.kind = "agg" /\ e.arg.kind = "selector"
  /\ \A s \in Selected(e.arg), t \in ToSet(StepsOf(q)) : LookedUp(s, t - e.arg.offset) # {}

\* An answer is what the expression means at each of its steps, although the plan forgets
\* in which order the functions were nested: whenever they are nested as the plan applies
\* them.  Aggregations come before mathematical functions and these before a histogram's
\* quantile; a function's parameter, range and offset, and the fetched window, reach the
\* samples they were written for.  A count from the label cache, which knows of no samples,
\* means the same only if nothing surrounds it and every series has a sample at every step.
PlanKeepsMeaning ==
  pc = "answered" /\ FetchesAll(query) /\ InOrder(query)
    /\ (path = "labels" => AllSeriesLive(query.expr, query)) =>
    \A res \in answer : res.points = UNION {MeantAt(query, t) : t \in ToSet(StepsOf(query))}

\* Where an expression asks whether there are samples.
AsksAbsent(e) == e.kind = "absent" \/ (e.kind = "over" /\ e.fn = "absent_over_time")

\* Nothing in the query is evaluated differently for a range: trigonometry and label_join, a
\* scalar or a row without labels for an operand, an aggregation that loses the time, the
\* absence of what is shifted.
Stepwise(q) ==
  LET parts == Parts[q.expr]
  IN /\ q.expr.kind # "number"
     /\ \A e \in parts :
          /\ e.kind # "label_join"
          /\ e.kind = "math" => e.fn # "trig"
          /\ e.kind = "agg" => e.op \notin {"quantile", "count_values"}
          /\ e.kind = "neg" => HasLabels(q, e.arg)
          /\ e.kind = "binary" => OneLiteral(e) \/ Matches(q, e)
          /\ e.kind \notin {"neg", "binary"} => \A x \in Operands(e) : x.kind # "number"
     /\ (\E e \in parts : AsksAbsent(e)) =>
          \A e \in parts : e.kind \in {"selector", "over"} => e.offset = 0

InstantOf(q, t) == [q EXCEPT !.start = t, !.end = t, !.step = 0]

\* The two evaluators of a plan, series by series for a range and row by row for an
\* instant, agree at every step, also on nestings whose meaning the plan loses.
RangeFollowsInstant ==
  pc = "answered" /\ path = "eval" /\ Ranged(query) /\ FetchesAll(query) /\ Stepwise(query) =>
    \A res \in answer, t \in ToSet(StepsOf(query)) :
      \A instant \in Results(InstantOf(query, t))[query.expr] :
        RowsAt(res.points, t) = RowsAt(instant.points, t)
=============================================================================
