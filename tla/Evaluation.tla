------------------------------ MODULE Evaluation ------------------------------
(***************************************************************************)
(* The evaluation of a query plan: eval/evaluator.go, with the windows of  *)
(* data that the translator asks for.                                      *)
(*                                                                         *)
(* A plan is a selection of series, with a function over a range, an       *)
(* offset and an aggregation, or a binary operation of two, which are      *)
(* evaluated in two goroutines.  An instant query has step 0.  The module  *)
(* follows one query at a time; queries share nothing.                     *)
(*                                                                         *)
(* An operand is [kind |-> "number", v] or [kind |-> "series", metric, fn, *)
(* range, offset, agg, names, without] with fn "last" or "count" and agg   *)
(* "none" or an operator of PromQL's Aggregated.                           *)
(***************************************************************************)
EXTENDS PromQL, FiniteSets

CONSTANTS
  Stores,     \* what the samples table may hold: a function from metrics to sets of series
  Queries,    \* [op, bool, match, left, right, start, end, step], op "none" for left alone
  MaxSeries   \* cfg.Prometheus.MaxSeries, 0 for no limit

VARIABLES
  store,      \* the samples table, which does not change
  pc,         \* where EvalPlan is
  query,      \* the query, <<>> before there is one
  side,       \* the evaluation of each operand
  at,         \* the next step of the combination of both
  acc,        \* what has been combined: from labels to samples
  answer,     \* the result: a set of series
  cancelled   \* the client has gone: the request's context is cancelled

vars == <<store, pc, query, side, at, acc, answer, cancelled>>

-----------------------------------------------------------------------------
Sides == {"left", "right"}

IsBinary(q) == q.op # "none"
Used(q) == {x \in Sides : IF x = "left" THEN q.left.kind = "series"
                          ELSE IsBinary(q) /\ q.right.kind = "series"}
OperandOf(q, x) == IF x = "left" THEN q.left ELSE q.right
Operand(x) == OperandOf(query, x)

StepsOf(q) == Steps(q.start, q.end, q.step)

Sample == [t : Int, v : Int \union {Stale}]

\* The rows of a series come in the order of time, one at each time; its labels are its own.
ASSUME StoresAssumption == \A st \in Stores : \A m \in DOMAIN st :
  /\ IsFiniteSet(st[m])
  /\ \A s \in st[m] :
       /\ DOMAIN s = {"labels", "samples"}
       /\ s.samples \in Seq(Sample) /\ s.samples # <<>>
       /\ \A i, j \in DOMAIN s.samples : i < j => s.samples[i].t < s.samples[j].t
  /\ \A r, s \in st[m] : r.labels = s.labels => r = s

\* At least one operand is no literal.
ASSUME QueriesAssumption == \A q \in Queries :
  /\ DOMAIN q = {"op", "bool", "match", "left", "right", "start", "end", "step"}
  /\ q.op \in {"none", "-", ">"} \union SetOps
  /\ q.start \in Int /\ q.end \in Int /\ q.step \in Nat
  /\ q.left.kind \in {"number", "series"} /\ q.right.kind \in {"number", "series"}
  /\ Used(q) # {}
  /\ \A x \in Used(q) : LET e == OperandOf(q, x)
                        IN /\ e.fn \in {"last", "count"} /\ e.range \in Nat /\ e.offset \in Int
                           /\ \A st \in Stores : e.metric \in DOMAIN st

\* Query asks the translator for data from a lookback before the time of evaluation.
From(q) == IF q.step = 0 THEN q.start - Staleness ELSE q.start

\* Mutant: only the end of the window is shifted by the offset.
DataStart_NoOffset(q, e) == From(q) - e.range - Staleness

\* transpileVectorSelector (range 0), transpileMatrixSelector
DataStart(q, e) == From(q) - e.range - Staleness - e.offset

DataEnd(q, e) == q.end - e.offset

\* The rows of the SQL query, by series; a series without rows is not there.
Rows(q, e) ==
  {s \in {[labels |-> s.labels, samples |-> WindowSamples(s.samples, DataStart(q, e), DataEnd(q, e))]
            : s \in store[e.metric]} : s.samples # <<>>}

\* computeValue
ComputeValue(samples, e, t) ==
  IF e.fn = "count"
  THEN CountOverTime(WindowSamples(samples, t - e.offset - e.range, t - e.offset))
  ELSE InstantValue(samples, t - e.offset)

\* The values that are there, in order.
Present(values) ==
  LET there == {i \in DOMAIN values : values[i] # {}}
      nth(k) == CHOOSE i \in there : Cardinality({j \in there : j < i}) = k - 1
  IN [k \in 1..Cardinality(there) |-> CHOOSE x \in values[nth(k)] : TRUE]

\* buildMatrixSD: a series at all steps.
AtSteps(s, e, steps) ==
  [labels |-> s.labels,
   samples |-> Present([i \in DOMAIN steps |->
                 {[t |-> steps[i], v |-> x] : x \in ComputeValue(s.samples, e, steps[i])}])]

\* vecsByStep: the rows of a result at t.
VecAt(series, t) ==
  UNION {{[labels |-> s.labels, v |-> p.v] : p \in {p \in ToSet(s.samples) : p.t = t}} : s \in series}

\* The samples of rows, added to what has been accumulated for their labels.
Added(sofar, rows, t) ==
  [l \in DOMAIN sofar \union {r.labels : r \in rows} |->
     (IF l \in DOMAIN sofar THEN sofar[l] ELSE <<>>)
       \o LET new == SetToSeq({r \in rows : r.labels = l})
          IN [i \in DOMAIN new |-> [t |-> t, v |-> new[i].v]]]

AsSeries(sofar) == {[labels |-> l, samples |-> sofar[l]] : l \in DOMAIN sofar}

Empty == [l \in {} |-> <<>>]

-----------------------------------------------------------------------------
NoWork == [stage |-> "unused", series |-> {}, cursor |-> Empty, times |-> {},
           groups |-> Empty, failed |-> FALSE]

Init ==
  /\ store \in Stores
  /\ pc = "idle"
  /\ query = <<>>
  /\ side = [x \in Sides |-> NoWork]
  /\ at = 1
  /\ acc = Empty
  /\ answer = {}
  /\ cancelled = FALSE

\* EvalPlan, evalBinaryPlan: the operands that are no literals are evaluated.
Ask(q) ==
  /\ pc = "idle"
  /\ query' = q
  /\ pc' = "waiting"
  /\ side' = [x \in Sides |-> IF x \in Used(q) THEN [NoWork EXCEPT !.stage = "fetching"] ELSE NoWork]
  /\ UNCHANGED <<store, at, acc, answer, cancelled>>

\* The client closes the connection, or the query timeout of the middleware expires.
Cancel ==
  /\ pc # "idle" /\ ~cancelled
  /\ cancelled' = TRUE
  /\ UNCHANGED <<store, pc, query, side, at, acc, answer>>

-----------------------------------------------------------------------------
(***************************************************************************)
(* EvalPlan for an operand.                                                *)
(***************************************************************************)
Put(x, work) ==
  /\ side' = [side EXCEPT ![x] = work]
  /\ UNCHANGED <<store, pc, query, at, acc, answer, cancelled>>

TooManySeries(series) == MaxSeries > 0 /\ Cardinality(series) > MaxSeries

FetchReturns(x) ==
  /\ side[x].stage = "fetching"
  /\ LET rows == Rows(query, Operand(x))
     IN Put(x, IF TooManySeries(rows)
               THEN [side[x] EXCEPT !.stage = "ready", !.failed = TRUE]
               ELSE [side[x] EXCEPT !.stage = "fetched", !.series = rows])

\* The database fails, or the context was cancelled.
FetchFails(x) ==
  /\ side[x].stage = "fetching"
  /\ Put(x, [side[x] EXCEPT !.stage = "ready", !.failed = TRUE])

\* evalInstantSD: one step.
EvalInstant(x) ==
  /\ side[x].stage = "fetched" /\ Len(StepsOf(query)) = 1
  /\ LET e == Operand(x)
         t == Head(StepsOf(query))
         vec == VecAt({AtSteps(s, e, <<t>>) : s \in side[x].series}, t)
         result == IF e.agg = "none" THEN vec ELSE AggregateVector(vec, e.agg, e.names, e.without)
     IN Put(x, [side[x] EXCEPT !.stage = "ready", !.series = AsSeries(Added(Empty, result, t))])

\* buildMatrixSD: series by series, then the aggregation if there is one.
BuildMatrix(x) ==
  /\ side[x].stage = "fetched" /\ Len(StepsOf(query)) > 1
  /\ LET e == Operand(x)
         matrix == {s \in {AtSteps(s, e, StepsOf(query)) : s \in side[x].series} : s.samples # <<>>}
     IN Put(x, [side[x] EXCEPT !.stage = IF e.agg = "none" THEN "ready" ELSE "aggregating",
                               !.series = matrix,
                               !.cursor = [s \in matrix |-> 1],
                               !.times = UNION {{p.t : p \in ToSet(s.samples)} : s \in matrix}])

\* Where a cursor stops on its way to t.
Reach(samples, c, t) ==
  Min({i \in c..(Len(samples) + 1) : i <= Len(samples) => samples[i].t >= t})

IsAt(samples, i, t) == i <= Len(samples) /\ samples[i].t = t

\* Mutant: a cursor moves on although its series has no sample at t.
AggregateStep_AlwaysMoves(x) ==
  /\ side[x].stage = "aggregating" /\ side[x].times # {}
  /\ LET e == Operand(x)
         t == Min(side[x].times)
         stop == [s \in side[x].series |-> Reach(s.samples, side[x].cursor[s], t)]
         vec == {[labels |-> s.labels, v |-> s.samples[stop[s]].v]
                   : s \in {s \in side[x].series : IsAt(s.samples, stop[s], t)}}
     IN Put(x, [side[x] EXCEPT
          !.times = @ \ {t},
          !.cursor = [s \in side[x].series |-> stop[s] + 1],
          !.groups = Added(@, AggregateVector(vec, e.agg, e.names, e.without), t)])

\* aggregateMatrix: one round of the loop over the times, with a cursor in each series.
AggregateStep(x) ==
  /\ side[x].stage = "aggregating" /\ side[x].times # {}
  /\ LET e == Operand(x)
         t == Min(side[x].times)
         stop == [s \in side[x].series |-> Reach(s.samples, side[x].cursor[s], t)]
         here == {s \in side[x].series : IsAt(s.samples, stop[s], t)}
         vec == {[labels |-> s.labels, v |-> s.samples[stop[s]].v] : s \in here}
     IN Put(x, [side[x] EXCEPT
          !.times = @ \ {t},
          !.cursor = [s \in side[x].series |-> IF s \in here THEN stop[s] + 1 ELSE stop[s]],
          !.groups = Added(@, AggregateVector(vec, e.agg, e.names, e.without), t)])

AggregateEnd(x) ==
  /\ side[x].stage = "aggregating" /\ side[x].times = {}
  /\ Put(x, [side[x] EXCEPT !.stage = "ready", !.series = AsSeries(side[x].groups)])

\* Mutant: the channel has no place for a result nobody waits for.
Send_Unbuffered(x) ==
  /\ side[x].stage = "ready"
  /\ pc = "waiting"
  /\ Put(x, [side[x] EXCEPT !.stage = "sent"])

\* The result goes into its channel, and the goroutine ends.
Send(x) ==
  /\ side[x].stage = "ready"
  /\ Put(x, [side[x] EXCEPT !.stage = "sent"])

-----------------------------------------------------------------------------
(***************************************************************************)
(* evalBinaryPlan, in the request's goroutine.                             *)
(***************************************************************************)
Receive(x) ==
  /\ pc = "waiting" /\ side[x].stage = "sent"
  /\ Put(x, [side[x] EXCEPT !.stage = "received"])

AllReceived == \A x \in Used(query) : side[x].stage = "received"

\* The select takes ctx.Done() while a result is missing.
GiveUp ==
  /\ pc = "waiting" /\ cancelled
  /\ Used(query) = Sides /\ ~AllReceived
  /\ pc' = "failed"
  /\ UNCHANGED <<store, query, side, at, acc, answer, cancelled>>

SideFailed == \E x \in Used(query) : side[x].failed

ReturnError ==
  /\ pc = "waiting" /\ AllReceived /\ SideFailed
  /\ pc' = "failed"
  /\ UNCHANGED <<store, query, side, at, acc, answer, cancelled>>

Return(series) ==
  /\ pc' = "answered"
  /\ answer' = series
  /\ UNCHANGED <<store, query, side, at, acc, cancelled>>

ReturnLeaf ==
  /\ pc = "waiting" /\ AllReceived /\ ~SideFailed
  /\ ~IsBinary(query)
  /\ Return(side["left"].series)

\* applyScalarBinary
ApplyScalarBinary(series, scalar, onLeft) ==
  LET Of(x) == IF onLeft THEN Value(query.op, query.bool, scalar, x)
               ELSE Value(query.op, query.bool, x, scalar)
      Samples(s) == Present([i \in DOMAIN s.samples |->
                      {[t |-> s.samples[i].t, v |-> x] : x \in Of(s.samples[i].v)}])
  IN {s \in {[labels |-> s.labels, samples |-> Samples(s)] : s \in series} : s.samples # <<>>}

\* isScalarResult: one series without labels, whatever it comes from.
IsScalarResult(series) == Cardinality(series) = 1 /\ \A s \in series : s.labels = NoLabels

\* extractScalarValue: the value at its first sample.
ScalarValue(series) == (CHOOSE s \in series : TRUE).samples[1].v

\* A literal on one side.
ReturnWithNumber ==
  /\ pc = "waiting" /\ AllReceived /\ ~SideFailed
  /\ IsBinary(query) /\ Used(query) # Sides
  /\ Return(IF query.right.kind = "number"
            THEN ApplyScalarBinary(side["left"].series, query.right.v, FALSE)
            ELSE ApplyScalarBinary(side["right"].series, query.left.v, TRUE))

SomeScalar == \E x \in Sides : IsScalarResult(side[x].series)

ReturnWithScalar ==
  /\ pc = "waiting" /\ AllReceived /\ ~SideFailed
  /\ Used(query) = Sides /\ SomeScalar
  /\ Return(IF IsScalarResult(side["right"].series)
            THEN ApplyScalarBinary(side["left"].series, ScalarValue(side["right"].series), FALSE)
            ELSE ApplyScalarBinary(side["right"].series, ScalarValue(side["left"].series), TRUE))

BeginCombine ==
  /\ pc = "waiting" /\ AllReceived /\ ~SideFailed
  /\ Used(query) = Sides /\ ~SomeScalar
  /\ pc' = "combining"
  /\ UNCHANGED <<store, query, side, at, acc, answer, cancelled>>

Now == StepsOf(query)[at]
Left == VecAt(side["left"].series, Now)
Right == VecAt(side["right"].series, Now)

\* Mutant: the rows of all steps must match uniquely, not those of each.
Refused_AllSteps ==
  /\ query.op \notin SetOps
  /\ LET All(x) == UNION {VecAt(side[x].series, t) : t \in ToSet(StepsOf(query))}
     IN MultipleMatches(query.match, All("left"), All("right"))

Refused == query.op \notin SetOps /\ MultipleMatches(query.match, Left, Right)

\* One round of the loop over the steps.
CombineStep ==
  /\ pc = "combining" /\ at <= Len(StepsOf(query)) /\ ~Refused
  /\ acc' = Added(acc, IF query.op \in SetOps THEN VectorSetOp(query.op, query.match, Left, Right)
                       ELSE VectorBinaryOp(query.op, query.bool, query.match, Left, Right), Now)
  /\ at' = at + 1
  /\ UNCHANGED <<store, pc, query, side, answer, cancelled>>

CombineFails ==
  /\ pc = "combining" /\ at <= Len(StepsOf(query)) /\ Refused
  /\ pc' = "failed"
  /\ UNCHANGED <<store, query, side, at, acc, answer, cancelled>>

ReturnCombined ==
  /\ pc = "combining" /\ at > Len(StepsOf(query))
  /\ Return(AsSeries(acc))

\* The handler replies; the next query is followed when no goroutine is left of this one.
Reply ==
  /\ pc \in {"answered", "failed"}
  /\ \A x \in Sides : side[x].stage \in {"unused", "sent", "received"}
  /\ pc' = "idle"
  /\ query' = <<>>
  /\ side' = [x \in Sides |-> NoWork]
  /\ at' = 1
  /\ acc' = Empty
  /\ answer' = {}
  /\ cancelled' = FALSE
  /\ UNCHANGED store

-----------------------------------------------------------------------------
Operate(x) ==
  \/ FetchReturns(x) \/ FetchFails(x)
  \/ EvalInstant(x)
  \/ BuildMatrix(x)
  \/ AggregateStep(x) \/ AggregateEnd(x)
  \/ Send(x)

Answer ==
  \/ \E x \in Sides : Receive(x)
  \/ GiveUp
  \/ ReturnError
  \/ ReturnLeaf \/ ReturnWithNumber \/ ReturnWithScalar
  \/ BeginCombine \/ CombineStep \/ CombineFails \/ ReturnCombined
  \/ Reply

Proceed == Answer \/ \E x \in Sides : Operate(x)

Next ==
  \/ \E q \in Queries : Ask(q)
  \/ Cancel
  \/ Proceed

Spec == Init /\ [][Next]_vars

(***************************************************************************)
(* Some goroutine of the query goes on while one can, and the database     *)
(* answers or fails.  Nothing repeats within a query, so this is enough    *)
(* for each of them to end.                                                *)
(***************************************************************************)
FairSpec == Spec /\ WF_vars(Proceed)

-----------------------------------------------------------------------------
(***************************************************************************)
(* What is checked.                                                        *)
(***************************************************************************)
SeriesSet(S) == \A s \in S : DOMAIN s = {"labels", "samples"} /\ s.samples # <<>>

\* The variables have their types; a cursor stays within its series.
TypeOK ==
  /\ \A m \in DOMAIN store : SeriesSet(store[m])
  /\ pc \in {"idle", "waiting", "combining", "answered", "failed"}
  /\ pc = "idle" <=> query = <<>>
  /\ \A x \in Sides :
       /\ side[x].stage \in {"unused", "fetching", "fetched", "aggregating", "ready", "sent", "received"}
       /\ SeriesSet(side[x].series)
       /\ side[x].failed \in BOOLEAN
       /\ side[x].stage = "aggregating" =>
            \A s \in side[x].series : side[x].cursor[s] \in 1..(Len(s.samples) + 1)
  /\ at \in Nat
  /\ SeriesSet(AsSeries(acc)) /\ SeriesSet(answer)
  /\ cancelled \in BOOLEAN

(***************************************************************************)
(* The reference: what an operand and a query are at one instant, straight *)
(* from the table.  A selector looks back Staleness, both ends included,   *)
(* but a range query does not see what is as old as its start less range   *)
(* and Staleness: of a proper range, the oldest instant the first step of  *)
(* a selector looks at; of one that ends before it starts and is evaluated *)
(* at its end, more.                                                       *)
(***************************************************************************)
Newest(s, t) == {p \in ToSet(s.samples) :
                   p.t <= t /\ \A r \in ToSet(s.samples) : r.t <= t => r.t <= p.t}

IsSeen(q, e, p) == From(q) - p.t - e.offset < e.range + Staleness

SelectedAt(q, e, s, t) ==
  {p.v : p \in {p \in Newest(s, t) : t - p.t <= Staleness /\ p.v # Stale /\ IsSeen(q, e, p)}}

CountedAt(q, e, s, t) ==
  {Cardinality(W) : W \in
     {{p \in ToSet(s.samples) : t - p.t \in 0..(e.range - 1) /\ IsSeen(q, e, p)}} \ {{}}}

OperandAt(q, e, t) ==
  LET Values(s) == IF e.fn = "count" THEN CountedAt(q, e, s, t - e.offset)
                   ELSE SelectedAt(q, e, s, t - e.offset)
      rows == UNION {{[labels |-> s.labels, v |-> x] : x \in Values(s)} : s \in store[e.metric]}
  IN IF e.agg = "none" THEN rows ELSE AggregateVector(rows, e.agg, e.names, e.without)

LeftAt(q, t) == OperandAt(q, q.left, t)
RightAt(q, t) == OperandAt(q, q.right, t)

WithNumber(q, rows, Of(_)) == UNION {{[labels |-> r.labels, v |-> x] : x \in Of(r.v)} : r \in rows}

QueryAt(q, t) ==
  CASE ~IsBinary(q) -> LeftAt(q, t)
    [] IsBinary(q) /\ q.right.kind = "number" ->
         WithNumber(q, LeftAt(q, t), LAMBDA x : Value(q.op, q.bool, x, q.right.v))
    [] IsBinary(q) /\ q.left.kind = "number" ->
         WithNumber(q, RightAt(q, t), LAMBDA x : Value(q.op, q.bool, q.left.v, x))
    [] Used(q) = Sides /\ q.op \in SetOps -> VectorSetOp(q.op, q.match, LeftAt(q, t), RightAt(q, t))
    [] OTHER -> {[labels |-> r.labels, v |-> r.v] :
                   r \in VectorBinaryOp(q.op, q.bool, q.match, LeftAt(q, t), RightAt(q, t))}

AmbiguousAt(q, t) ==
  /\ Used(q) = Sides /\ q.op \notin SetOps
  /\ MultipleMatches(q.match, LeftAt(q, t), RightAt(q, t))

\* Rows of the many side that lose the labels that tell them apart (buildOutputLabels).
CollapseAt(q, t) ==
  /\ Used(q) = Sides /\ q.op \notin SetOps
  /\ \E r, s \in VectorBinaryOp(q.op, q.bool, q.match, LeftAt(q, t), RightAt(q, t)) :
       r # s /\ r.labels = s.labels

Collapses == \E t \in ToSet(StepsOf(query)) : CollapseAt(query, t)

TakenForScalar == Used(query) = Sides /\ SomeScalar

Points(series) == UNION {{<<s.labels, p.t, p.v>> : p \in ToSet(s.samples)} : s \in series}

\* A range query answers, at each of its steps, what the query is at that instant, in one
\* series for each set of labels with one sample for each step: whatever the fetched
\* windows, the cursors and the order in which the sides come make of it.  Not so when a
\* side without labels is taken for a scalar, or when many-to-one rows collapse.
RangeIsInstants ==
  pc = "answered" /\ ~TakenForScalar /\ ~Collapses =>
    /\ Points(answer) = UNION {{<<r.labels, t, r.v>> : r \in QueryAt(query, t)}
                                : t \in ToSet(StepsOf(query))}
    /\ \A s \in answer : \A i, j \in DOMAIN s.samples : i < j => s.samples[i].t < s.samples[j].t
    /\ \A r, s \in answer : r.labels = s.labels => r = s

\* A query fails for a reason: the client has gone, an operand could not be had, or rows
\* match several others at some instant; and then it does not succeed by leaving them out.
ErrorsAreDeserved ==
  LET ambiguous == \E t \in ToSet(StepsOf(query)) : AmbiguousAt(query, t)
  IN /\ pc = "failed" => cancelled \/ SideFailed \/ ambiguous
     /\ pc = "answered" /\ ~TakenForScalar => ~ambiguous

\* Every query ends, and its goroutines with it, also when one side fails early and when
\* the client goes while the sides are being evaluated.
EvaluationEnds == pc # "idle" ~> pc = "idle"
=============================================================================
