-------------------------------- MODULE PromQL --------------------------------
(***************************************************************************)
(* The evaluator's operators on samples and vectors: steps, windows and    *)
(* staleness (eval/evaluator.go, eval/staleness.go), grouping (eval/       *)
(* aggregations.go) and vector matching (eval/binary.go).                  *)
(*                                                                         *)
(* Labels are a function from names to values; a sample is [t, v]; a       *)
(* series has labels and a sequence of samples in the order of time; a     *)
(* vector is a set of rows [labels, v] with distinct labels.  A value that *)
(* may be missing is a set with at most one element.                       *)
(***************************************************************************)
EXTENDS Integers, Sequences, SequencesExt, FiniteSetsExt, Functions

CONSTANTS
  Staleness,  \* cfg.Prometheus.StalenessSeconds
  Stale       \* the staleness marker

ASSUME StalenessAssumption == Staleness \in Nat /\ Stale \notin Int

-----------------------------------------------------------------------------
(***************************************************************************)
(* Samples in time.                                                        *)
(***************************************************************************)

\* generateSteps
Steps(start, end, step) ==
  IF step <= 0 \/ end < start THEN <<end>>
  ELSE [i \in 1..((end - start) \div step + 1) |-> start + (i - 1) * step]

\* sort.Search: the place of the first sample after t.
FirstAfter(samples, t) ==
  Min({i \in 1..(Len(samples) + 1) : i <= Len(samples) => samples[i].t > t})

\* InstantValue: the last sample at or before t, unless it is too old or ends the series.
InstantValue(samples, t) ==
  LET idx == FirstAfter(samples, t) - 1
  IN IF idx = 0 THEN {}
     ELSE {s.v : s \in {p \in {samples[idx]} : p.t >= t - Staleness /\ p.v # Stale}}

\* WindowSamples: left-open, right-closed.
WindowSamples(samples, from, to) ==
  SubSeq(samples, FirstAfter(samples, from), FirstAfter(samples, to) - 1)

\* CountOverTime, which counts staleness markers too.
CountOverTime(samples) == IF samples = <<>> THEN {} ELSE {Len(samples)}

-----------------------------------------------------------------------------
(***************************************************************************)
(* Labels and groups.                                                      *)
(***************************************************************************)
NoLabels == [name \in {} |-> ""]

Keep(labels, names) == Restrict(labels, DOMAIN labels \intersect names)
Drop(labels, names) == Restrict(labels, DOMAIN labels \ names)

\* groupLabels; MatchingKey tells the same groups apart.
GroupLabels(labels, names, without) ==
  IF without THEN Drop(labels, names) ELSE Keep(labels, names)

\* The value of a group's rows.
Aggregated(op, rows) ==
  CASE op = "sum"   -> MapThenSumSet(LAMBDA r : r.v, rows)
    [] op = "max"   -> Max({r.v : r \in rows})
    [] op = "count" -> Cardinality(rows)
    [] op = "group" -> 1

\* AggregateVector
AggregateVector(rows, op, names, without) ==
  LET Group(r) == GroupLabels(r.labels, names, without)
  IN {[labels |-> g, v |-> Aggregated(op, {r \in rows : Group(r) = g})]
        : g \in {Group(r) : r \in rows}}

-----------------------------------------------------------------------------
(***************************************************************************)
(* Binary operations.  m says how rows match: [card, on, names, include].  *)
(***************************************************************************)

\* MatchingKey: with on, a missing label is as good as an empty one.
MatchingKey(labels, m) ==
  IF m.on THEN [n \in m.names |-> IF n \in DOMAIN labels THEN labels[n] ELSE ""]
  ELSE Drop(labels, m.names)

SameKey(r, s, m) == MatchingKey(r.labels, m) = MatchingKey(s.labels, m)

\* ApplyBinaryOp: a comparison keeps or drops its left side; set operators are none here.
ApplyBinaryOp(op, x, y) ==
  CASE op = "-" -> {x - y}
    [] op = ">" -> IF x > y THEN {x} ELSE {}
    [] op \in {"and", "or", "unless"} -> {}

\* With bool, 0 or 1 for every pair.
Value(op, bool, x, y) ==
  IF bool THEN {IF ApplyBinaryOp(op, x, y) = {} THEN 0 ELSE 1} ELSE ApplyBinaryOp(op, x, y)

\* The sides on which VectorBinaryOp refuses two rows with one key.
UniqueSides(m, lhs, rhs) ==
  CASE m.card = "many-to-one" -> {rhs}
    [] m.card = "one-to-many" -> {lhs}
    [] m.card = "one-to-one"  -> {lhs, rhs}

MultipleMatches(m, lhs, rhs) ==
  \E side \in UniqueSides(m, lhs, rhs) : \E r, s \in side : r # s /\ SameKey(r, s, m)

\* buildOutputLabels: even the many side keeps no labels but those matched on.
OutputLabels(l, r, m) ==
  LET base == IF m.card = "one-to-many" THEN r.labels ELSE l.labels
      other == IF m.card = "one-to-many" THEN l.labels ELSE r.labels
      extra == Keep(other, m.include)
      kept == GroupLabels(base, m.names, ~m.on)
  IN [n \in DOMAIN extra \union DOMAIN kept |-> IF n \in DOMAIN extra THEN extra[n] ELSE kept[n]]

\* VectorBinaryOp.  `of` tells rows apart whose labels have become equal.
VectorBinaryOp(op, bool, m, lhs, rhs) ==
  UNION {{[labels |-> OutputLabels(p[1], p[2], m), v |-> x, of |-> p]
            : x \in Value(op, bool, p[1].v, p[2].v)}
           : p \in {p \in lhs \X rhs : SameKey(p[1], p[2], m)}}

\* VectorAnd, VectorOr, VectorUnless
Matched(rows, others, m) == {r \in rows : \E s \in others : SameKey(r, s, m)}

VectorSetOp(op, m, lhs, rhs) ==
  CASE op = "and"    -> Matched(lhs, rhs, m)
    [] op = "unless" -> lhs \ Matched(lhs, rhs, m)
    [] op = "or"     -> lhs \union (rhs \ Matched(rhs, lhs, m))

SetOps == {"and", "or", "unless"}
=============================================================================
