---------------------------- MODULE MCTranslation ----------------------------
(***************************************************************************)
(* A small instance of Translation: two gauges and a counter of two or     *)
(* three series, two histograms, samples every three units with gaps,      *)
(* resets and negative values; and every function around every other.      *)
(***************************************************************************)
EXTENDS Translation, TLC

Inf == 99
No == 1000   \* no sample
MCTrig(v) == 7 - v * v

S(job, inst, vals) ==
  {[labels |-> ("job" :> job @@ "inst" :> inst),
    samples |-> SelectSeq([i \in 1..Len(vals) |-> [t |-> 3 * i, v |-> vals[i]]],
                          LAMBDA x : x.v # No)]}

B(job, le, vals) == {[s EXCEPT !.labels = ("job" :> job @@ "le" :> le)] : s \in S(job, 1, vals)}

Gauge == S(1, 1, <<4, -1, 2, -3>>) \union S(1, 2, <<No, 5, No, -8>>)
           \union S(2, 1, <<-7, -6, No, No>>)
Sparse == S(1, 1, <<1, 1, -2, 6>>) \union S(2, 2, <<3, No, No, No>>)
Counter == S(1, 1, <<10, 40, 70, 20>>) \union S(1, 2, <<5, No, 65, 95>>)
             \union S(2, 1, <<0, 30, 30, No>>)
Buckets1 == B(1, 1, <<0, 30, 30, 90>>) \union B(1, 5, <<20, 50, 140, 260>>)
             \union B(1, Inf, <<20, 50, 170, 290>>)
Buckets2 == B(2, 1, <<3, 33, 33, 0>>) \union B(2, Inf, <<5, 65, 155, 10>>)

MCStore == [g |-> Gauge, s |-> Sparse, c |-> Counter, h |-> Buckets1, k |-> Buckets1 \union Buckets2]

Sel(m) == [kind |-> "selector", metric |-> m, eq |-> NoLabels, offset |-> 0]
One(m) == [Sel(m) EXCEPT !.eq = ("job" :> 1 @@ "inst" :> 1)]
Missing(m) == [Sel(m) EXCEPT !.eq = ("job" :> 2)]
Shifted(m) == [Sel(m) EXCEPT !.offset = 3]
Over(fn, m) == [kind |-> "over", fn |-> fn, param |-> IF fn = "quantile_over_time" THEN 3 ELSE IF fn = "predict_linear" THEN 2 ELSE 0,
                metric |-> m, eq |-> NoLabels, range |-> 7, offset |-> 0]
Number == [kind |-> "number", v |-> 2]
Time == [kind |-> "time"]

Agg(op, param, names, without) ==
  [kind |-> "agg", op |-> op, param |-> param, names |-> names, without |-> without]
Math(fn, param) == [kind |-> "math", fn |-> fn, param |-> param]
Label(kind) == [kind |-> kind, dst |-> "zone", src |-> "inst"]
Plain(kind) == [kind |-> kind]
Histogram == [kind |-> "histogram_quantile", param |-> 3]

Around(w, e) == w @@ ("arg" :> e)

Wrappers ==
  {Agg("sum", 0, {"job"}, FALSE), Agg("max", 0, {}, FALSE), Agg("count", 0, {"inst"}, TRUE),
   Agg("topk", 1, {"job"}, FALSE), Agg("quantile", 1, {"job"}, FALSE),
   Agg("count_values", 0, {}, FALSE),
   Math("abs", 0), Math("sgn", 0), Math("clamp_min", 1), Math("clamp_max", 3), Math("trig", 0),
   Label("label_replace"), Label("label_join"), Plain("neg"), Plain("scalar"), Plain("absent")}

\* The parser refuses a scalar where a vector is due; what is not a number is not subtracted.
Fits(w, e) ==
  /\ w.kind # "neg" => e.kind \notin ScalarKinds
  /\ w.kind = "neg" => e.kind \notin {"scalar", "histogram_quantile"}

Around2(W1, W2, E) ==
  {Around(w2, Around(w1, e)) : <<w1, w2, e>> \in {x \in W1 \X W2 \X E : Fits(x[2], x[1])}}

Leaves(g) == {Sel(g), One(g), Missing(g), Shifted(g), [kind |-> "subquery"]}
            \union {Over(fn, "c") : fn \in WindowFunctions}
            \union {Over(fn, g) : fn \in {"delta", "avg_over_time", "absent_over_time"}}
            \union {[Over(fn, "c") EXCEPT !.offset = 3] : fn \in {"increase", "quantile_over_time"}}

OverHistogram(h) ==
  LET bucketed == {Over("rate", h), Over("increase", h)}
      kept == {Agg("sum", 0, {"job", "le"}, FALSE), Agg("sum", 0, {"job"}, TRUE)}
      inner == bucketed \union {Sel(h), Around(Agg("sum", 0, {"job"}, FALSE), Over("rate", h))}
                 \union {Around(w, e) : w \in kept, e \in bucketed}
      quantiles == {Around(Histogram, e) : e \in inner}
  IN quantiles \union {Around(w, e) : <<w, e>> \in {x \in Wrappers \X quantiles : Fits(x[1], x[2])}}

Compared(g) ==
  {Sel(g), Shifted(g), Number, Time, Over("increase", "c"),
   Around(Plain("scalar"), One(g)), Around(Agg("sum", 0, {"job"}, FALSE), Sel(g)),
   Around(Agg("max", 0, {}, FALSE), Sel("c")), Around(Agg("quantile", 2, {"job"}, FALSE), Sel(g)),
   Around(Math("abs", 0), Sel(g)), Around(Plain("neg"), Sel("c"))}

Ignoring == [card |-> "one-to-one", on |-> FALSE, names |-> {}, include |-> {}]
OnJob == [Ignoring EXCEPT !.on = TRUE, !.names = {"job"}, !.card = "many-to-one"]

Operation(op, m, l, r) == [kind |-> "binary", op |-> op, match |-> m, lhs |-> l, rhs |-> r]

\* A comparison has a vector on one side, a set operator on both.
Operations(g) ==
  {Operation(o[1], o[2], o[3], o[4]) :
     o \in {o \in {"-", ">", "and"} \X {Ignoring, OnJob} \X Compared(g) \X Compared(g) :
              /\ o[1] # "-" => ~({o[3].kind, o[4].kind} \subseteq ScalarKinds)
              /\ o[1] = "and" => {o[3].kind, o[4].kind} \intersect ScalarKinds = {}}}

AskedOf(g, h) ==
  Leaves(g) \union {Number, Time} \union Operations(g) \union OverHistogram(h)
    \union {Around(w, e) : w \in Wrappers, e \in Leaves(g)}
    \union Around2(Wrappers, Wrappers, {Sel(g), Over("increase", "c")})
    \union {Around(w, Operation("-", OnJob, l, r)) :
              w \in Wrappers \ {Plain("scalar")},
              l \in {Sel(g), Number}, r \in {Sel(g), Around(Agg("max", 0, {"job"}, FALSE), Sel("c"))}}
    \union {Around(Agg("sum", 0, {}, FALSE), Around(Agg("max", 0, {"job"}, FALSE),
              Around(Agg("sum", 0, {"job", "inst"}, FALSE), e))) : e \in Leaves(g)}

Asked == AskedOf("g", "h") \union AskedOf("s", "k")

\* Four levels are the deepest of them.
WithOperands(E) == E \union UNION {Operands(e) : e \in E}
MCExprs == WithOperands(WithOperands(WithOperands(Asked)))

MCParts ==
  LET parts[e \in MCExprs] == {e} \union UNION {parts[x] : x \in Operands(e)}
  IN [e \in MCExprs |-> parts[e]]

\* An instant, three steps, and a range with one step.
MCTimes == {[start |-> 9, end |-> 9, step |-> 0], [start |-> 6, end |-> 12, step |-> 3],
            [start |-> 12, end |-> 14, step |-> 6]}

MCQueries == {[expr |-> e] @@ w : e \in Asked, w \in MCTimes}
=============================================================================
