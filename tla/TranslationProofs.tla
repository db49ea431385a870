-------------------------- MODULE TranslationProofs --------------------------
(***************************************************************************)
(* Theorems about Translation, for every table, every query and every      *)
(* expression: its types, that a range query answers what instant queries  *)
(* of its steps answer, and that an answer is what the expression means.   *)
(***************************************************************************)
EXTENDS Translation, SetLemmas

-----------------------------------------------------------------------------
(***************************************************************************)
(* Expressions are trees.                                                  *)
(***************************************************************************)

\* What e is built from, without e.
Below(e) == Parts[e] \ {e}

LEMMA PartsAre ==
  ASSUME NEW e \in Exprs
  PROVE  /\ e \in Parts[e] /\ Parts[e] \subseteq Exprs /\ IsFiniteSet(Parts[e])
         /\ Operands(e) \subseteq Below(e)
         /\ \A x \in Parts[e] : Parts[x] \subseteq Parts[e] /\ Below(x) \subseteq Below(e)
         /\ \A x \in Below(e) : Parts[x] \subseteq Below(e)
<1>1. /\ IsFiniteSet(Parts[e]) /\ Parts[e] \subseteq Exprs
      /\ Parts[e] = {e} \union UNION {Parts[x] : x \in Operands(e)}
      /\ Operands(e) \subseteq Exprs
      /\ \A x \in Operands(e) : e \notin Parts[x]
      /\ \A x \in Parts[e] : Parts[x] \subseteq Parts[e]
  BY ExprsAssumption
<1>2. \A x \in Exprs : x \in Parts[x] /\ \A y \in Parts[x] : Parts[y] \subseteq Parts[x]
  <2>1. \A x \in Exprs : Parts[x] = {x} \union UNION {Parts[y] : y \in Operands(x)}
    BY ExprsAssumption
  <2>2. \A x \in Exprs : x \in Parts[x]
    BY <2>1
  <2>3. QED
    BY <2>2, ExprsAssumption
<1>3. Operands(e) \subseteq Below(e)
  <2>1. SUFFICES ASSUME NEW x \in Operands(e)  PROVE x \in Parts[e] /\ x # e
    BY DEF Below
  <2>2. x \in Parts[x]
    BY <1>1, <1>2
  <2>3. x \in Parts[e]
    BY <1>1, <2>2
  <2>4. QED
    BY <1>1, <2>2, <2>3
<1>4. \A x \in Below(e) : Parts[x] \subseteq Below(e)
  <2>1. SUFFICES ASSUME NEW x \in Below(e)  PROVE Parts[x] \subseteq Parts[e] /\ e \notin Parts[x]
    BY DEF Below
  <2>2. PICK y \in Operands(e) : x \in Parts[y]
    BY <1>1 DEF Below
  <2>3. Parts[x] \subseteq Parts[y] /\ e \notin Parts[y]
    BY <2>2, <1>1, <1>2
  <2>4. QED
    BY <2>3, <1>1 DEF Below
<1>5. \A x \in Parts[e] : Below(x) \subseteq Below(e)
  BY <1>1, <1>4 DEF Below
<1>6. QED
  BY <1>1, <1>2, <1>3, <1>4, <1>5

\* What holds of an expression whenever it holds of all it is built from holds of all.
LEMMA TreeInduction ==
  ASSUME NEW Good, \A e \in Exprs : Below(e) \subseteq Good => e \in Good
  PROVE  \A e \in Exprs : e \in Good
<1> DEFINE Bad == {e \in Exprs : e \notin Good}
           Height(e) == Cardinality(Parts[e])
           H == {Height(e) : e \in Bad}
<1>1. SUFFICES ASSUME Bad # {}  PROVE FALSE
  OBVIOUS
<1>2. \A e \in Exprs : IsFiniteSet(Parts[e]) /\ Height(e) \in Nat
  BY PartsAre, FS_CardinalityType
<1>3. H \in SUBSET Nat /\ H # {}
  <2>1. \A e \in Bad : Height(e) \in Nat
    BY <1>2
  <2> HIDE DEF Bad, Height
  <2>2. QED
    BY <1>1, <2>1
<1>4. PICK m \in H : \A x \in H : m <= x
  <2> HIDE DEF H
  <2>1. QED
    BY <1>3, LeastNumber
<1>5. PICK e \in Bad : m = Height(e)
  OBVIOUS
<1>6. Below(e) \subseteq Good
  <2>1. SUFFICES ASSUME NEW x \in Below(e), x \notin Good  PROVE FALSE
    OBVIOUS
  <2>2. x \in Exprs /\ Parts[x] \subseteq Parts[e] /\ e \notin Parts[x] /\ e \in Parts[e] /\ e \in Exprs
    BY <1>5, PartsAre DEF Below
  <2>3. x \in Bad
    BY <2>1, <2>2
  <2>4. Height(x) < Height(e)
    <3>1. /\ Cardinality(Parts[x]) <= Cardinality(Parts[e])
          /\ (Cardinality(Parts[e]) = Cardinality(Parts[x]) => Parts[e] = Parts[x])
      BY <1>2, <2>2, FS_Subset
    <3>2. Height(x) \in Nat /\ Height(e) \in Nat
      BY <1>2, <2>2
    <3>3. QED
      BY <3>1, <3>2, <2>2
  <2>5. m <= Height(x)
    BY <1>4, <2>3
  <2>6. QED
    BY <2>4, <2>5, <1>2, <1>5, <2>2
<1>7. QED
  BY <1>5, <1>6

-----------------------------------------------------------------------------
(***************************************************************************)
(* The functions that are defined by recursion over expressions are.       *)
(***************************************************************************)

\* What Transpile, Results and Meaning make of e when f is theirs below e.
Node(k, e, f) ==
  CASE k[1] = "plans"   -> TranspileNode(e, k[2], f)
    [] k[1] = "results" -> UNION {EvalPlan(p, k[2], f) : p \in Transpile(k[2])[e]}
    [] k[1] = "meaning" -> MeaningNode(e, k[2], f)

\* It depends on no more of f.
Local(k) ==
  \A e \in Exprs : \A f, g : (\A x \in Below(e) : f[x] = g[x]) => Node(k, e, f) = Node(k, e, g)

\* Such a function is defined by its recursion.
LEMMA RecursionIs ==
  ASSUME NEW k, Local(k)
  PROVE  \E F : F = [e \in Exprs |-> Node(k, e, F)]
<1> DEFINE N(e, f) == Node(k, e, f)
           Sol(f, e) == f = [x \in Parts[e] |-> N(x, f)]
           Good == {e \in Exprs : (\E f : Sol(f, e)) /\ (\A f, g : Sol(f, e) /\ Sol(g, e) => f = g)}
           s == [e \in Exprs |-> CHOOSE f : Sol(f, e)]
<1>1. \A e \in Exprs : \A f, g : (\A x \in Below(e) : f[x] = g[x]) => N(e, f) = N(e, g)
  BY DEF Local
<1> HIDE DEF N
<1>2. ASSUME NEW e \in Exprs, NEW f, Sol(f, e), NEW x \in Parts[e]
      PROVE  Sol([z \in Parts[x] |-> f[z]], x)
  <2> DEFINE g == [z \in Parts[x] |-> f[z]]
  <2>1. Parts[x] \subseteq Parts[e] /\ Parts[e] \subseteq Exprs
    BY PartsAre
  <2>2. ASSUME NEW z \in Parts[x]  PROVE g[z] = N(z, g)
    <3>1. z \in Exprs /\ x \in Exprs /\ z \in Parts[e]
      BY <2>1
    <3>2. \A w \in Below(z) : w \in Parts[x]
      BY <3>1, PartsAre DEF Below
    <3>3. \A w \in Below(z) : g[w] = f[w]
      BY <3>2
    <3>4. N(z, g) = N(z, f)
      BY <1>1, <3>1, <3>3
    <3>5. f[z] = N(z, f)
      BY <1>2, <3>1
    <3>6. QED
      BY <3>4, <3>5
  <2>3. QED
    BY <2>2
<1>3. ASSUME NEW e \in Exprs, NEW f, Sol(f, e), NEW x \in Good \intersect Parts[e]
      PROVE  f[x] = s[x][x]
  <2>1. Sol([z \in Parts[x] |-> f[z]], x) /\ Sol(s[x], x)
    <3>1. Sol([z \in Parts[x] |-> f[z]], x)
      BY <1>2, <1>3
    <3>2. s[x] = CHOOSE g : Sol(g, x)
      OBVIOUS
    <3> HIDE DEF Sol, s
    <3>3. QED
      BY <3>1, <3>2
  <2>2. s[x] = [z \in Parts[x] |-> f[z]]
    <3> HIDE DEF Sol, s
    <3>1. QED
      BY <2>1
  <2>3. x \in Parts[x]
    BY PartsAre
  <2> HIDE DEF s
  <2>4. QED
    BY <2>2, <2>3
<1>4. ASSUME NEW e \in Good  PROVE Sol(s[e], e)
  <2>1. s[e] = CHOOSE f : Sol(f, e)
    OBVIOUS
  <2> HIDE DEF Sol, s
  <2>2. QED
    BY <2>1
<1>5. ASSUME NEW e \in Exprs, Below(e) \subseteq Good  PROVE e \in Good
  <2> DEFINE h == [x \in Below(e) |-> s[x][x]]
             f == [x \in Parts[e] |-> IF x = e THEN N(e, h) ELSE h[x]]
  <2>1. /\ e \in Parts[e] /\ Below(e) \subseteq Exprs /\ Parts[e] = Below(e) \union {e} /\ e \notin Below(e)
        /\ \A x \in Below(e) : Below(x) \subseteq Below(e) /\ Below(x) \subseteq Parts[x]
    BY PartsAre DEF Below
  <2>2. \A x \in Below(e) : h[x] = s[x][x] /\ f[x] = h[x]
    BY <2>1
  <2>3. f[e] = N(e, h) /\ N(e, f) = N(e, h)
    <3>1. f[e] = N(e, h)
      BY <2>1
    <3> HIDE DEF f, h
    <3>2. QED
      BY <2>2, <3>1, <1>1
  <2>4. ASSUME NEW x \in Below(e)  PROVE f[x] = N(x, f)
    <3>1. Sol(s[x], x) /\ x \in Exprs /\ x \in Parts[x]
      BY <1>4, <1>5, <2>1, PartsAre
    <3>2. s[x][x] = N(x, s[x])
      BY <3>1
    <3>3. \A w \in Below(x) : s[x][w] = s[w][w]
      BY <3>1, <1>3, <1>5, <2>1
    <3> HIDE DEF f, h, s
    <3>4. \A w \in Below(x) : s[x][w] = f[w]
      BY <3>3, <2>1, <2>2
    <3>5. N(x, s[x]) = N(x, f)
      BY <3>1, <3>4, <1>1
    <3>6. QED
      BY <3>2, <3>5, <2>2
  <2>5. Sol(f, e)
    <3>1. \A x \in Parts[e] : f[x] = N(x, f)
      <4> HIDE DEF f
      <4>1. QED
        BY <2>1, <2>3, <2>4
    <3>2. f = [x \in Parts[e] |-> f[x]]
      OBVIOUS
    <3> HIDE DEF f
    <3>3. QED
      BY <3>1, <3>2
  <2>6. ASSUME NEW a, NEW b, Sol(a, e), Sol(b, e)  PROVE a = b
    <3>1. \A x \in Below(e) : x \in Good \intersect Parts[e]
      BY <1>5, <2>1
    <3>2. \A x \in Below(e) : a[x] = s[x][x]
      <4> HIDE DEF Sol, s, Good
      <4>1. QED
        BY <2>6, <1>3, <3>1
    <3>3. \A x \in Below(e) : b[x] = s[x][x]
      <4> HIDE DEF Sol, s, Good
      <4>1. QED
        BY <2>6, <1>3, <3>1
    <3>4. \A x \in Below(e) : a[x] = b[x]
      BY <3>2, <3>3
    <3>8. N(e, a) = N(e, b)
      BY <3>4, <1>1
    <3>9. a[e] = N(e, a) /\ b[e] = N(e, b)
      BY <2>6, <2>1
    <3>5. \A x \in Parts[e] : a[x] = b[x]
      BY <3>4, <3>8, <3>9, <2>1
    <3>6. a = [x \in Parts[e] |-> a[x]] /\ b = [x \in Parts[e] |-> b[x]]
      BY <2>6
    <3>7. QED
      BY <3>5, <3>6
  <2> HIDE DEF f, Sol
  <2>7. QED
    BY <2>5, <2>6
<1>6. \A e \in Exprs : e \in Good
  <2> HIDE DEF Good
  <2>1. QED
    BY <1>5, TreeInduction
<1> DEFINE F == [e \in Exprs |-> s[e][e]]
<1>7. ASSUME NEW e \in Exprs  PROVE F[e] = N(e, F)
  <2>1. Sol(s[e], e) /\ e \in Parts[e]
    BY <1>4, <1>6, PartsAre
  <2>2. F[e] = N(e, s[e])
    BY <2>1
  <2>3. \A x \in Below(e) : x \in Good \intersect Parts[e] /\ x \in Exprs
    <3> HIDE DEF Good
    <3>1. QED
      BY <1>6, PartsAre DEF Below
  <2>6. \A x \in Below(e) : F[x] = s[x][x]
    BY <2>3
  <2>4. \A x \in Below(e) : s[e][x] = F[x]
    <3> HIDE DEF Sol, s, Good, F
    <3>1. QED
      BY <1>3, <2>1, <2>3, <2>6
  <2> HIDE DEF F, s
  <2>5. QED
    BY <2>2, <2>4, <1>1
<1>8. F = [e \in Exprs |-> N(e, F)]
  <2>1. F = [e \in Exprs |-> F[e]]
    OBVIOUS
  <2> HIDE DEF F
  <2>2. QED
    BY <2>1, <1>7
<1>9. QED
  BY <1>8 DEF N

\* An expression's operands are below it.
LEMMA OperandsAre ==
  ASSUME NEW e \in Exprs
  PROVE  /\ e.kind \in {"agg", "math", "label_replace", "label_join", "scalar", "absent",
                        "histogram_quantile"} => Operands(e) = {e.arg} /\ e.arg \in Below(e)
         /\ e.kind = "neg" => Operands(e) = {Zero, e.arg} /\ e.arg \in Below(e) /\ Zero \in Below(e)
         /\ e.kind = "binary" => Operands(e) = {e.lhs, e.rhs} /\ e.lhs \in Below(e) /\ e.rhs \in Below(e)
         /\ e.kind \in {"number", "time", "selector", "over", "subquery"} => Operands(e) = {}
         /\ Below(e) \subseteq Exprs
<1>1. Operands(e) \subseteq Below(e) /\ Below(e) \subseteq Exprs
  BY PartsAre DEF Below
<1>2. QED
  BY <1>1 DEF Operands

LEMMA PlansAre ==
  ASSUME NEW q
  PROVE  /\ Transpile(q) = [e \in Exprs |-> Transpile(q)[e]]
         /\ \A e \in Exprs : Transpile(q)[e] = TranspileNode(e, q, Transpile(q))
<1> DEFINE k == <<"plans", q>>
<1>1. \A e, f : Node(k, e, f) = TranspileNode(e, q, f)
  BY DEF Node
<1>2. ASSUME NEW e \in Exprs, NEW f, NEW g, \A x \in Below(e) : f[x] = g[x]
      PROVE  TranspileNode(e, q, f) = TranspileNode(e, q, g)
  <2>1. e.kind \in {"number", "time", "selector", "over", "subquery", "neg", "binary", "agg",
                    "math", "label_replace", "label_join", "scalar", "absent", "histogram_quantile"}
    BY ExprsAssumption
  <2>2. CASE e.kind \in {"number", "time", "selector", "over", "subquery"}
    BY <2>2 DEF TranspileNode
  <2>3. CASE e.kind = "neg"
    <3>1. f[e.arg] = g[e.arg]
      BY <2>3, <1>2, OperandsAre
    <3>2. QED
      BY <2>3, <3>1 DEF TranspileNode
  <2>4. CASE e.kind = "binary"
    <3>1. f[e.lhs] = g[e.lhs] /\ f[e.rhs] = g[e.rhs]
      BY <2>4, <1>2, OperandsAre
    <3>2. QED
      BY <2>4, <3>1 DEF TranspileNode
  <2>5. CASE e.kind \in {"agg", "math", "label_replace", "label_join", "scalar", "absent",
                         "histogram_quantile"}
    <3>1. f[e.arg] = g[e.arg]
      BY <2>5, <1>2, OperandsAre
    <3>2. QED
      BY <2>5, <3>1 DEF TranspileNode
  <2>6. QED
    BY <2>1, <2>2, <2>3, <2>4, <2>5
<1>3. Local(k)
  BY <1>1, <1>2 DEF Local
<1>4. \E F : F = [e \in Exprs |-> TranspileNode(e, q, F)]
  <2>1. PICK F : F = [e \in Exprs |-> Node(k, e, F)]
    BY <1>3, RecursionIs
  <2> HIDE DEF k
  <2>2. F = [e \in Exprs |-> TranspileNode(e, q, F)]
    BY <1>1, <2>1
  <2>3. QED
    BY <2>2
<1>5. Transpile(q) = CHOOSE F : F = [e \in Exprs |-> TranspileNode(e, q, F)]
  BY DEF Transpile
<1> HIDE DEF k
<1>6. Transpile(q) = [e \in Exprs |-> TranspileNode(e, q, Transpile(q))]
  BY <1>4, <1>5
<1>7. QED
  BY <1>6

-----------------------------------------------------------------------------
(***************************************************************************)
(* Plans.                                                                  *)
(***************************************************************************)
Fields ==
  {"exprType", "isScalar", "val", "metric", "eq", "from", "to", "offset", "range", "fn", "inner",
   "aggs", "param", "math", "dst", "src", "absentEq", "op", "match", "lhs", "rhs", "scalarL",
   "scalarR", "valL", "valR"}

\* A plan has these fields, and p and r agree in all but some.
IsPlan(p) == p = [f \in Fields |-> p[f]]
AgreeBut(p, r, names) == \A f \in Fields \ names : p[f] = r[f]

Wrapping == {"agg", "math", "label_replace", "label_join", "scalar", "absent", "histogram_quantile"}

LEMMA BlankIs == DOMAIN Blank = Fields /\ IsPlan(Blank)
<1>1. DOMAIN Blank = Fields
  BY DEF Blank, Fields
<1>2. Blank = [f \in DOMAIN Blank |-> Blank[f]]
  BY DEF Blank
<1>3. QED
  BY <1>1, <1>2 DEF IsPlan

\* w is the plan p with what e writes into it.
Written(e, p, w) ==
  /\ IsPlan(w)
  /\ e.kind = "agg" => /\ AgreeBut(w, p, {"exprType", "param", "aggs"})
                       /\ w.exprType = "aggregate" /\ w.param = e.param
                       /\ w.aggs = Append(p.aggs, AggStep(e))
  /\ e.kind = "math" => AgreeBut(w, p, {"math"}) /\ w.math = Append(p.math, MathStep(e))
  /\ e.kind = "histogram_quantile" =>
       /\ AgreeBut(w, p, {"inner", "fn", "exprType", "param"})
       /\ w.inner = p.fn /\ w.fn = "histogram_quantile"
       /\ w.exprType = "histogram_quantile" /\ w.param = e.param
  /\ e.kind = "absent" =>
       /\ AgreeBut(w, p, {"fn", "exprType", "absentEq"})
       /\ w.fn = "absent" /\ w.exprType = "absent"
       /\ w.absentEq = IF e.arg.kind = "selector" THEN e.arg.eq ELSE p.absentEq
  /\ e.kind \in {"label_replace", "label_join"} =>
       /\ AgreeBut(w, p, {"fn", "exprType", "dst", "src"})
       /\ w.fn = e.kind /\ w.exprType = "label_func" /\ w.dst = e.dst /\ w.src = e.src
  /\ e.kind = "scalar" => AgreeBut(w, p, {"exprType"}) /\ w.exprType = "scalar_func"

LEMMA WrapIs ==
  ASSUME NEW e, e.kind \in Wrapping, NEW p, IsPlan(p)
  PROVE  Written(e, p, Wrap(e, p))
<1>1. DOMAIN p = Fields
  BY DEF Written, IsPlan
<1>2. CASE e.kind = "agg"
  <2>1. Wrap(e, p) = TranspileAggregateExpr(e, p)
    BY <1>2 DEF Wrap
  <2>2. QED
    BY <1>1, <1>2, <2>1 DEF Written, TranspileAggregateExpr, IsPlan, AgreeBut, Fields
<1>3. CASE e.kind = "math"
  <2>1. Wrap(e, p) = TranspileMathFunc(e, p)
    BY <1>3 DEF Wrap
  <2>2. QED
    BY <1>1, <1>3, <2>1 DEF Written, TranspileMathFunc, IsPlan, AgreeBut, Fields
<1>4. CASE e.kind = "histogram_quantile"
  <2>1. Wrap(e, p) = TranspileHistogramQuantile(e, p)
    BY <1>4 DEF Wrap
  <2>2. QED
    BY <1>1, <1>4, <2>1 DEF Written, TranspileHistogramQuantile, IsPlan, AgreeBut, Fields
<1>5. CASE e.kind = "absent"
  <2>1. Wrap(e, p) = TranspileAbsent(e, p)
    BY <1>5 DEF Wrap
  <2>2. QED
    BY <1>1, <1>5, <2>1 DEF Written, TranspileAbsent, IsPlan, AgreeBut, Fields
<1>6. CASE e.kind \in {"label_replace", "label_join"}
  <2>1. Wrap(e, p) = TranspileLabelFunc(e, p)
    BY <1>6 DEF Wrap
  <2>2. QED
    BY <1>1, <1>6, <2>1 DEF Written, TranspileLabelFunc, IsPlan, AgreeBut, Fields
<1>7. CASE e.kind = "scalar"
  <2>1. Wrap(e, p) = [p EXCEPT !.exprType = "scalar_func"]
    BY <1>7 DEF Wrap
  <2>2. QED
    BY <1>1, <1>7, <2>1 DEF Written, IsPlan, AgreeBut, Fields
<1>8. QED
  BY <1>2, <1>3, <1>4, <1>5, <1>6, <1>7 DEF Wrapping

\* The plans of what has no operand, and of operations.
LEMMA BasesAre ==
  ASSUME NEW e, NEW q
  PROVE  /\ \A v : LET p == Literal(v)
                   IN IsPlan(p) /\ AgreeBut(p, Blank, {"isScalar", "val"}) /\ p.isScalar /\ p.val = v
         /\ LET p == [Blank EXCEPT !.exprType = "time"]
            IN IsPlan(p) /\ AgreeBut(p, Blank, {"exprType"}) /\ p.exprType = "time"
         /\ LET p == TranspileVectorSelector(e, q)
            IN /\ IsPlan(p)
               /\ AgreeBut(p, Blank, {"exprType", "metric", "eq", "offset", "from", "to"})
               /\ p.exprType = "vector" /\ p.metric = e.metric /\ p.eq = e.eq /\ p.offset = e.offset
               /\ p.from = From(q) - Staleness - e.offset /\ p.to = q.end - e.offset
         /\ LET p == TranspileRangeFunc(e, q)
            IN /\ IsPlan(p)
               /\ AgreeBut(p, Blank, {"exprType", "metric", "eq", "offset", "from", "to", "range",
                                      "fn", "param"})
               /\ p.exprType = (IF e.fn = "absent_over_time" THEN "absent" ELSE "call")
               /\ p.metric = e.metric /\ p.eq = e.eq /\ p.offset = e.offset
               /\ p.from = From(q) - Staleness - e.offset - e.range /\ p.to = q.end - e.offset
               /\ p.range = e.range /\ p.fn = e.fn /\ p.param = e.param
         /\ LET p == Negation(e)
            IN /\ IsPlan(p)
               /\ AgreeBut(p, Blank, {"exprType", "op", "lhs", "rhs", "match"})
               /\ p.exprType = "binary" /\ p.op = "-" /\ p.lhs = Zero /\ p.rhs = e.arg
<1> DEFINE b == Blank
<1>1. DOMAIN b = Fields /\ IsPlan(b)
  BY BlankIs
<1> HIDE DEF b
<1>2. \A v : LET p == [b EXCEPT !.isScalar = TRUE, !.val = v]
             IN IsPlan(p) /\ AgreeBut(p, b, {"isScalar", "val"}) /\ p.isScalar /\ p.val = v
  BY <1>1 DEF IsPlan, AgreeBut, Fields
<1>3. LET p == [b EXCEPT !.exprType = "time"]
      IN IsPlan(p) /\ AgreeBut(p, b, {"exprType"}) /\ p.exprType = "time"
  BY <1>1 DEF IsPlan, AgreeBut, Fields
<1> DEFINE v == [b EXCEPT !.exprType = "vector", !.metric = e.metric, !.eq = e.eq, !.offset = e.offset,
                          !.from = From(q) - Staleness - e.offset, !.to = q.end - e.offset]
<1>4. /\ IsPlan(v)
      /\ AgreeBut(v, b, {"exprType", "metric", "eq", "offset", "from", "to"})
      /\ v.exprType = "vector" /\ v.metric = e.metric /\ v.eq = e.eq /\ v.offset = e.offset
      /\ v.from = From(q) - Staleness - e.offset /\ v.to = q.end - e.offset
  <2> DEFINE names == {"exprType", "metric", "eq", "offset", "from", "to"}
  <2>1. names \subseteq DOMAIN b
    BY <1>1 DEF Fields
  <2>2. /\ v.exprType = "vector" /\ v.metric = e.metric /\ v.eq = e.eq /\ v.offset = e.offset
        /\ v.from = From(q) - Staleness - e.offset /\ v.to = q.end - e.offset
    BY <2>1
  <2>3. DOMAIN v = DOMAIN b /\ v = [f \in DOMAIN v |-> v[f]] /\ \A f \in DOMAIN b \ names : v[f] = b[f]
    OBVIOUS
  <2> HIDE DEF v, names
  <2>4. IsPlan(v) /\ AgreeBut(v, b, names)
    BY <1>1, <2>3 DEF IsPlan, AgreeBut
  <2>5. QED
    BY <2>2, <2>4 DEF names
<1>5. v = TranspileVectorSelector(e, q)
  BY DEF TranspileVectorSelector, b
<1> HIDE DEF v
<1> DEFINE m == [v EXCEPT !.exprType = "matrix", !.range = e.range, !.from = @ - e.range]
<1>6. /\ IsPlan(m)
      /\ AgreeBut(m, v, {"exprType", "range", "from"})
      /\ m.range = e.range /\ m.from = v.from - e.range
  BY <1>4 DEF IsPlan, AgreeBut, Fields
<1>7. m = TranspileMatrixSelector(e, q)
  BY <1>5 DEF TranspileMatrixSelector
<1> HIDE DEF m
<1> DEFINE type == IF e.fn = "absent_over_time" THEN "absent" ELSE "call"
<1> HIDE DEF type
<1> DEFINE c == [m EXCEPT !.fn = e.fn, !.exprType = type, !.param = e.param]
<1>8. /\ IsPlan(c)
      /\ AgreeBut(c, m, {"exprType", "fn", "param"})
      /\ c.fn = e.fn /\ c.exprType = type /\ c.param = e.param
  BY <1>6 DEF IsPlan, AgreeBut, Fields
<1>9. c = TranspileRangeFunc(e, q)
  BY <1>7 DEF TranspileRangeFunc, type
<1> HIDE DEF c
<1>10. /\ AgreeBut(c, b, {"exprType", "metric", "eq", "offset", "from", "to", "range", "fn", "param"})
       /\ c.metric = e.metric /\ c.eq = e.eq /\ c.offset = e.offset
       /\ c.from = From(q) - Staleness - e.offset - e.range /\ c.to = q.end - e.offset
       /\ c.range = e.range
  <2>1. AgreeBut(c, b, {"exprType", "metric", "eq", "offset", "from", "to", "range", "fn", "param"})
    BY <1>4, <1>6, <1>8 DEF AgreeBut
  <2>2. /\ c.metric = v.metric /\ c.eq = v.eq /\ c.offset = v.offset /\ c.to = v.to
        /\ c.from = m.from /\ c.range = m.range
    BY <1>6, <1>8 DEF AgreeBut, Fields
  <2>3. QED
    BY <2>1, <2>2, <1>4, <1>6
<1> DEFINE mt == [card |-> "one-to-one", on |-> FALSE, names |-> {}, include |-> {}]
<1> HIDE DEF mt
<1>11. LET p == [b EXCEPT !.exprType = "binary", !.op = "-", !.lhs = Zero, !.rhs = e.arg, !.match = mt]
       IN /\ IsPlan(p)
          /\ AgreeBut(p, b, {"exprType", "op", "lhs", "rhs", "match"})
          /\ p.exprType = "binary" /\ p.op = "-" /\ p.lhs = Zero /\ p.rhs = e.arg
  BY <1>1 DEF IsPlan, AgreeBut, Fields
<1>12. QED
  <2>1. \A w : LET p == Literal(w)
               IN IsPlan(p) /\ AgreeBut(p, Blank, {"isScalar", "val"}) /\ p.isScalar /\ p.val = w
    BY <1>2 DEF Literal, b
  <2>2. LET p == [Blank EXCEPT !.exprType = "time"]
        IN IsPlan(p) /\ AgreeBut(p, Blank, {"exprType"}) /\ p.exprType = "time"
    BY <1>3 DEF b
  <2>3. LET p == Negation(e)
        IN /\ IsPlan(p)
           /\ AgreeBut(p, Blank, {"exprType", "op", "lhs", "rhs", "match"})
           /\ p.exprType = "binary" /\ p.op = "-" /\ p.lhs = Zero /\ p.rhs = e.arg
    BY <1>11 DEF Negation, b, mt
  <2>4. QED
    BY <2>1, <2>2, <2>3, <1>4, <1>5, <1>8, <1>9, <1>10 DEF b, type

LEMMA OperationIs ==
  ASSUME NEW e, NEW l, NEW r
  PROVE  LET p == TranspileBinaryExpr(e, l, r)
         IN /\ IsPlan(p)
            /\ AgreeBut(p, Blank, {"exprType", "op", "lhs", "rhs", "match", "scalarL",
                                   "scalarR", "valL", "valR"})
            /\ p.exprType = "binary" /\ p.op = e.op /\ p.lhs = e.lhs /\ p.rhs = e.rhs
            /\ p.match = e.match /\ p.scalarL = l.isScalar /\ p.scalarR = r.isScalar
            /\ p.valL = l.val /\ p.valR = r.val
<1> DEFINE b == Blank
           p == [b EXCEPT !.exprType = "binary", !.op = e.op, !.match = e.match, !.lhs = e.lhs,
                          !.rhs = e.rhs, !.scalarL = l.isScalar, !.scalarR = r.isScalar,
                          !.valL = l.val, !.valR = r.val]
<1>1. DOMAIN b = Fields /\ IsPlan(b)
  BY BlankIs
<1>2. TranspileBinaryExpr(e, l, r) = p
  BY DEF TranspileBinaryExpr
<1> HIDE DEF b
<1>3. /\ IsPlan(p)
      /\ AgreeBut(p, b, {"exprType", "op", "lhs", "rhs", "match", "scalarL", "scalarR", "valL", "valR"})
      /\ p.exprType = "binary" /\ p.op = e.op /\ p.lhs = e.lhs /\ p.rhs = e.rhs
      /\ p.match = e.match /\ p.scalarL = l.isScalar /\ p.scalarR = r.isScalar
      /\ p.valL = l.val /\ p.valR = r.val
  <2> DEFINE names == {"exprType", "op", "lhs", "rhs", "match", "scalarL", "scalarR", "valL", "valR"}
  <2>1. DOMAIN p = Fields /\ p = [f \in DOMAIN p |-> p[f]]
    BY <1>1
  <2>2. \A f \in DOMAIN b \ names : p[f] = b[f]
    OBVIOUS
  <2>3. names \subseteq DOMAIN b
    BY <1>1 DEF Fields
  <2>4. /\ p.exprType = "binary" /\ p.op = e.op /\ p.lhs = e.lhs /\ p.rhs = e.rhs
        /\ p.match = e.match /\ p.scalarL = l.isScalar /\ p.scalarR = r.isScalar
        /\ p.valL = l.val /\ p.valR = r.val
    BY <2>3
  <2> HIDE DEF p, names
  <2>5. IsPlan(p) /\ AgreeBut(p, b, names)
    BY <1>1, <2>1, <2>2 DEF IsPlan, AgreeBut
  <2>6. QED
    BY <2>4, <2>5 DEF names
<1> HIDE DEF p
<1>4. QED
  BY <1>2, <1>3 DEF b

IsQuery(q) == q.start \in Int /\ q.end \in Int /\ q.step \in Nat

\* What a plan selects, and where it starts and ends to fetch it: that of one node, or nothing.
OfLeaf(p, b, q) ==
  /\ b.kind \in {"selector", "over"}
  /\ p.metric = b.metric /\ p.eq = b.eq /\ p.offset = b.offset
  /\ p.range = (IF b.kind = "over" THEN b.range ELSE 0)
  /\ p.from = From(q) - Staleness - b.offset - p.range
  /\ p.to = q.end - b.offset

Reads(p, e, q) ==
  \/ \E b \in Parts[e] : OfLeaf(p, b, q)
  \/ p.metric = "" /\ p.from = 0 /\ p.to = 0 /\ p.offset = 0 /\ p.range = 0

\* A plan of an operation has that operation's fields, and functions around it.
Operates(p, e, q) ==
  p.exprType = "binary" =>
    \E b \in Parts[e] : /\ b.kind \in {"neg", "binary"}
                        /\ \E x \in Transpile(q)[b] : AgreeBut(p, x, {"math"})

\* Its chains are made of the steps of nodes.
AggSteps(e) == {AggStep(b) : b \in {b \in Parts[e] : b.kind = "agg"}}
MathSteps(e) == {MathStep(b) : b \in {b \in Parts[e] : b.kind = "math"}}

Chained(p, e) == p.aggs \in Seq(AggSteps(e)) /\ p.math \in Seq(MathSteps(e))

\* Where its marks come from.
Marked(p, e) ==
  /\ p.fn = "label_join" => \E b \in Parts[e] : b.kind = "label_join"
  /\ IsAbsent(p) => \E b \in Parts[e] : AsksAbsent(b)
  /\ p.isScalar \in BOOLEAN
  /\ p.isScalar /\ e.kind # "number" =>
       \E b \in Parts[e] : b.kind \in Wrapping /\ \E x \in Operands(b) : x.kind = "number"
  /\ e.kind = "number" => p.isScalar

Describes(p, e, q) ==
  IsPlan(p) /\ Reads(p, e, q) /\ Operates(p, e, q) /\ Chained(p, e) /\ Marked(p, e)

LEMMA BlankFields ==
  /\ Blank.exprType = "" /\ Blank.isScalar = FALSE /\ Blank.metric = "" /\ Blank.from = 0 /\ Blank.to = 0
  /\ Blank.offset = 0 /\ Blank.range = 0 /\ Blank.fn = "" /\ Blank.aggs = <<>> /\ Blank.math = <<>>
  /\ Blank.inner = "" /\ Blank.param = 0 /\ Blank.absentEq = NoLabels
  /\ Blank.scalarL = FALSE /\ Blank.scalarR = FALSE /\ Blank.eq = NoLabels
BY DEF Blank

\* The plan of what has no operand, and of an operation, is described.
LEMMA BasesAreDescribed ==
  ASSUME NEW q, IsQuery(q), NEW e \in Exprs, NEW p \in Transpile(q)[e], e.kind \notin Wrapping
  PROVE  Describes(p, e, q)
<1>1. e \in Parts[e] /\ Transpile(q)[e] = TranspileNode(e, q, Transpile(q))
  BY PartsAre, PlansAre
<1>2. e.kind \in {"number", "time", "selector", "over", "subquery", "neg", "binary"}
  BY ExprsAssumption DEF Wrapping
<1>3. \A x : AgreeBut(p, x, {}) => AgreeBut(p, x, {"math"})
  BY DEF AgreeBut
<1>4. AgreeBut(p, p, {"math"})
  BY DEF AgreeBut
<1>5. <<>> \in Seq(AggSteps(e)) /\ <<>> \in Seq(MathSteps(e))
  BY EmptySeq
<1>6. CASE e.kind = "number"
  <2>1. IsPlan(p) /\ AgreeBut(p, Blank, {"isScalar", "val"}) /\ p.isScalar = TRUE
    <3>1. p = Literal(e.v)
      BY <1>1, <1>6 DEF TranspileNode
    <3>2. p.isScalar = TRUE
      BY <3>1, BlankIs DEF Literal, Fields
    <3>3. QED
      BY <3>1, <3>2, BasesAre
  <2>2. /\ p.metric = "" /\ p.from = 0 /\ p.to = 0 /\ p.offset = 0 /\ p.range = 0
        /\ p.exprType = "" /\ p.aggs = <<>> /\ p.math = <<>> /\ p.fn = ""
    BY <2>1, BlankFields DEF AgreeBut, Fields
  <2>3. QED
    BY <1>5, <1>6, <2>1, <2>2 DEF Describes, Reads, Operates, Chained, Marked, IsAbsent
<1>7. CASE e.kind = "time"
  <2>1. IsPlan(p) /\ AgreeBut(p, Blank, {"exprType"}) /\ p.exprType = "time"
    <3>1. p = [Blank EXCEPT !.exprType = "time"]
      BY <1>1, <1>7 DEF TranspileNode
    <3>2. QED
      BY <3>1, BasesAre
  <2>2. /\ p.metric = "" /\ p.from = 0 /\ p.to = 0 /\ p.offset = 0 /\ p.range = 0
        /\ p.aggs = <<>> /\ p.math = <<>> /\ p.fn = "" /\ p.isScalar = FALSE
    BY <2>1, BlankFields DEF AgreeBut, Fields
  <2>3. QED
    BY <1>5, <1>7, <2>1, <2>2 DEF Describes, Reads, Operates, Chained, Marked, IsAbsent
<1>8. CASE e.kind = "selector"
  <2>1. /\ IsPlan(p) /\ AgreeBut(p, Blank, {"exprType", "metric", "eq", "offset", "from", "to"})
        /\ p.exprType = "vector" /\ p.metric = e.metric /\ p.eq = e.eq /\ p.offset = e.offset
        /\ p.from = From(q) - Staleness - e.offset /\ p.to = q.end - e.offset
    <3>1. p = TranspileVectorSelector(e, q)
      BY <1>1, <1>8 DEF TranspileNode
    <3>2. QED
      BY <3>1, BasesAre
  <2>2. /\ p.range = 0 /\ p.aggs = <<>> /\ p.math = <<>> /\ p.fn = "" /\ p.isScalar = FALSE
    <3>1. \A f \in {"range", "aggs", "math", "fn", "isScalar"} : p[f] = Blank[f]
      BY <2>1 DEF AgreeBut, Fields
    <3>2. QED
      BY <3>1, BlankFields
  <2>3. OfLeaf(p, e, q)
    <3>1. e.offset \in Int /\ Staleness \in Nat
      BY <1>8, ExprsAssumption, StalenessAssumption
    <3>2. p.from = From(q) - Staleness - e.offset - p.range
      <4> DEFINE x == From(q) - Staleness - e.offset
      <4>1. x = p.from /\ p.range = 0
        BY <2>1, <2>2
      <4>2. x \in Int
        BY <3>1 DEF From, IsQuery
      <4>3. QED
        BY <4>1, <4>2
    <3>3. QED
      BY <1>8, <2>1, <2>2, <3>2 DEF OfLeaf
  <2>4. QED
    BY <1>1, <1>5, <1>8, <2>1, <2>2, <2>3 DEF Describes, Reads, Operates, Chained, Marked, IsAbsent
<1>9. CASE e.kind = "over"
  <2>1. /\ IsPlan(p)
        /\ AgreeBut(p, Blank, {"exprType", "metric", "eq", "offset", "from", "to", "range", "fn", "param"})
        /\ p.exprType = (IF e.fn = "absent_over_time" THEN "absent" ELSE "call")
        /\ p.metric = e.metric /\ p.eq = e.eq /\ p.offset = e.offset
        /\ p.from = From(q) - Staleness - e.offset - e.range /\ p.to = q.end - e.offset
        /\ p.range = e.range /\ p.fn = e.fn
    <3>1. p = TranspileRangeFunc(e, q)
      BY <1>1, <1>9 DEF TranspileNode
    <3>2. QED
      BY <3>1, BasesAre
  <2>2. p.aggs = <<>> /\ p.math = <<>> /\ p.isScalar = FALSE
    BY <2>1, BlankFields DEF AgreeBut, Fields
  <2>3. OfLeaf(p, e, q)
    BY <1>9, <2>1 DEF OfLeaf
  <2>4. e.fn \notin {"label_join", "absent"}
    BY <1>9, ExprsAssumption DEF WindowFunctions, NeedTwo
  <2>5. IsAbsent(p) => AsksAbsent(e)
    BY <1>9, <2>1, <2>4 DEF IsAbsent, AsksAbsent
  <2>6. p.exprType # "binary"
    BY <2>1
  <2>7. QED
    BY <1>1, <1>5, <1>9, <2>1, <2>2, <2>3, <2>4, <2>5, <2>6 DEF Describes, Reads, Operates, Chained, Marked
<1>10. CASE e.kind = "subquery"
  BY <1>1, <1>10 DEF TranspileNode
<1>11. CASE e.kind \in {"neg", "binary"}
  <2>1. /\ IsPlan(p)
        /\ AgreeBut(p, Blank, {"exprType", "op", "lhs", "rhs", "match", "scalarL", "scalarR", "valL", "valR"})
        /\ p.exprType = "binary"
    <3>1. CASE e.kind = "neg"
      <4>1. p = Negation(e)
        BY <1>1, <3>1 DEF TranspileNode
      <4>2. IsPlan(p) /\ AgreeBut(p, Blank, {"exprType", "op", "lhs", "rhs", "match"}) /\ p.exprType = "binary"
        BY <4>1, BasesAre
      <4>3. QED
        BY <4>2 DEF AgreeBut
    <3>2. CASE e.kind = "binary"
      <4>1. PICK l, r : p = TranspileBinaryExpr(e, l, r)
        BY <1>1, <3>2 DEF TranspileNode
      <4>2. /\ IsPlan(TranspileBinaryExpr(e, l, r))
            /\ AgreeBut(TranspileBinaryExpr(e, l, r), Blank,
                        {"exprType", "op", "lhs", "rhs", "match", "scalarL", "scalarR", "valL", "valR"})
            /\ TranspileBinaryExpr(e, l, r).exprType = "binary"
        BY OperationIs
      <4>3. QED
        BY <4>1, <4>2
    <3>3. QED
      BY <1>11, <3>1, <3>2
  <2>2. /\ p.metric = "" /\ p.from = 0 /\ p.to = 0 /\ p.offset = 0 /\ p.range = 0
        /\ p.aggs = <<>> /\ p.math = <<>> /\ p.fn = "" /\ p.isScalar = FALSE
    BY <2>1, BlankFields DEF AgreeBut, Fields
  <2>3. Operates(p, e, q)
    BY <1>1, <1>4, <1>11 DEF Operates
  <2>4. QED
    BY <1>5, <1>11, <2>1, <2>2, <2>3 DEF Describes, Reads, Chained, Marked, IsAbsent
<1>12. QED
  BY <1>2, <1>6, <1>7, <1>8, <1>9, <1>10, <1>11

\* So is the plan of a node that writes into its operand's.
LEMMA WrapIsDescribed ==
  ASSUME NEW q, NEW e \in Exprs, e.kind \in Wrapping, NEW x, Describes(x, e.arg, q)
  PROVE  Describes(Wrap(e, x), e, q)
<1> DEFINE p == Wrap(e, x)
<1>1. /\ e.arg \in Below(e) /\ Operands(e) = {e.arg} /\ e.arg \in Exprs /\ e \in Parts[e]
      /\ Parts[e.arg] \subseteq Parts[e]
  <2>1. e.arg \in Below(e) /\ Operands(e) = {e.arg}
    BY OperandsAre DEF Wrapping
  <2>2. QED
    BY <2>1, PartsAre DEF Below
<1>2. IsPlan(x)
  BY DEF Describes
<1>3. Written(e, x, p)
  BY <1>2, WrapIs
<1>4. e.kind \in {"agg", "math", "histogram_quantile", "absent", "label_replace", "label_join", "scalar"}
  BY DEF Wrapping
<1> HIDE DEF p
<1>5. /\ p.metric = x.metric /\ p.eq = x.eq /\ p.offset = x.offset /\ p.range = x.range
      /\ p.from = x.from /\ p.to = x.to /\ p.isScalar = x.isScalar
  BY <1>3, <1>4 DEF Written, AgreeBut, Fields
<1>6. Reads(p, e, q)
  <2>1. Reads(x, e.arg, q)
    BY DEF Describes
  <2>2. \A b : OfLeaf(x, b, q) => OfLeaf(p, b, q)
    BY <1>5 DEF OfLeaf
  <2>3. QED
    BY <1>1, <1>5, <2>1, <2>2 DEF Reads
<1>7. Operates(p, e, q)
  <2>1. SUFFICES ASSUME p.exprType = "binary"
                 PROVE  \E b \in Parts[e] : /\ b.kind \in {"neg", "binary"}
                                            /\ \E y \in Transpile(q)[b] : AgreeBut(p, y, {"math"})
    BY DEF Operates
  <2>2. e.kind = "math" /\ AgreeBut(p, x, {"math"})
    BY <1>3, <1>4, <2>1 DEF Written
  <2>3. x.exprType = "binary"
    BY <2>1, <2>2 DEF AgreeBut, Fields
  <2>4. PICK b \in Parts[e.arg] : /\ b.kind \in {"neg", "binary"}
                                  /\ \E y \in Transpile(q)[b] : AgreeBut(x, y, {"math"})
    BY <2>3 DEF Describes, Operates
  <2>5. \A y : AgreeBut(x, y, {"math"}) => AgreeBut(p, y, {"math"})
    BY <2>2 DEF AgreeBut
  <2>6. QED
    BY <1>1, <2>4, <2>5
<1>8. Chained(p, e)
  <2>1. /\ x.aggs \in Seq(AggSteps(e.arg)) /\ x.math \in Seq(MathSteps(e.arg))
    BY DEF Describes, Chained
  <2>2. AggSteps(e.arg) \subseteq AggSteps(e) /\ MathSteps(e.arg) \subseteq MathSteps(e)
    BY <1>1 DEF AggSteps, MathSteps
  <2>3. x.aggs \in Seq(AggSteps(e)) /\ x.math \in Seq(MathSteps(e))
    <3> DEFINE A == AggSteps(e)
               M == MathSteps(e)
               AA == AggSteps(e.arg)
               MM == MathSteps(e.arg)
    <3>1. AA \subseteq A /\ MM \subseteq M /\ x.aggs \in Seq(AA) /\ x.math \in Seq(MM)
      BY <2>1, <2>2
    <3> HIDE DEF A, M, AA, MM
    <3>2. x.aggs \in Seq(A) /\ x.math \in Seq(M)
      BY <3>1
    <3>3. QED
      BY <3>2 DEF A, M
  <2>4. e.kind = "agg" => AggStep(e) \in AggSteps(e)
    BY <1>1 DEF AggSteps
  <2>5. e.kind = "math" => MathStep(e) \in MathSteps(e)
    BY <1>1 DEF MathSteps
  <2>6. CASE e.kind = "agg"
    <3>1. p.math = x.math /\ p.aggs = Append(x.aggs, AggStep(e))
      BY <1>3, <2>6 DEF Written, AgreeBut, Fields
    <3>2. p.aggs \in Seq(AggSteps(e))
      BY <2>3, <2>4, <2>6, <3>1, AppendProperties
    <3>3. QED
      BY <2>3, <3>1, <3>2 DEF Chained
  <2>7. CASE e.kind = "math"
    <3>1. p.aggs = x.aggs /\ p.math = Append(x.math, MathStep(e))
      BY <1>3, <2>7 DEF Written, AgreeBut, Fields
    <3>2. p.math \in Seq(MathSteps(e))
      BY <2>3, <2>5, <2>7, <3>1, AppendProperties
    <3>3. QED
      BY <2>3, <3>1, <3>2 DEF Chained
  <2>8. CASE e.kind \notin {"agg", "math"}
    <3>1. p.aggs = x.aggs /\ p.math = x.math
      BY <1>3, <1>4, <2>8 DEF Written, AgreeBut, Fields
    <3>2. QED
      BY <2>3, <3>1 DEF Chained
  <2>9. QED
    BY <2>6, <2>7, <2>8
<1>9. Marked(p, e)
  <2>1. Marked(x, e.arg)
    BY DEF Describes
  <2>2. p.fn = "label_join" => \E b \in Parts[e] : b.kind = "label_join"
    <3>1. p.fn = "label_join" => x.fn = "label_join" \/ e.kind = "label_join"
      BY <1>3, <1>4 DEF Written, AgreeBut, Fields
    <3>2. QED
      BY <1>1, <2>1, <3>1 DEF Marked
  <2>3. IsAbsent(p) => \E b \in Parts[e] : AsksAbsent(b)
    <3>1. IsAbsent(p) => IsAbsent(x) \/ e.kind = "absent"
      BY <1>3, <1>4 DEF Written, AgreeBut, Fields, IsAbsent
    <3>2. e.kind = "absent" => AsksAbsent(e)
      BY DEF AsksAbsent
    <3>3. QED
      BY <1>1, <2>1, <3>1, <3>2 DEF Marked
  <2>4. p.isScalar => \E b \in Parts[e] : b.kind \in Wrapping /\ \E y \in Operands(b) : y.kind = "number"
    <3>1. CASE e.arg.kind = "number"
      BY <1>1, <3>1
    <3>2. CASE e.arg.kind # "number"
      BY <1>1, <1>5, <2>1, <3>2 DEF Marked
    <3>3. QED
      BY <3>1, <3>2
  <2>5. QED
    BY <1>4, <1>5, <2>1, <2>2, <2>3, <2>4 DEF Marked
<1>10. QED
  BY <1>3, <1>6, <1>7, <1>8, <1>9 DEF Describes, Written, p

LEMMA WrappedIs ==
  ASSUME NEW q, NEW e \in Exprs, e.kind \in Wrapping
  PROVE  Transpile(q)[e] = {Wrap(e, x) : x \in Transpile(q)[e.arg]} /\ e.arg \in Below(e) /\ e.arg \in Exprs
<1>1. Transpile(q)[e] = TranspileNode(e, q, Transpile(q))
  BY PlansAre
<1>2. TranspileNode(e, q, Transpile(q)) = {Wrap(e, x) : x \in Transpile(q)[e.arg]}
  BY DEF TranspileNode, Wrapping
<1>3. e.arg \in Below(e) /\ e.arg \in Exprs
  BY OperandsAre DEF Wrapping
<1>4. QED
  BY <1>1, <1>2, <1>3

LEMMA PlansAreDescribed ==
  ASSUME NEW q, IsQuery(q), NEW e \in Exprs, NEW p \in Transpile(q)[e]
  PROVE  Describes(p, e, q)
<1> DEFINE Good == {x \in Exprs : \A y \in Transpile(q)[x] : Describes(y, x, q)}
<1>1. ASSUME NEW x \in Exprs, Below(x) \subseteq Good  PROVE x \in Good
  <2>1. SUFFICES ASSUME NEW y \in Transpile(q)[x]  PROVE Describes(y, x, q)
    OBVIOUS
  <2>2. CASE x.kind \in Wrapping
    <3>1. PICK z \in Transpile(q)[x.arg] : y = Wrap(x, z)
      BY <2>2, WrappedIs
    <3>2. Describes(z, x.arg, q)
      BY <1>1, <2>2, WrappedIs
    <3>3. QED
      BY <2>2, <3>1, <3>2, WrapIsDescribed
  <2>3. CASE x.kind \notin Wrapping
    BY <2>3, BasesAreDescribed
  <2>4. QED
    BY <2>2, <2>3
<1> HIDE DEF Good
<1>2. \A x \in Exprs : x \in Good
  BY <1>1, TreeInduction
<1>3. QED
  BY <1>2 DEF Good

\* The plans of an expression for two queries differ in what they fetch only; for one query
\* there is one.
LEMMA PlansAgree ==
  ASSUME NEW q, NEW r, NEW e \in Exprs, NEW a \in Transpile(q)[e], NEW b \in Transpile(r)[e]
  PROVE  IsPlan(a) /\ IsPlan(b) /\ AgreeBut(a, b, {"from", "to"}) /\ (q = r => a = b)
<1> DEFINE Same(x, y) == IsPlan(x) /\ IsPlan(y) /\ AgreeBut(x, y, {"from", "to"}) /\ (q = r => x = y)
           Good == {z \in Exprs : \A x \in Transpile(q)[z], y \in Transpile(r)[z] : Same(x, y)}
<1>1. ASSUME NEW z \in Exprs, Below(z) \subseteq Good  PROVE z \in Good
  <2>1. SUFFICES ASSUME NEW x \in Transpile(q)[z], NEW y \in Transpile(r)[z]  PROVE Same(x, y)
    OBVIOUS
  <2>2. CASE z.kind \in Wrapping
    <3>1. PICK u \in Transpile(q)[z.arg] : x = Wrap(z, u)
      BY <2>2, WrappedIs
    <3>2. PICK w \in Transpile(r)[z.arg] : y = Wrap(z, w)
      BY <2>2, WrappedIs
    <3>3. Same(u, w)
      BY <1>1, <2>2, WrappedIs
    <3>4. Written(z, u, x) /\ Written(z, w, y)
      BY <2>2, <3>1, <3>2, <3>3, WrapIs
    <3> HIDE DEF Good
    <3>5. AgreeBut(x, y, {"from", "to"})
      <4>1. z.kind \in {"agg", "math", "histogram_quantile", "absent", "label_replace", "label_join", "scalar"}
        BY <2>2 DEF Wrapping
      <4>2. u.aggs = w.aggs /\ u.math = w.math /\ u.fn = w.fn /\ u.absentEq = w.absentEq
        BY <3>3 DEF AgreeBut, Fields
      <4>3. AgreeBut(u, w, {"from", "to"})
        BY <3>3
      <4> HIDE DEF Same
      <4>4. CASE z.kind = "agg"
        BY <3>4, <4>2, <4>3, <4>4 DEF Written, AgreeBut, Fields
      <4>5. CASE z.kind = "math"
        BY <3>4, <4>2, <4>3, <4>5 DEF Written, AgreeBut, Fields
      <4>6. CASE z.kind = "histogram_quantile"
        BY <3>4, <4>2, <4>3, <4>6 DEF Written, AgreeBut, Fields
      <4>7. CASE z.kind = "absent"
        BY <3>4, <4>2, <4>3, <4>7 DEF Written, AgreeBut, Fields
      <4>8. CASE z.kind \in {"label_replace", "label_join"}
        BY <3>4, <4>3, <4>8 DEF Written, AgreeBut, Fields
      <4>9. CASE z.kind = "scalar"
        BY <3>4, <4>3, <4>9 DEF Written, AgreeBut, Fields
      <4>10. QED
        BY <4>1, <4>4, <4>5, <4>6, <4>7, <4>8, <4>9
    <3>6. QED
      BY <3>1, <3>2, <3>3, <3>4, <3>5 DEF Written
  <2>3. CASE z.kind \notin Wrapping
    <3>1. x \in TranspileNode(z, q, Transpile(q)) /\ y \in TranspileNode(z, r, Transpile(r))
      BY PlansAre
    <3>2. z.kind \in {"number", "time", "selector", "over", "subquery", "neg", "binary"}
      BY <2>3, ExprsAssumption DEF Wrapping
    <3> HIDE DEF Good, Same
    <3>3. \A u, w : IsPlan(u) /\ u = w => Same(u, w)
      BY DEF Same, AgreeBut
    <3>4. CASE z.kind = "number"
      <4>1. x = Literal(z.v) /\ y = Literal(z.v)
        BY <3>1, <3>4 DEF TranspileNode
      <4>2. QED
        BY <4>1, <3>3, BasesAre
    <3>5. CASE z.kind = "time"
      <4>1. x = [Blank EXCEPT !.exprType = "time"] /\ y = [Blank EXCEPT !.exprType = "time"]
        BY <3>1, <3>5 DEF TranspileNode
      <4>2. IsPlan([Blank EXCEPT !.exprType = "time"])
        BY BasesAre
      <4>3. QED
        BY <4>1, <4>2, <3>3
    <3>6. CASE z.kind = "selector"
      <4>1. x = TranspileVectorSelector(z, q) /\ y = TranspileVectorSelector(z, r)
        BY <3>1, <3>6 DEF TranspileNode
      <4>2. /\ IsPlan(x) /\ AgreeBut(x, Blank, {"exprType", "metric", "eq", "offset", "from", "to"})
            /\ x.exprType = "vector" /\ x.metric = z.metric /\ x.eq = z.eq /\ x.offset = z.offset
        BY <4>1, BasesAre
      <4>3. /\ IsPlan(y) /\ AgreeBut(y, Blank, {"exprType", "metric", "eq", "offset", "from", "to"})
            /\ y.exprType = "vector" /\ y.metric = z.metric /\ y.eq = z.eq /\ y.offset = z.offset
        BY <4>1, BasesAre
      <4>4. QED
        BY <4>1, <4>2, <4>3 DEF Same, AgreeBut
    <3>7. CASE z.kind = "over"
      <4>1. x = TranspileRangeFunc(z, q) /\ y = TranspileRangeFunc(z, r)
        BY <3>1, <3>7 DEF TranspileNode
      <4>2. /\ IsPlan(x)
            /\ AgreeBut(x, Blank, {"exprType", "metric", "eq", "offset", "from", "to", "range",
                                   "fn", "param"})
            /\ x.exprType = (IF z.fn = "absent_over_time" THEN "absent" ELSE "call")
            /\ x.metric = z.metric /\ x.eq = z.eq /\ x.offset = z.offset
            /\ x.range = z.range /\ x.fn = z.fn /\ x.param = z.param
        BY <4>1, BasesAre
      <4>3. /\ IsPlan(y)
            /\ AgreeBut(y, Blank, {"exprType", "metric", "eq", "offset", "from", "to", "range",
                                   "fn", "param"})
            /\ y.exprType = (IF z.fn = "absent_over_time" THEN "absent" ELSE "call")
            /\ y.metric = z.metric /\ y.eq = z.eq /\ y.offset = z.offset
            /\ y.range = z.range /\ y.fn = z.fn /\ y.param = z.param
        BY <4>1, BasesAre
      <4>4. QED
        BY <4>1, <4>2, <4>3 DEF Same, AgreeBut
    <3>8. CASE z.kind = "subquery"
      BY <3>1, <3>8 DEF TranspileNode
    <3>9. CASE z.kind = "neg"
      <4>1. x = Negation(z) /\ y = Negation(z)
        BY <3>1, <3>9 DEF TranspileNode
      <4>2. QED
        BY <4>1, <3>3, BasesAre
    <3>10. CASE z.kind = "binary"
      <4>1. PICK l \in Transpile(q)[z.lhs], s \in Transpile(q)[z.rhs] : x = TranspileBinaryExpr(z, l, s)
        BY <3>1, <3>10 DEF TranspileNode
      <4>2. PICK m \in Transpile(r)[z.lhs], t \in Transpile(r)[z.rhs] : y = TranspileBinaryExpr(z, m, t)
        BY <3>1, <3>10 DEF TranspileNode
      <4>3. Same(l, m) /\ Same(s, t)
        BY <1>1, <3>10, OperandsAre DEF Good
      <4>4. l.isScalar = m.isScalar /\ l.val = m.val /\ s.isScalar = t.isScalar /\ s.val = t.val
        BY <4>3 DEF Same, AgreeBut, Fields
      <4>5. x = y
        BY <4>1, <4>2, <4>4 DEF TranspileBinaryExpr
      <4>6. IsPlan(x)
        BY <4>1, OperationIs
      <4>7. QED
        BY <4>5, <4>6, <3>3
    <3>11. QED
      BY <3>2, <3>4, <3>5, <3>6, <3>7, <3>8, <3>9, <3>10
  <2>4. QED
    BY <2>2, <2>3
<1> HIDE DEF Good
<1>2. \A z \in Exprs : z \in Good
  BY <1>1, TreeInduction
<1>3. QED
  BY <1>2 DEF Good

\* The operation of which a plan is.
LEMMA OperationOf ==
  ASSUME NEW q, IsQuery(q), NEW e \in Exprs, NEW p \in Transpile(q)[e], p.exprType = "binary"
  PROVE  \E b \in Parts[e] :
           /\ b \in Exprs /\ p.lhs \in Below(b) /\ p.rhs \in Below(b)
           /\ \/ /\ b.kind = "neg"
                 /\ AgreeBut(p, Negation(b), {"math"})
                 /\ p.lhs = Zero /\ p.rhs = b.arg
              \/ /\ b.kind = "binary"
                 /\ p.lhs = b.lhs /\ p.rhs = b.rhs
                 /\ \E l \in Transpile(q)[b.lhs], r \in Transpile(q)[b.rhs] :
                      AgreeBut(p, TranspileBinaryExpr(b, l, r), {"math"})
<1>1. Operates(p, e, q)
  BY PlansAreDescribed DEF Describes
<1>2. PICK b \in Parts[e] : /\ b.kind \in {"neg", "binary"}
                            /\ \E x \in Transpile(q)[b] : AgreeBut(p, x, {"math"})
  BY <1>1 DEF Operates
<1>3. PICK x \in Transpile(q)[b] : AgreeBut(p, x, {"math"})
  BY <1>2
<1>4. b \in Exprs
  BY PartsAre
<1>5. x \in TranspileNode(b, q, Transpile(q))
  BY <1>4, PlansAre
<1>6. p.lhs = x.lhs /\ p.rhs = x.rhs
  BY <1>3 DEF AgreeBut, Fields
<1>7. CASE b.kind = "neg"
  <2>1. x = Negation(b)
    BY <1>5, <1>7 DEF TranspileNode
  <2>2. x.lhs = Zero /\ x.rhs = b.arg
    BY <2>1, BasesAre
  <2>3. Zero \in Below(b) /\ b.arg \in Below(b)
    BY <1>4, <1>7, OperandsAre
  <2>4. QED
    BY <1>3, <1>4, <1>6, <1>7, <2>1, <2>2, <2>3
<1>8. CASE b.kind = "binary"
  <2>1. PICK l \in Transpile(q)[b.lhs], r \in Transpile(q)[b.rhs] : x = TranspileBinaryExpr(b, l, r)
    BY <1>5, <1>8 DEF TranspileNode
  <2>2. x.lhs = b.lhs /\ x.rhs = b.rhs
    BY <2>1, OperationIs
  <2>3. b.lhs \in Below(b) /\ b.rhs \in Below(b)
    BY <1>4, <1>8, OperandsAre
  <2>4. QED
    BY <1>3, <1>4, <1>6, <1>8, <2>1, <2>2, <2>3
<1>9. QED
  BY <1>2, <1>7, <1>8

LEMMA ResultsAre ==
  ASSUME NEW q, IsQuery(q)
  PROVE  \A e \in Exprs : Results(q)[e] = UNION {EvalPlan(p, q, Results(q)) : p \in Transpile(q)[e]}
<1> DEFINE k == <<"results", q>>
           N(e, f) == UNION {EvalPlan(p, q, f) : p \in Transpile(q)[e]}
<1>1. \A e, f : Node(k, e, f) = N(e, f)
  BY DEF Node
<1>2. ASSUME NEW e \in Exprs, NEW f, NEW g, \A x \in Below(e) : f[x] = g[x]
      PROVE  N(e, f) = N(e, g)
  <2>1. ASSUME NEW p \in Transpile(q)[e]  PROVE EvalPlan(p, q, f) = EvalPlan(p, q, g)
    <3>1. CASE p.exprType # "binary"
      BY <3>1 DEF EvalPlan
    <3>2. CASE p.exprType = "binary"
      <4>1. PICK b \in Parts[e] : p.lhs \in Below(b) /\ p.rhs \in Below(b)
        BY <3>2, OperationOf
      <4>2. p.lhs \in Below(e) /\ p.rhs \in Below(e)
        BY <4>1, PartsAre
      <4>3. f[p.lhs] = g[p.lhs] /\ f[p.rhs] = g[p.rhs]
        BY <1>2, <4>2
      <4>4. QED
        BY <4>3 DEF EvalPlan
    <3>3. QED
      BY <3>1, <3>2
  <2>2. QED
    BY <2>1
<1>3. Local(k)
  <2> HIDE DEF k, N
  <2>1. QED
    BY <1>1, <1>2 DEF Local
<1>4. \E F : F = [e \in Exprs |-> N(e, F)]
  <2>1. PICK F : F = [e \in Exprs |-> Node(k, e, F)]
    BY <1>3, RecursionIs
  <2> HIDE DEF k, N
  <2>2. F = [e \in Exprs |-> N(e, F)]
    BY <1>1, <2>1
  <2>3. QED
    BY <2>2
<1>5. Results(q) = CHOOSE F : F = [e \in Exprs |-> N(e, F)]
  BY DEF Results
<1> HIDE DEF k, N
<1>6. Results(q) = [e \in Exprs |-> N(e, Results(q))]
  BY <1>4, <1>5
<1>7. QED
  BY <1>6 DEF N

LEMMA MeaningsAre ==
  ASSUME NEW t
  PROVE  \A e \in Exprs : Meaning(t)[e] = MeaningNode(e, t, Meaning(t))
<1> DEFINE k == <<"meaning", t>>
<1>1. \A e, f : Node(k, e, f) = MeaningNode(e, t, f)
  BY DEF Node
<1>2. ASSUME NEW e \in Exprs, NEW f, NEW g, \A x \in Below(e) : f[x] = g[x]
      PROVE  MeaningNode(e, t, f) = MeaningNode(e, t, g)
  <2>1. e.kind \in {"number", "time", "selector", "over", "subquery", "neg", "binary", "agg",
                    "math", "label_replace", "label_join", "scalar", "absent", "histogram_quantile"}
    BY ExprsAssumption
  <2>2. CASE e.kind \in {"number", "time", "subquery"}
    BY <2>2 DEF MeaningNode
  <2>3. CASE e.kind = "selector"
    BY <2>3 DEF MeaningNode
  <2>4. CASE e.kind = "over"
    BY <2>4 DEF MeaningNode
  <2>5. CASE e.kind = "binary"
    <3>1. f[e.lhs] = g[e.lhs] /\ f[e.rhs] = g[e.rhs]
      BY <2>5, <1>2, OperandsAre
    <3>2. QED
      BY <2>5, <3>1 DEF MeaningNode
  <2>6. CASE e.kind \in {"neg", "agg", "math", "label_replace", "label_join", "scalar", "absent",
                         "histogram_quantile"}
    <3>1. f[e.arg] = g[e.arg]
      BY <2>6, <1>2, OperandsAre
    <3>2. QED
      BY <2>6, <3>1 DEF MeaningNode
  <2>7. QED
    BY <2>1, <2>2, <2>3, <2>4, <2>5, <2>6
<1>3. Local(k)
  BY <1>1, <1>2 DEF Local
<1>4. \E F : F = [e \in Exprs |-> MeaningNode(e, t, F)]
  <2>1. PICK F : F = [e \in Exprs |-> Node(k, e, F)]
    BY <1>3, RecursionIs
  <2> HIDE DEF k
  <2>2. F = [e \in Exprs |-> MeaningNode(e, t, F)]
    BY <1>1, <2>1
  <2>3. QED
    BY <2>2
<1>5. Meaning(t) = CHOOSE F : F = [e \in Exprs |-> MeaningNode(e, t, F)]
  BY DEF Meaning
<1> HIDE DEF k
<1>6. Meaning(t) = [e \in Exprs |-> MeaningNode(e, t, Meaning(t))]
  BY <1>4, <1>5
<1>7. QED
  BY <1>6

-----------------------------------------------------------------------------
(***************************************************************************)
(* Chains of steps.                                                        *)
(***************************************************************************)

\* A step of one of the chains: of aggregations, or of functions for a range or an instant.
Step(k, rows, s) ==
  CASE k[1] = "agg"  -> ApplyOneAggStep(rows, s)
    [] k[1] = "math" -> ApplyMath(rows, s, k[2])

AggChain == <<"agg">>
MathChain(ranged) == <<"math", ranged>>

Chain(k, rows, seq) ==
  CASE k[1] = "agg"  -> ApplyAggChain(rows, seq)
    [] k[1] = "math" -> ApplyMathChain(rows, seq, k[2])

\* f has what each of the first n steps leaves.
After(k, rows, seq, n, f) ==
  f = [i \in 0..n |-> IF i = 0 THEN rows ELSE Step(k, f[i - 1], seq[i])]

LEMMA AfterIs ==
  ASSUME NEW k, NEW rows, NEW seq, NEW n \in Nat
  PROVE  /\ \E f : After(k, rows, seq, n, f)
         /\ \A f, g : After(k, rows, seq, n, f) /\ After(k, rows, seq, n, g) => f = g
<1> DEFINE S(r, i) == Step(k, r, seq[i])
<1>1. \A m, f : After(k, rows, seq, m, f) <=> f = [i \in 0..m |-> IF i = 0 THEN rows ELSE S(f[i - 1], i)]
  BY DEF After
<1> HIDE DEF S
<1>2. \E f : After(k, rows, seq, n, f)
  <2> DEFINE T == {m \in Nat : \E f : f = [i \in 0..m |-> IF i = 0 THEN rows ELSE S(f[i - 1], i)]}
  <2>1. 0 \in T
    <3> DEFINE f == [i \in 0..0 |-> rows]
    <3>1. f = [i \in 0..0 |-> IF i = 0 THEN rows ELSE S(f[i - 1], i)]
      OBVIOUS
    <3>2. QED
      BY <3>1
  <2>2. ASSUME NEW m \in Nat, m \in T  PROVE m + 1 \in T
    <3>1. PICK f : f = [i \in 0..m |-> IF i = 0 THEN rows ELSE S(f[i - 1], i)]
      BY <2>2
    <3> DEFINE g == [i \in 0..(m + 1) |-> IF i = m + 1 THEN S(f[m], m + 1) ELSE f[i]]
    <3>2. ASSUME NEW i \in 0..(m + 1)  PROVE g[i] = IF i = 0 THEN rows ELSE S(g[i - 1], i)
      <4>1. CASE i = m + 1
        <5>1. i # 0 /\ i - 1 = m /\ m \in 0..(m + 1) /\ m # m + 1
          BY <4>1
        <5>2. g[i - 1] = f[m] /\ g[i] = S(f[m], m + 1)
          BY <4>1, <5>1
        <5>3. QED
          BY <4>1, <5>1, <5>2
      <4>2. CASE i # m + 1
        <5>1. i \in 0..m /\ (i # 0 => i - 1 \in 0..m /\ i - 1 \in 0..(m + 1) /\ i - 1 # m + 1)
          BY <4>2
        <5>2. g[i] = f[i] /\ (i # 0 => g[i - 1] = f[i - 1])
          BY <4>2, <5>1
        <5>3. f[i] = IF i = 0 THEN rows ELSE S(f[i - 1], i)
          BY <3>1, <5>1
        <5>4. QED
          BY <5>2, <5>3
      <4>3. QED
        BY <4>1, <4>2
    <3>3. g = [i \in 0..(m + 1) |-> g[i]]
      OBVIOUS
    <3> HIDE DEF g
    <3>4. g = [i \in 0..(m + 1) |-> IF i = 0 THEN rows ELSE S(g[i - 1], i)]
      BY <3>2, <3>3
    <3>5. QED
      BY <3>4
  <2> HIDE DEF T
  <2>3. \A m \in Nat : m \in T
    BY <2>1, <2>2, EveryNumber
  <2>4. QED
    BY <1>1, <2>3 DEF T
<1>3. ASSUME NEW f, NEW g, After(k, rows, seq, n, f), After(k, rows, seq, n, g)  PROVE f = g
  <2> DEFINE T == {m \in Nat : m <= n => f[m] = g[m]}
  <2>1. /\ f = [i \in 0..n |-> IF i = 0 THEN rows ELSE S(f[i - 1], i)]
        /\ g = [i \in 0..n |-> IF i = 0 THEN rows ELSE S(g[i - 1], i)]
    BY <1>1, <1>3
  <2>2. 0 \in T
    BY <2>1
  <2>3. ASSUME NEW m \in Nat, m \in T  PROVE m + 1 \in T
    <3>1. CASE m + 1 <= n
      <4>1. m + 1 \in 0..n /\ m + 1 # 0 /\ (m + 1) - 1 = m /\ f[m] = g[m]
        BY <2>3, <3>1
      <4>2. f[m + 1] = S(f[m], m + 1) /\ g[m + 1] = S(g[m], m + 1)
        BY <2>1, <4>1
      <4>3. QED
        BY <4>1, <4>2
    <3>2. CASE ~(m + 1 <= n)
      BY <3>2
    <3>3. QED
      BY <3>1, <3>2
  <2> HIDE DEF T
  <2>4. \A m \in Nat : m \in T
    BY <2>2, <2>3, EveryNumber
  <2>5. \A m \in 0..n : f[m] = g[m]
    BY <2>4 DEF T
  <2>6. QED
    BY <2>1, <2>5
<1>4. QED
  BY <1>2, <1>3

\* A chain's result is what its last step leaves.
LEMMA ChainIs ==
  ASSUME NEW k, k[1] \in {"agg", "math"}, NEW rows, NEW seq, Len(seq) \in Nat
  PROVE  \E f : /\ After(k, rows, seq, Len(seq), f)
                /\ f[0] = rows /\ \A i \in 1..Len(seq) : f[i] = Step(k, f[i - 1], seq[i])
                /\ Chain(k, rows, seq) = f[Len(seq)]
<1>1. PICK f : After(k, rows, seq, Len(seq), f)
  BY AfterIs
<1>2. \A g : After(k, rows, seq, Len(seq), g) => g = f
  BY <1>1, AfterIs
<1>3. f[0] = rows /\ \A i \in 1..Len(seq) : f[i] = Step(k, f[i - 1], seq[i])
  <2>1. f = [i \in 0..Len(seq) |-> IF i = 0 THEN rows ELSE Step(k, f[i - 1], seq[i])]
    BY <1>1 DEF After
  <2>2. QED
    BY <2>1
<1>4. Chain(k, rows, seq) = f[Len(seq)]
  <2>1. CASE k[1] = "agg"
    <3>1. \A r, s : Step(k, r, s) = ApplyOneAggStep(r, s)
      BY <2>1 DEF Step
    <3>2. \A g : After(k, rows, seq, Len(seq), g) <=>
                   g = [i \in 0..Len(seq) |-> IF i = 0 THEN rows ELSE ApplyOneAggStep(g[i - 1], seq[i])]
      BY <3>1 DEF After
    <3>3. f = CHOOSE g : g = [i \in 0..Len(seq) |-> IF i = 0 THEN rows
                                                    ELSE ApplyOneAggStep(g[i - 1], seq[i])]
      BY <1>1, <1>2, <3>2
    <3>4. QED
      BY <2>1, <3>3 DEF Chain, ApplyAggChain
  <2>2. CASE k[1] = "math"
    <3>1. \A r, s : Step(k, r, s) = ApplyMath(r, s, k[2])
      BY <2>2 DEF Step
    <3>2. \A g : After(k, rows, seq, Len(seq), g) <=>
                   g = [i \in 0..Len(seq) |-> IF i = 0 THEN rows ELSE ApplyMath(g[i - 1], seq[i], k[2])]
      BY <3>1 DEF After
    <3>3. f = CHOOSE g : g = [i \in 0..Len(seq) |-> IF i = 0 THEN rows
                                                    ELSE ApplyMath(g[i - 1], seq[i], k[2])]
      BY <1>1, <1>2, <3>2
    <3>4. QED
      BY <2>2, <3>3 DEF Chain, ApplyMathChain
  <2>3. QED
    BY <2>1, <2>2
<1>5. QED
  BY <1>1, <1>3, <1>4

\* No step leaves the rows as they are, and one more comes after all others.
LEMMA ChainSteps ==
  ASSUME NEW k, k[1] \in {"agg", "math"}, NEW rows
  PROVE  /\ Chain(k, rows, <<>>) = rows
         /\ \A X : \A seq \in Seq(X), a \in X :
              Chain(k, rows, Append(seq, a)) = Step(k, Chain(k, rows, seq), a)
<1>1. Chain(k, rows, <<>>) = rows
  <2> DEFINE e == <<>>
             n == Len(e)
  <2>1. n = 0
    OBVIOUS
  <2> HIDE DEF e
  <2>2. n \in Nat
    BY <2>1
  <2>3. PICK f : f[0] = rows /\ Chain(k, rows, e) = f[Len(e)]
    BY <2>2, ChainIs
  <2>4. Chain(k, rows, e) = rows
    BY <2>1, <2>3
  <2>5. QED
    BY <2>4 DEF e
<1>2. ASSUME NEW X, NEW seq \in Seq(X), NEW a \in X
      PROVE  Chain(k, rows, Append(seq, a)) = Step(k, Chain(k, rows, seq), a)
  <2> DEFINE n == Len(seq)
             more == Append(seq, a)
  <2>1. n \in Nat /\ Len(more) = n + 1 /\ more[n + 1] = a /\ \A i \in 1..n : more[i] = seq[i]
    BY AppendProperties, LenProperties
  <2> HIDE DEF n, more
  <2>2. PICK f : After(k, rows, seq, n, f) /\ Chain(k, rows, seq) = f[n]
    BY <2>1, ChainIs DEF n
  <2>3. PICK g : /\ After(k, rows, more, n + 1, g)
                 /\ \A i \in 1..(n + 1) : g[i] = Step(k, g[i - 1], more[i])
                 /\ Chain(k, rows, more) = g[n + 1]
    <3>1. Len(more) = n + 1 /\ n + 1 \in Nat
      BY <2>1
    <3>2. QED
      BY <3>1, ChainIs
  <2> DEFINE h == [i \in 0..n |-> g[i]]
  <2>4. After(k, rows, seq, n, h)
    <3>1. g = [i \in 0..(n + 1) |-> IF i = 0 THEN rows ELSE Step(k, g[i - 1], more[i])]
      BY <2>3 DEF After
    <3>2. ASSUME NEW i \in 0..n  PROVE h[i] = IF i = 0 THEN rows ELSE Step(k, h[i - 1], seq[i])
      <4>1. i \in 0..(n + 1) /\ (i # 0 => i \in 1..n /\ i - 1 \in 0..n)
        BY <2>1
      <4>2. g[i] = IF i = 0 THEN rows ELSE Step(k, g[i - 1], more[i])
        BY <3>1, <4>1
      <4>3. h[i] = g[i] /\ (i # 0 => h[i - 1] = g[i - 1] /\ more[i] = seq[i])
        BY <2>1, <4>1
      <4>4. QED
        BY <4>2, <4>3
    <3>3. h = [i \in 0..n |-> h[i]]
      OBVIOUS
    <3> HIDE DEF h
    <3>4. QED
      BY <3>2, <3>3 DEF After
  <2>5. f = h
    <3> HIDE DEF h
    <3>1. QED
      BY <2>1, <2>2, <2>4, AfterIs
  <2>6. n \in 0..n /\ n + 1 \in 1..(n + 1) /\ (n + 1) - 1 = n
    BY <2>1
  <2>7. f[n] = g[n]
    BY <2>5, <2>6
  <2>8. g[n + 1] = Step(k, g[n], a)
    BY <2>1, <2>3, <2>6
  <2>9. QED
    BY <2>2, <2>3, <2>7, <2>8 DEF more
<1>3. QED
  BY <1>1, <1>2

\* The two chains.
LEMMA ChainsAre ==
  /\ \A rows : ApplyAggChain(rows, <<>>) = rows
  /\ \A rows, X : \A seq \in Seq(X), a \in X :
       ApplyAggChain(rows, Append(seq, a)) = ApplyOneAggStep(ApplyAggChain(rows, seq), a)
  /\ \A rows, ranged : ApplyMathChain(rows, <<>>, ranged) = rows
  /\ \A rows, ranged, X : \A seq \in Seq(X), a \in X :
       ApplyMathChain(rows, Append(seq, a), ranged) = ApplyMath(ApplyMathChain(rows, seq, ranged), a, ranged)
<1>1. AggChain[1] = "agg" /\ \A ranged : MathChain(ranged)[1] = "math" /\ MathChain(ranged)[2] = ranged
  BY DEF AggChain, MathChain
<1>2. /\ \A rows, seq : Chain(AggChain, rows, seq) = ApplyAggChain(rows, seq)
      /\ \A rows, s : Step(AggChain, rows, s) = ApplyOneAggStep(rows, s)
  BY <1>1 DEF Chain, Step
<1>3. /\ \A rows, seq, ranged : Chain(MathChain(ranged), rows, seq) = ApplyMathChain(rows, seq, ranged)
      /\ \A rows, s, ranged : Step(MathChain(ranged), rows, s) = ApplyMath(rows, s, ranged)
  BY <1>1 DEF Chain, Step
<1>4. /\ \A rows : Chain(AggChain, rows, <<>>) = rows
      /\ \A rows, X : \A seq \in Seq(X), a \in X :
           Chain(AggChain, rows, Append(seq, a)) = Step(AggChain, Chain(AggChain, rows, seq), a)
  BY <1>1, ChainSteps
<1>5. ASSUME NEW ranged
      PROVE  /\ \A rows : ApplyMathChain(rows, <<>>, ranged) = rows
             /\ \A rows, X : \A seq \in Seq(X), a \in X :
                  ApplyMathChain(rows, Append(seq, a), ranged)
                    = ApplyMath(ApplyMathChain(rows, seq, ranged), a, ranged)
  <2> DEFINE k == MathChain(ranged)
  <2>1. /\ k[1] \in {"agg", "math"}
        /\ \A rows, seq : Chain(k, rows, seq) = ApplyMathChain(rows, seq, ranged)
        /\ \A rows, s : Step(k, rows, s) = ApplyMath(rows, s, ranged)
    BY <1>1, <1>3
  <2> HIDE DEF k
  <2>2. /\ \A rows : Chain(k, rows, <<>>) = rows
        /\ \A rows, X : \A seq \in Seq(X), a \in X :
             Chain(k, rows, Append(seq, a)) = Step(k, Chain(k, rows, seq), a)
    BY <2>1, ChainSteps
  <2>3. QED
    BY <2>1, <2>2
<1>6. ASSUME NEW rows, NEW X, NEW seq \in Seq(X), NEW a \in X
      PROVE  ApplyAggChain(rows, Append(seq, a)) = ApplyOneAggStep(ApplyAggChain(rows, seq), a)
  BY <1>2, <1>4
<1>7. QED
  BY <1>2, <1>4, <1>5, <1>6

-----------------------------------------------------------------------------
(***************************************************************************)
(* Results, step by step.                                                  *)
(***************************************************************************)
IsPoint(x) == x = [labels |-> x.labels, t |-> x.t, v |-> x.v]
ArePoints(points) == \A x \in points : IsPoint(x)
IsResult(res) ==
  res = [type |-> res.type, points |-> res.points] /\ res.type \in {"vector", "matrix"} /\ ArePoints(res.points)

\* The points' times.
TimesOf(points) == {x.t : x \in points}

LEMMA StampedIs ==
  ASSUME NEW rows, NEW t
  PROVE  /\ ArePoints(Stamped(rows, t))
         /\ \A x \in Stamped(rows, t) : x.t = t
         /\ \A u : RowsAt(Stamped(rows, t), u) = IF u = t THEN Unmarked(rows) ELSE {}
<1>1. ArePoints(Stamped(rows, t)) /\ \A x \in Stamped(rows, t) : x.t = t
  BY DEF ArePoints, IsPoint, Stamped
<1>2. ASSUME NEW u, u # t  PROVE RowsAt(Stamped(rows, t), u) = {}
  BY <1>1, <1>2 DEF RowsAt
<1>3. RowsAt(Stamped(rows, t), t) = Unmarked(rows)
  <2> DEFINE point(r) == [labels |-> r.labels, t |-> t, v |-> r.v]
             row(r) == [labels |-> r.labels, v |-> r.v]
  <2>1. ASSUME NEW r  PROVE point(r).t = t /\ row(point(r)) = row(r)
    OBVIOUS
  <2>2. Stamped(rows, t) = {point(r) : r \in rows}
    BY DEF Stamped
  <2>3. /\ RowsAt(Stamped(rows, t), t) = {row(x) : x \in {x \in Stamped(rows, t) : x.t = t}}
        /\ Unmarked(rows) = {row(r) : r \in rows}
    BY DEF RowsAt, Unmarked
  <2> HIDE DEF point, row
  <2>4. QED
    BY <2>1, <2>2, <2>3
<1>4. QED
  BY <1>1, <1>2, <1>3

LEMMA RowsAre ==
  ASSUME NEW points, NEW t
  PROVE  /\ Unmarked(RowsAt(points, t)) = RowsAt(points, t)
         /\ RowsAt(points, t) # {} <=> t \in TimesOf(points)
<1> DEFINE row(r) == [labels |-> r.labels, v |-> r.v]
<1>1. \A r : row(row(r)) = row(r)
  OBVIOUS
<1>2. /\ RowsAt(points, t) = {row(x) : x \in {x \in points : x.t = t}}
      /\ Unmarked(RowsAt(points, t)) = {row(r) : r \in RowsAt(points, t)}
  BY DEF RowsAt, Unmarked
<1> HIDE DEF row
<1>3. Unmarked(RowsAt(points, t)) = RowsAt(points, t)
  BY <1>1, <1>2
<1>4. RowsAt(points, t) # {} <=> t \in TimesOf(points)
  BY <1>2 DEF TimesOf
<1>5. QED
  BY <1>3, <1>4

\* What is put together of the rows of each time.
StepByStep(f, T) == UNION {Stamped(f[t], t) : t \in T}

LEMMA StepByStepIs ==
  ASSUME NEW f, NEW T
  PROVE  /\ ArePoints(StepByStep(f, T)) /\ TimesOf(StepByStep(f, T)) \subseteq T
         /\ \A t \in T : RowsAt(StepByStep(f, T), t) = Unmarked(f[t])
<1> DEFINE S(t) == Stamped(f[t], t)
           P == UNION {S(t) : t \in T}
<1>1. \A t : /\ ArePoints(S(t)) /\ \A x \in S(t) : x.t = t
             /\ RowsAt(S(t), t) = Unmarked(f[t])
  BY StampedIs
<1> HIDE DEF S
<1>2. ArePoints(P) /\ TimesOf(P) \subseteq T
  BY <1>1 DEF ArePoints, TimesOf
<1>3. ASSUME NEW t \in T  PROVE RowsAt(P, t) = RowsAt(S(t), t)
  <2>1. {x \in P : x.t = t} = {x \in S(t) : x.t = t}
    BY <1>1
  <2> HIDE DEF P
  <2>2. QED
    BY <2>1 DEF RowsAt
<1>4. StepByStep(f, T) = P
  BY DEF StepByStep, S
<1> HIDE DEF P
<1>5. QED
  BY <1>1, <1>2, <1>3, <1>4

\* Points of certain times are what is put together of their rows.
LEMMA PointsAre ==
  ASSUME NEW P, ArePoints(P), NEW T, TimesOf(P) \subseteq T
  PROVE  P = UNION {Stamped(RowsAt(P, t), t) : t \in T}
<1> DEFINE row(x) == [labels |-> x.labels, v |-> x.v]
           point(r, t) == [labels |-> r.labels, t |-> t, v |-> r.v]
<1>1. \A t : /\ RowsAt(P, t) = {row(x) : x \in {x \in P : x.t = t}}
             /\ \A rows : Stamped(rows, t) = {point(r, t) : r \in rows}
  BY DEF RowsAt, Stamped
<1>2. ASSUME NEW x \in P  PROVE point(row(x), x.t) = x /\ x.t \in T
  BY DEF ArePoints, IsPoint, TimesOf
<1> HIDE DEF row, point
<1>3. ASSUME NEW x \in P  PROVE x \in UNION {Stamped(RowsAt(P, t), t) : t \in T}
  <2>1. row(x) \in RowsAt(P, x.t)
    BY <1>1
  <2>2. x \in Stamped(RowsAt(P, x.t), x.t)
    BY <1>1, <1>2, <2>1
  <2>3. QED
    BY <1>2, <2>2
<1>4. ASSUME NEW x \in UNION {Stamped(RowsAt(P, t), t) : t \in T}  PROVE x \in P
  <2>1. PICK t \in T : x \in Stamped(RowsAt(P, t), t)
    OBVIOUS
  <2>2. PICK r \in RowsAt(P, t) : x = point(r, t)
    BY <1>1, <2>1
  <2>3. PICK y \in P : y.t = t /\ r = row(y)
    BY <1>1
  <2>4. QED
    BY <1>2, <2>2, <2>3
<1>5. QED
  BY <1>3, <1>4

\* A mathematical function is applied to each point, at each time.
LEMMA MathStepIs ==
  ASSUME NEW points, ArePoints(points), NEW m, NEW ranged
  PROVE  /\ ArePoints(ApplyMath(points, m, ranged))
         /\ TimesOf(ApplyMath(points, m, ranged)) = TimesOf(points)
         /\ \A t : RowsAt(ApplyMath(points, m, ranged), t) = ApplyMath(RowsAt(points, t), m, ranged)
<1> DEFINE F(v) == ApplyMathOp(m, v, ranged)
           new(x) == [x EXCEPT !.v = F(@)]
           row(x) == [labels |-> x.labels, v |-> x.v]
           A == ApplyMath(points, m, ranged)
<1>1. \A rows : ApplyMath(rows, m, ranged) = {new(r) : r \in rows}
  BY DEF ApplyMath
<1>2. \A pts, t : RowsAt(pts, t) = {row(x) : x \in {x \in pts : x.t = t}}
  BY DEF RowsAt
<1>3. A = {new(x) : x \in points}
  BY <1>1
<1> HIDE DEF F, A
<1>4. ASSUME NEW x \in points  PROVE IsPoint(new(x)) /\ new(x).t = x.t /\ row(new(x)) = new(row(x))
  <2>1. x = [labels |-> x.labels, t |-> x.t, v |-> x.v]
    BY DEF ArePoints, IsPoint
  <2>2. new(x) = [labels |-> x.labels, t |-> x.t, v |-> F(x.v)]
    BY <2>1
  <2>3. row(new(x)) = [labels |-> x.labels, v |-> F(x.v)]
    BY <2>2
  <2>4. new(row(x)) = [labels |-> x.labels, v |-> F(x.v)]
    OBVIOUS
  <2>5. QED
    BY <2>2, <2>3, <2>4 DEF IsPoint
<1> HIDE DEF new, row
<1>5. ArePoints(A) /\ TimesOf(A) = TimesOf(points)
  BY <1>3, <1>4 DEF ArePoints, TimesOf
<1>6. ASSUME NEW t  PROVE RowsAt(A, t) = ApplyMath(RowsAt(points, t), m, ranged)
  <2>1. RowsAt(A, t) = {row(x) : x \in {x \in A : x.t = t}}
    BY <1>2
  <2>2. RowsAt(points, t) = {row(x) : x \in {x \in points : x.t = t}}
    BY <1>2
  <2>3. ApplyMath(RowsAt(points, t), m, ranged) = {new(r) : r \in RowsAt(points, t)}
    BY <1>1
  <2>4. ASSUME NEW r \in RowsAt(A, t)  PROVE r \in ApplyMath(RowsAt(points, t), m, ranged)
    <3>1. PICK x \in points : x.t = t /\ r = row(new(x))
      BY <1>3, <1>4, <2>1
    <3>2. row(x) \in RowsAt(points, t) /\ r = new(row(x))
      BY <1>4, <2>2, <3>1
    <3>3. QED
      BY <2>3, <3>2
  <2>5. ASSUME NEW r \in ApplyMath(RowsAt(points, t), m, ranged)  PROVE r \in RowsAt(A, t)
    <3>1. PICK x \in points : x.t = t /\ r = new(row(x))
      BY <2>2, <2>3
    <3>2. new(x) \in A /\ new(x).t = t /\ r = row(new(x))
      BY <1>3, <1>4, <3>1
    <3>3. QED
      BY <2>1, <3>2
  <2>6. QED
    BY <2>4, <2>5
<1>7. QED
  BY <1>5, <1>6 DEF A

\* So is a chain of them.
LEMMA MathChainIs ==
  ASSUME NEW points, ArePoints(points), NEW seq, Len(seq) \in Nat, NEW ranged
  PROVE  /\ ArePoints(ApplyMathChain(points, seq, ranged))
         /\ TimesOf(ApplyMathChain(points, seq, ranged)) = TimesOf(points)
         /\ \A t : RowsAt(ApplyMathChain(points, seq, ranged), t)
                     = ApplyMathChain(RowsAt(points, t), seq, ranged)
<1> DEFINE k == MathChain(ranged)
           n == Len(seq)
<1>1. k[1] \in {"agg", "math"} /\ k[1] = "math" /\ k[2] = ranged
  BY DEF MathChain
<1>2. /\ \A rows : Chain(k, rows, seq) = ApplyMathChain(rows, seq, ranged)
      /\ \A rows, s : Step(k, rows, s) = ApplyMath(rows, s, ranged)
  BY <1>1 DEF Chain, Step
<1> HIDE DEF k
<1>3. PICK f : /\ f[0] = points /\ \A i \in 1..n : f[i] = Step(k, f[i - 1], seq[i])
               /\ Chain(k, points, seq) = f[n]
  <2>1. k[1] \in {"agg", "math"}
    BY <1>1
  <2>2. QED
    BY <2>1, ChainIs
<1>4. /\ f[0] = points /\ \A i \in 1..n : f[i] = ApplyMath(f[i - 1], seq[i], ranged)
      /\ ApplyMathChain(points, seq, ranged) = f[n]
  BY <1>2, <1>3
<1> DEFINE T == {i \in Nat : i <= n => ArePoints(f[i]) /\ TimesOf(f[i]) = TimesOf(points)}
<1>5. 0 \in T
  BY <1>4
<1>6. ASSUME NEW i \in Nat, i \in T  PROVE i + 1 \in T
  <2>1. CASE i + 1 <= n
    <3>1. i + 1 \in 1..n /\ (i + 1) - 1 = i /\ i <= n
      BY <2>1
    <3>2. f[i + 1] = ApplyMath(f[i], seq[i + 1], ranged)
      BY <1>4, <3>1
    <3>3. ArePoints(f[i]) /\ TimesOf(f[i]) = TimesOf(points)
      BY <1>6, <3>1
    <3>4. ArePoints(f[i + 1]) /\ TimesOf(f[i + 1]) = TimesOf(points)
      BY <3>2, <3>3, MathStepIs
    <3>5. QED
      BY <3>4
  <2>2. CASE ~(i + 1 <= n)
    BY <2>2
  <2>3. QED
    BY <2>1, <2>2
<1> HIDE DEF T
<1>7. \A i \in Nat : i \in T
  BY <1>5, <1>6, EveryNumber
<1>8. \A i \in 0..n : ArePoints(f[i]) /\ TimesOf(f[i]) = TimesOf(points)
  BY <1>7 DEF T
<1>9. ASSUME NEW t
      PROVE  RowsAt(ApplyMathChain(points, seq, ranged), t) = ApplyMathChain(RowsAt(points, t), seq, ranged)
  <2>1. PICK g : /\ g[0] = RowsAt(points, t) /\ \A i \in 1..n : g[i] = Step(k, g[i - 1], seq[i])
                 /\ Chain(k, RowsAt(points, t), seq) = g[n]
    BY <1>1, ChainIs
  <2>2. /\ \A i \in 1..n : g[i] = ApplyMath(g[i - 1], seq[i], ranged)
        /\ ApplyMathChain(RowsAt(points, t), seq, ranged) = g[n]
    BY <1>2, <2>1
  <2> DEFINE U == {i \in Nat : i <= n => RowsAt(f[i], t) = g[i]}
  <2>3. 0 \in U
    BY <1>4, <2>1
  <2>4. ASSUME NEW i \in Nat, i \in U  PROVE i + 1 \in U
    <3>1. CASE i + 1 <= n
      <4>1. i + 1 \in 1..n /\ (i + 1) - 1 = i /\ i <= n /\ i \in 0..n
        BY <3>1
      <4>2. f[i + 1] = ApplyMath(f[i], seq[i + 1], ranged) /\ g[i + 1] = ApplyMath(g[i], seq[i + 1], ranged)
        BY <1>4, <2>2, <4>1
      <4>3. RowsAt(f[i], t) = g[i] /\ ArePoints(f[i])
        BY <1>8, <2>4, <4>1
      <4>4. RowsAt(ApplyMath(f[i], seq[i + 1], ranged), t) = ApplyMath(RowsAt(f[i], t), seq[i + 1], ranged)
        BY <4>3, MathStepIs
      <4>5. RowsAt(f[i + 1], t) = g[i + 1]
        BY <4>2, <4>3, <4>4
      <4>6. QED
        BY <4>5
    <3>2. CASE ~(i + 1 <= n)
      BY <3>2
    <3>3. QED
      BY <3>1, <3>2
  <2> HIDE DEF U
  <2>5. \A i \in Nat : i \in U
    BY <2>3, <2>4, EveryNumber
  <2>6. RowsAt(f[n], t) = g[n]
    BY <2>5 DEF U
  <2>7. QED
    BY <1>4, <2>2, <2>6
<1>10. QED
  BY <1>4, <1>8, <1>9

\* So is an operation with a scalar.
LEMMA ScalarBinaryIs ==
  ASSUME NEW res, IsResult(res), NEW scalar, NEW op, NEW onLeft
  PROVE  LET new == ApplyScalarBinary(res, scalar, op, onLeft)
         IN /\ IsResult(new) /\ new.type = res.type
            /\ TimesOf(new.points) \subseteq TimesOf(res.points)
            /\ \A t : RowsAt(new.points, t) = OneOver(op, RowsAt(res.points, t), scalar, onLeft)
<1> DEFINE F(v) == IF onLeft THEN ApplyBinaryOp(op, scalar, v) ELSE ApplyBinaryOp(op, v, scalar)
           put(x, y) == [x EXCEPT !.v = y]
           row(x) == [labels |-> x.labels, v |-> x.v]
           P == res.points
           N == UNION {{put(x, y) : y \in F(x.v)} : x \in P}
           of(r) == {[labels |-> r.labels, v |-> y] : y \in F(r.v)}
<1>1. ApplyScalarBinary(res, scalar, op, onLeft) = [res EXCEPT !.points = N]
  BY DEF ApplyScalarBinary
<1>2. \A rows : OneOver(op, rows, scalar, onLeft)
                  = UNION {{[labels |-> r.labels, v |-> y] : y \in F(r.v)} : r \in rows}
  BY DEF OneOver, RowsOf
<1>3. \A points, t : RowsAt(points, t) = {row(x) : x \in {x \in points : x.t = t}}
  BY DEF RowsAt
<1> HIDE DEF F, N
<1>4. ApplyScalarBinary(res, scalar, op, onLeft) = [type |-> res.type, points |-> N]
  <2>1. res = [type |-> res.type, points |-> P]
    BY DEF IsResult
  <2> HIDE DEF P
  <2>2. QED
    BY <1>1, <2>1
<1>5. ASSUME NEW x \in P, NEW y
      PROVE  /\ IsPoint(put(x, y)) /\ put(x, y).t = x.t
             /\ row(put(x, y)) = [labels |-> row(x).labels, v |-> y] /\ row(x).v = x.v
  <2>1. x = [labels |-> x.labels, t |-> x.t, v |-> x.v]
    BY DEF ArePoints, IsPoint, IsResult
  <2>2. put(x, y) = [labels |-> x.labels, t |-> x.t, v |-> y]
    BY <2>1
  <2> HIDE DEF put, P
  <2>3. QED
    BY <2>2 DEF IsPoint
<1>6. res.type \in {"vector", "matrix"}
  BY DEF IsResult
<1> HIDE DEF put, row, P
<1>7. N = UNION {{put(x, y) : y \in F(x.v)} : x \in P}
  BY DEF N
<1>8. ArePoints(N) /\ TimesOf(N) \subseteq TimesOf(P)
  <2>1. ASSUME NEW z \in N  PROVE IsPoint(z) /\ z.t \in TimesOf(P)
    <3>1. PICK x \in P : \E y \in F(x.v) : z = put(x, y)
      BY <1>7
    <3>2. QED
      BY <3>1, <1>5 DEF TimesOf
  <2>2. QED
    BY <2>1 DEF ArePoints, TimesOf
<1>9. ASSUME NEW t  PROVE RowsAt(N, t) = OneOver(op, RowsAt(P, t), scalar, onLeft)
  <2>1. RowsAt(N, t) = {row(x) : x \in {x \in N : x.t = t}}
    BY <1>3
  <2>2. RowsAt(P, t) = {row(x) : x \in {x \in P : x.t = t}}
    BY <1>3
  <2>3. OneOver(op, RowsAt(P, t), scalar, onLeft) = UNION {of(r) : r \in RowsAt(P, t)}
    BY <1>2
  <2>4. ASSUME NEW r \in RowsAt(N, t)  PROVE r \in OneOver(op, RowsAt(P, t), scalar, onLeft)
    <3>1. PICK z \in N : z.t = t /\ r = row(z)
      BY <2>1
    <3>2. PICK x \in P : \E y \in F(x.v) : z = put(x, y)
      BY <1>7
    <3>3. PICK y \in F(x.v) : z = put(x, y)
      BY <3>2
    <3>4. row(x) \in RowsAt(P, t) /\ r = [labels |-> row(x).labels, v |-> y] /\ y \in F(row(x).v)
      BY <1>5, <2>2, <3>1, <3>3
    <3>5. r \in of(row(x))
      BY <3>4
    <3> HIDE DEF of
    <3>6. QED
      BY <2>3, <3>4, <3>5
  <2>5. ASSUME NEW r \in OneOver(op, RowsAt(P, t), scalar, onLeft)  PROVE r \in RowsAt(N, t)
    <3>1. PICK s \in RowsAt(P, t) : \E y \in F(s.v) : r = [labels |-> s.labels, v |-> y]
      BY <2>3
    <3>2. PICK y \in F(s.v) : r = [labels |-> s.labels, v |-> y]
      BY <3>1
    <3>3. PICK x \in P : x.t = t /\ s = row(x)
      BY <2>2
    <3>4. put(x, y) \in N /\ put(x, y).t = t /\ r = row(put(x, y))
      BY <1>5, <1>7, <3>2, <3>3
    <3>5. QED
      BY <2>1, <3>4
  <2>6. QED
    BY <2>4, <2>5
<1> DEFINE new == [type |-> res.type, points |-> N]
<1>10. new = [type |-> new.type, points |-> new.points] /\ new.type = res.type /\ new.points = N
  OBVIOUS
<1> HIDE DEF new
<1>11. QED
  BY <1>4, <1>6, <1>8, <1>9, <1>10 DEF IsResult, new, P

-----------------------------------------------------------------------------
(***************************************************************************)
(* Steps and results.                                                      *)
(***************************************************************************)

\* Steps are in the order of time, between start and end.
LEMMA StepsAre ==
  ASSUME NEW q, IsQuery(q), q.start <= q.end
  PROVE  /\ Len(StepsOf(q)) \in Nat \ {0} /\ ToSet(StepsOf(q)) # {}
         /\ \A t \in ToSet(StepsOf(q)) : t \in Int /\ q.start <= t /\ t <= q.end
         /\ Cardinality(ToSet(StepsOf(q))) = 1 <=> Len(StepsOf(q)) = 1
         /\ q.step = 0 => StepsOf(q) = <<q.end>> /\ ToSet(StepsOf(q)) = {q.end} /\ Len(StepsOf(q)) = 1
<1>1. q.start \in Int /\ q.end \in Int /\ q.step \in Nat
  BY DEF IsQuery
<1>2. CASE q.step = 0
  <2>1. StepsOf(q) = <<q.end>>
    BY <1>2 DEF StepsOf, Steps
  <2>2. ToSet(<<q.end>>) = {q.end} /\ Len(<<q.end>>) = 1
    BY DEF ToSet
  <2>3. Cardinality({q.end}) = 1
    BY FS_Singleton
  <2>4. QED
    BY <1>1, <2>1, <2>2, <2>3
<1>3. CASE q.step # 0
  <2> DEFINE s == q.step
             n == (q.end - q.start) \div s + 1
             f == [i \in 1..n |-> q.start + (i - 1) * s]
  <2>1. s \in Nat \ {0} /\ q.end - q.start \in Nat
    BY <1>1, <1>3
  <2>2. StepsOf(q) = f
    BY <1>1, <1>3 DEF StepsOf, Steps
  <2>3. n \in Nat /\ n >= 1 /\ (n - 1) * s <= q.end - q.start
    <3> DEFINE d == q.end - q.start
    <3>1. d \in Nat
      BY <2>1
    <3> HIDE DEF d, s
    <3>2. d \div s \in Nat /\ (d \div s) * s <= d
      BY <2>1, <3>1
    <3>3. QED
      BY <3>2 DEF d
  <2> HIDE DEF n, s
  <2>4. \A i \in 1..n : (i - 1) * s \in Nat /\ (i - 1) * s <= (n - 1) * s
    BY <2>1, <2>3
  <2>5. \A i \in 1..n : f[i] \in Int /\ q.start <= f[i] /\ f[i] <= q.end
    BY <1>1, <2>3, <2>4
  <2>6. \A i, j \in 1..n : i < j => f[i] # f[j]
    <3>1. SUFFICES ASSUME NEW i \in 1..n, NEW j \in 1..n, i < j  PROVE f[i] < f[j]
      BY <2>5
    <3>2. (i - 1) * s < (j - 1) * s
      BY <2>1, <3>1
    <3>3. QED
      BY <1>1, <2>4, <3>2
  <2>7. f \in Seq(Int) /\ Len(f) = n /\ DOMAIN f = 1..n /\ ToSet(f) = {f[i] : i \in 1..n}
    <3>1. f \in [1..n -> Int]
      BY <2>5
    <3>2. QED
      BY <2>3, <3>1 DEF ToSet
  <2> HIDE DEF f
  <2>8. Cardinality(ToSet(f)) = 1 <=> n = 1
    <3>1. CASE n = 1
      <4>1. ToSet(f) = {f[1]}
        BY <2>7, <3>1
      <4>2. QED
        BY <3>1, <4>1, FS_Singleton
    <3>2. CASE n # 1
      <4>1. 1 \in 1..n /\ 2 \in 1..n
        BY <2>3, <3>2
      <4>2. f[1] \in ToSet(f) /\ f[2] \in ToSet(f) /\ f[1] # f[2]
        BY <2>6, <2>7, <4>1
      <4>3. ASSUME Cardinality(ToSet(f)) = 1  PROVE FALSE
        <5>1. IsFiniteSet(ToSet(f))
          <6>1. IsFiniteSet(1..n)
            BY <2>3, FS_Interval
          <6>2. f = [i \in DOMAIN f |-> f[i]]
            BY <2>7
          <6>3. QED
            BY <2>7, <6>1, <6>2, ImageIsFinite
        <5>2. \E x : ToSet(f) = {x}
          BY <4>3, <5>1, FS_Singleton
        <5>3. QED
          BY <4>2, <5>2
      <4>4. QED
        BY <3>2, <4>3
    <3>3. QED
      BY <3>1, <3>2
  <2>9. f[1] \in ToSet(f)
    BY <2>3, <2>7
  <2>10. QED
    BY <1>3, <2>2, <2>3, <2>5, <2>7, <2>8, <2>9
<1>4. QED
  BY <1>2, <1>3

\* A plan that is no operation has a result.
LEMMA LeafIs ==
  ASSUME NEW p, NEW q
  PROVE  IsResult(EvalLeaf(p, q))
<1> DEFINE steps == ToSet(StepsOf(q))
           ranged == Len(StepsOf(q)) # 1
           type == IF ranged THEN "matrix" ELSE "vector"
           points == UNION {PointsAt(p, Fetch(p), t, ranged) : t \in steps}
<1>1. CASE p.isScalar
  BY <1>1 DEF EvalLeaf, IsResult, ArePoints, IsPoint
<1>2. CASE ~p.isScalar /\ p.exprType = "time"
  BY <1>2 DEF EvalLeaf, IsResult, ArePoints, IsPoint
<1>3. CASE ~p.isScalar /\ p.exprType # "time"
  <2>1. EvalLeaf(p, q) = [type |-> type, points |-> points]
    BY <1>3 DEF EvalLeaf
  <2>2. \A t : ArePoints(PointsAt(p, Fetch(p), t, ranged))
    BY StampedIs DEF PointsAt
  <2> HIDE DEF ranged
  <2>3. ArePoints(points)
    BY <2>2 DEF ArePoints
  <2>4. type \in {"vector", "matrix"}
    OBVIOUS
  <2> HIDE DEF points, type
  <2>5. QED
    BY <2>1, <2>3, <2>4 DEF IsResult
<1>4. QED
  BY <1>1, <1>2, <1>3

\* Mathematical functions are applied to a result row by row.
LEMMA WithMathIs ==
  ASSUME NEW res, IsResult(res), NEW p, Len(p.math) \in Nat
  PROVE  LET new == WithMath(res, p)
         IN /\ IsResult(new) /\ new.type = res.type
            /\ TimesOf(new.points) = TimesOf(res.points)
            /\ \A t : RowsAt(new.points, t)
                        = ApplyMathChain(RowsAt(res.points, t), p.math, res.type = "matrix")
<1> DEFINE P == ApplyMathChain(res.points, p.math, res.type = "matrix")
           r == [type |-> res.type, points |-> P]
<1>1. WithMath(res, p) = r
  <2>1. WithMath(res, p) = [res EXCEPT !.points = P]
    BY DEF WithMath
  <2>2. res = [type |-> res.type, points |-> res.points]
    BY DEF IsResult
  <2> HIDE DEF P
  <2>3. QED
    BY <2>1, <2>2
<1>2. /\ ArePoints(P) /\ TimesOf(P) = TimesOf(res.points)
      /\ \A t : RowsAt(P, t) = ApplyMathChain(RowsAt(res.points, t), p.math, res.type = "matrix")
  BY MathChainIs DEF IsResult
<1> HIDE DEF P
<1>3. r.type = res.type /\ r.points = P /\ r = [type |-> r.type, points |-> r.points]
  OBVIOUS
<1> HIDE DEF r
<1>4. QED
  BY <1>1, <1>2, <1>3 DEF IsResult

\* The rows of both sides at a time, when they match.
BothAt(p, l, r, t) ==
  IF p.op \in SetOps THEN VectorSetOp(p.op, p.match, RowsAt(l.points, t), RowsAt(r.points, t))
  ELSE VectorBinaryOp(p.op, FALSE, p.match, RowsAt(l.points, t), RowsAt(r.points, t))

Joined(p, l, r, q) ==
  [type |-> IF Cardinality(ToSet(StepsOf(q))) = 1 THEN "vector" ELSE "matrix",
   points |-> UNION {Stamped(BothAt(p, l, r, t), t) : t \in ToSet(StepsOf(q))}]

LEMMA JoinedIs ==
  ASSUME NEW p, NEW l, NEW r, NEW q
  PROVE  /\ IsResult(Joined(p, l, r, q))
         /\ TimesOf(Joined(p, l, r, q).points) \subseteq ToSet(StepsOf(q))
         /\ \A t \in ToSet(StepsOf(q)) : RowsAt(Joined(p, l, r, q).points, t) = Unmarked(BothAt(p, l, r, t))
<1> DEFINE type == IF Cardinality(ToSet(StepsOf(q))) = 1 THEN "vector" ELSE "matrix"
           T == ToSet(StepsOf(q))
           f == [t \in T |-> BothAt(p, l, r, t)]
           P == StepByStep(f, T)
           j == [type |-> type, points |-> P]
<1>1. P = UNION {Stamped(BothAt(p, l, r, t), t) : t \in T}
  BY DEF StepByStep
<1>2. Joined(p, l, r, q) = j
  BY <1>1 DEF Joined
<1>3. /\ ArePoints(P) /\ TimesOf(P) \subseteq T
      /\ \A t \in T : RowsAt(P, t) = Unmarked(f[t])
  BY StepByStepIs
<1>4. type \in {"vector", "matrix"}
  OBVIOUS
<1> HIDE DEF P, type
<1>5. j.type = type /\ j.points = P /\ j = [type |-> j.type, points |-> j.points]
  OBVIOUS
<1> HIDE DEF j
<1>6. QED
  BY <1>2, <1>3, <1>4, <1>5 DEF IsResult

\* The result of both sides, if it is not refused.
LEMMA CombineIs ==
  ASSUME NEW p, NEW l, NEW r, NEW q
  PROVE  /\ IsScalarResult(r) => Combine(p, l, r, q) = {ApplyScalarBinary(l, ScalarValue(r), p.op, FALSE)}
         /\ ~IsScalarResult(r) /\ IsScalarResult(l) =>
              Combine(p, l, r, q) = {ApplyScalarBinary(r, ScalarValue(l), p.op, TRUE)}
         /\ ~IsScalarResult(r) /\ ~IsScalarResult(l) =>
              Combine(p, l, r, q) \subseteq {WithMath(Joined(p, l, r, q), p)}
BY DEF Combine, Joined, BothAt

\* An expression has at most one result, and that is one.
LEMMA ResultsAreResults ==
  ASSUME NEW q, IsQuery(q), NEW e \in Exprs
  PROVE  /\ \A res \in Results(q)[e] : IsResult(res)
         /\ \A a, b \in Results(q)[e] : a = b
<1> DEFINE Res == Results(q)
           Fine(S) == (\A res \in S : IsResult(res)) /\ (\A a, b \in S : a = b)
           Good == {x \in Exprs : Fine(Res[x])}
<1>1. ASSUME NEW x \in Exprs, Below(x) \subseteq Good  PROVE x \in Good
  <2>1. Res[x] = UNION {EvalPlan(p, q, Res) : p \in Transpile(q)[x]}
    BY ResultsAre
  <2>2. \A a, b \in Transpile(q)[x] : a = b
    BY PlansAgree
  <2>3. ASSUME NEW p \in Transpile(q)[x]  PROVE Fine(EvalPlan(p, q, Res))
    <3>1. CASE p.isScalar \/ p.exprType # "binary"
      BY <3>1, LeafIs DEF EvalPlan
    <3>2. CASE ~(p.isScalar \/ p.exprType # "binary")
      <4>1. PICK b \in Parts[x] : p.lhs \in Below(b) /\ p.rhs \in Below(b)
        BY <3>2, OperationOf
      <4>2. p.lhs \in Below(x) /\ p.rhs \in Below(x)
        BY <4>1, PartsAre
      <4>3. Fine(Res[p.lhs]) /\ Fine(Res[p.rhs])
        BY <1>1, <4>2
      <4>4. Len(p.math) \in Nat
        <5>1. p.math \in Seq(MathSteps(x))
          BY PlansAreDescribed DEF Describes, Chained
        <5>2. QED
          BY <5>1, LenProperties
      <4> HIDE DEF Res
      <4>5. CASE p.scalarR
        <5>1. EvalPlan(p, q, Res) = {WithMath(ApplyScalarBinary(l, p.valR, p.op, FALSE), p) : l \in Res[p.lhs]}
          BY <3>2, <4>5 DEF EvalPlan
        <5>2. \A l \in Res[p.lhs] : IsResult(WithMath(ApplyScalarBinary(l, p.valR, p.op, FALSE), p))
          BY <4>3, <4>4, ScalarBinaryIs, WithMathIs
        <5>3. QED
          BY <4>3, <5>1, <5>2
      <4>6. CASE ~p.scalarR /\ p.scalarL
        <5>1. EvalPlan(p, q, Res) = {WithMath(ApplyScalarBinary(l, p.valL, p.op, TRUE), p) : l \in Res[p.rhs]}
          BY <3>2, <4>6 DEF EvalPlan
        <5>2. \A l \in Res[p.rhs] : IsResult(WithMath(ApplyScalarBinary(l, p.valL, p.op, TRUE), p))
          BY <4>3, <4>4, ScalarBinaryIs, WithMathIs
        <5>3. QED
          BY <4>3, <5>1, <5>2
      <4>7. CASE ~p.scalarR /\ ~p.scalarL
        <5>1. EvalPlan(p, q, Res) = UNION {Combine(p, s[1], s[2], q) : s \in Res[p.lhs] \X Res[p.rhs]}
          BY <3>2, <4>7 DEF EvalPlan
        <5>2. ASSUME NEW l \in Res[p.lhs], NEW r \in Res[p.rhs]  PROVE Fine(Combine(p, l, r, q))
          <6>1. IsResult(l) /\ IsResult(r)
            BY <4>3
          <6>2. /\ \A v : IsResult(ApplyScalarBinary(l, v, p.op, FALSE))
                /\ \A v : IsResult(ApplyScalarBinary(r, v, p.op, TRUE))
            BY <6>1, ScalarBinaryIs
          <6>3. IsResult(WithMath(Joined(p, l, r, q), p))
            BY <4>4, JoinedIs, WithMathIs
          <6>4. \E y : IsResult(y) /\ Combine(p, l, r, q) \subseteq {y}
            <7>1. CASE IsScalarResult(r)
              <8>1. Combine(p, l, r, q) = {ApplyScalarBinary(l, ScalarValue(r), p.op, FALSE)}
                BY <7>1, CombineIs
              <8>2. IsResult(ApplyScalarBinary(l, ScalarValue(r), p.op, FALSE))
                BY <6>2
              <8>3. QED
                BY <8>1, <8>2
            <7>2. CASE ~IsScalarResult(r) /\ IsScalarResult(l)
              <8>1. Combine(p, l, r, q) = {ApplyScalarBinary(r, ScalarValue(l), p.op, TRUE)}
                BY <7>2, CombineIs
              <8>2. IsResult(ApplyScalarBinary(r, ScalarValue(l), p.op, TRUE))
                BY <6>2
              <8>3. QED
                BY <8>1, <8>2
            <7>3. CASE ~IsScalarResult(r) /\ ~IsScalarResult(l)
              BY <6>3, <7>3, CombineIs
            <7>4. QED
              BY <7>1, <7>2, <7>3
          <6>5. QED
            BY <6>4
        <5>3. \A s, u \in Res[p.lhs] \X Res[p.rhs] : s = u
          BY <4>3
        <5>4. \A s \in Res[p.lhs] \X Res[p.rhs] : Fine(Combine(p, s[1], s[2], q))
          BY <5>2
        <5> HIDE DEF Good
        <5>5. QED
          BY <5>1, <5>3, <5>4
      <4>8. QED
        BY <4>5, <4>6, <4>7
    <3>3. QED
      BY <3>1, <3>2
  <2> HIDE DEF Res
  <2>4. QED
    BY <2>1, <2>2, <2>3
<1> HIDE DEF Good
<1>2. \A x \in Exprs : x \in Good
  BY <1>1, TreeInduction
<1>3. QED
  BY <1>2 DEF Good

-----------------------------------------------------------------------------
(***************************************************************************)
(* The handler.                                                            *)
(***************************************************************************)

\* While a query is answered its plan is that of its expression, and the answer what the
\* label cache or the evaluator makes of it.
Inv ==
  /\ pc \in {"idle", "translated", "refused", "failed", "answered"}
  /\ pc = "idle" => query = <<>> /\ plan = {} /\ path = "" /\ answer = {}
  /\ pc # "idle" => query \in Queries /\ plan = Transpile(query)[query.expr]
  /\ pc \in {"translated", "refused"} => path = "" /\ answer = {}
  /\ pc \in {"failed", "answered"} =>
       \/ path = "labels" /\ \E p \in plan : CacheOnly(p) /\ answer = {CacheOnlyAgg(p, query)}
       \/ path = "eval" /\ answer = Results(query)[query.expr]

LEMMA QueryIs ==
  ASSUME NEW q \in Queries
  PROVE  IsQuery(q) /\ q.expr \in Exprs
BY QueriesAssumption DEF IsQuery

LEMMA InvHolds == Spec => []Inv
<1>1. Init => Inv
  BY DEF Init, Inv
<1>2. Inv /\ [Next]_vars => Inv'
  <2>1. SUFFICES ASSUME Inv, [Next]_vars  PROVE Inv'
    OBVIOUS
  <2>2. ASSUME NEW q \in Queries, Ask(q)  PROVE Inv'
    BY <2>1, <2>2 DEF Inv, Ask
  <2>3. CASE FromLabels
    BY <2>1, <2>3 DEF Inv, FromLabels
  <2>4. CASE Evaluate
    <3>1. query \in Queries /\ plan = Transpile(query)[query.expr]
      BY <2>1, <2>4 DEF Inv, Evaluate
    <3>2. Results(query)[query.expr] = UNION {EvalPlan(p, query, Results(query)) : p \in plan}
      BY <3>1, QueryIs, ResultsAre
    <3>3. answer' = Results(query)[query.expr]
      BY <2>4, <3>2 DEF Evaluate
    <3>4. QED
      BY <2>1, <2>4, <3>1, <3>3 DEF Inv, Evaluate
  <2>5. CASE Reply
    BY <2>1, <2>5 DEF Inv, Reply
  <2>6. CASE UNCHANGED vars
    BY <2>1, <2>6 DEF Inv, vars
  <2>7. QED
    BY <2>1, <2>2, <2>3, <2>4, <2>5, <2>6 DEF Next
<1>3. QED
  BY <1>1, <1>2, PTL DEF Spec

LEMMA AtMostOne ==
  ASSUME NEW S, \A a, b \in S : a = b
  PROVE  Cardinality(S) <= 1
<1>1. CASE S = {}
  BY <1>1, FS_EmptySet
<1>2. CASE S # {}
  <2>1. PICK x : S = {x}
    BY <1>2
  <2>2. QED
    BY <2>1, FS_Singleton
<1>3. QED
  BY <1>1, <1>2

\* A plan's window is not empty.
LEMMA PlanWindowIs ==
  ASSUME NEW q, IsQuery(q), q.start <= q.end, NEW e \in Exprs, NEW p \in Transpile(q)[e]
  PROVE  p.from <= p.to
<1>1. Reads(p, e, q)
  BY PlansAreDescribed DEF Describes
<1>2. CASE \E b \in Parts[e] : OfLeaf(p, b, q)
  <2>1. PICK b \in Parts[e] : OfLeaf(p, b, q)
    BY <1>2
  <2>2. b \in Exprs
    BY PartsAre
  <2>3. b.offset \in Int /\ p.range \in Nat /\ Staleness \in Nat
    <3>1. b.kind \in {"selector", "over"} /\ p.range = (IF b.kind = "over" THEN b.range ELSE 0)
      BY <2>1 DEF OfLeaf
    <3>2. b.offset \in Int /\ (b.kind = "over" => b.range \in Nat)
      BY <2>2, <3>1, ExprsAssumption
    <3>3. QED
      BY <3>1, <3>2, StalenessAssumption
  <2>4. From(q) \in Int /\ From(q) <= q.start
    BY <2>3 DEF From, IsQuery
  <2>5. p.from = From(q) - Staleness - b.offset - p.range /\ p.to = q.end - b.offset
    BY <2>1 DEF OfLeaf
  <2>6. q.start \in Int /\ q.end \in Int
    BY DEF IsQuery
  <2>7. QED
    BY <2>3, <2>4, <2>5, <2>6
<1>3. CASE p.from = 0 /\ p.to = 0
  BY <1>3
<1>4. QED
  BY <1>1, <1>2, <1>3 DEF Reads

\* So is the answer of the label cache.
LEMMA CountIsResult ==
  ASSUME NEW p, NEW q
  PROVE  IsResult(CacheOnlyAgg(p, q))
<1> DEFINE rows == ApplyOneAggStep({[labels |-> s.labels, v |-> 1] : s \in SelectedBy(p)}, p.aggs[1])
           T == IF q.step > 0 /\ q.end < q.start THEN {} ELSE ToSet(StepsOf(q))
           f == [t \in T |-> rows]
           type == IF Cardinality(T) = 1 THEN "vector" ELSE "matrix"
           r == [type |-> type, points |-> StepByStep(f, T)]
<1>1. CacheOnlyAgg(p, q) = [type |-> type, points |-> UNION {Stamped(rows, t) : t \in T}]
  BY DEF CacheOnlyAgg
<1> HIDE DEF rows, T
<1>2. StepByStep(f, T) = UNION {Stamped(rows, t) : t \in T}
  BY DEF StepByStep
<1>3. ArePoints(StepByStep(f, T))
  BY StepByStepIs
<1>4. type \in {"vector", "matrix"}
  OBVIOUS
<1> HIDE DEF f, type
<1>5. r.type = type /\ r.points = StepByStep(f, T) /\ r = [type |-> r.type, points |-> r.points]
  OBVIOUS
<1>6. CacheOnlyAgg(p, q) = r
  BY <1>1, <1>2
<1> HIDE DEF r
<1>7. QED
  BY <1>3, <1>4, <1>5, <1>6 DEF IsResult

\* The variables have their types; a query has at most one plan and at most one answer; a
\* plan's window is not empty if the query's is not.
THEOREM TypeCorrect == Spec => []TypeOK
<1>1. Inv => TypeOK
  <2>1. SUFFICES ASSUME Inv  PROVE TypeOK
    OBVIOUS
  <2>2. query \in Queries \union {<<>>} /\ path \in {"", "labels", "eval"}
    BY <2>1 DEF Inv
  <2>3. /\ \A p \in plan : DOMAIN p = DOMAIN Blank /\ (query.start <= query.end => p.from <= p.to)
        /\ Cardinality(plan) <= 1
    <3>1. CASE pc = "idle"
      BY <2>1, <3>1, AtMostOne DEF Inv
    <3>2. CASE pc # "idle"
      <4>1. query \in Queries /\ plan = Transpile(query)[query.expr] /\ IsQuery(query) /\ query.expr \in Exprs
        BY <2>1, <3>2, QueryIs DEF Inv
      <4>2. \A p \in plan : IsPlan(p)
        BY <4>1, PlansAreDescribed DEF Describes
      <4>3. \A p \in plan : DOMAIN p = DOMAIN Blank
        BY <4>2, BlankIs DEF IsPlan
      <4>4. \A p \in plan : query.start <= query.end => p.from <= p.to
        BY <4>1, PlanWindowIs
      <4>5. Cardinality(plan) <= 1
        BY <4>1, PlansAgree, AtMostOne
      <4>6. QED
        BY <4>3, <4>4, <4>5
    <3>3. QED
      BY <3>1, <3>2
  <2>4. Cardinality(answer) <= 1 /\ \A res \in answer : IsResult(res)
    <3>1. CASE pc \notin {"failed", "answered"}
      <4>1. answer = {}
        BY <2>1, <3>1 DEF Inv
      <4>2. QED
        BY <4>1, AtMostOne
    <3>2. CASE pc \in {"failed", "answered"}
      <4>1. query \in Queries /\ IsQuery(query) /\ query.expr \in Exprs
        BY <2>1, <3>2, QueryIs DEF Inv
      <4>2. CASE path = "labels"
        <5>1. PICK p \in plan : answer = {CacheOnlyAgg(p, query)}
          BY <2>1, <3>2, <4>2 DEF Inv
        <5>2. QED
          BY <5>1, CountIsResult, AtMostOne
      <4>3. CASE path = "eval"
        <5>1. answer = Results(query)[query.expr]
          BY <2>1, <3>2, <4>3 DEF Inv
        <5>2. QED
          BY <4>1, <5>1, ResultsAreResults, AtMostOne
      <4>4. QED
        BY <2>1, <3>2, <4>2, <4>3 DEF Inv
    <3>3. QED
      BY <3>1, <3>2
  <2>5. \A res \in answer : res.type \in {"vector", "matrix"}
                           /\ \A x \in res.points : DOMAIN x = {"labels", "t", "v"}
    BY <2>4 DEF IsResult, ArePoints, IsPoint
  <2>6. QED
    BY <2>1, <2>2, <2>3, <2>4, <2>5 DEF TypeOK, Inv
<1>2. QED
  BY <1>1, InvHolds, PTL

-----------------------------------------------------------------------------
(***************************************************************************)
(* What is fetched, and the values computed from it.                       *)
(***************************************************************************)

\* In the order of time, the same samples are the same sequence.
LEMMA SameSamples ==
  ASSUME NEW a, NEW b, InTime(a), InTime(b), ToSet(a) = ToSet(b)
  PROVE  a = b
<1> DEFINE n == Len(a)
           Bad == {i \in 1..n : a[i] # b[i]}
<1>1. /\ n \in Nat /\ DOMAIN a = 1..n /\ ToSet(a) = {a[i] : i \in 1..n}
      /\ \A i \in 1..n : a[i].t \in Int
      /\ \A i, j \in 1..n : i < j => a[i].t < a[j].t
  BY SamplesAre
<1>2. Len(b) = n
  BY CountIs
<1>3. /\ DOMAIN b = 1..n /\ ToSet(b) = {b[i] : i \in 1..n}
      /\ \A i \in 1..n : b[i].t \in Int
      /\ \A i, j \in 1..n : i < j => b[i].t < b[j].t
  BY <1>2, SamplesAre
<1> HIDE DEF n
<1>4. ASSUME Bad # {}  PROVE FALSE
  <2>1. Bad \in SUBSET Nat
    BY <1>1
  <2>2. PICK i \in Bad : \A j \in Bad : i <= j
    <3> HIDE DEF Bad
    <3>1. QED
      BY <1>4, <2>1, LeastNumber
  <2>3. i \in 1..n /\ \A k \in 1..n : k < i => a[k] = b[k]
    BY <1>1, <2>2
  <2>4. PICK j \in 1..n : a[i] = b[j]
    BY <1>1, <1>3, <2>3
  <2>5. PICK k \in 1..n : b[i] = a[k]
    BY <1>1, <1>3, <2>3
  <2>6. j # i /\ k # i
    BY <2>2, <2>4, <2>5
  <2>7. ~(j < i)
    <3>1. SUFFICES ASSUME j < i  PROVE FALSE
      OBVIOUS
    <3>2. a[j] = a[i] /\ a[j].t < a[i].t
      BY <1>1, <2>3, <2>4, <3>1
    <3>3. QED
      BY <1>1, <2>3, <3>2
  <2>8. ~(k < i)
    <3>1. SUFFICES ASSUME k < i  PROVE FALSE
      OBVIOUS
    <3>2. b[k] = b[i] /\ b[k].t < b[i].t
      BY <1>3, <2>3, <2>5, <3>1
    <3>3. QED
      BY <1>3, <2>3, <3>2
  <2>9. i < j /\ i < k
    BY <1>1, <2>3, <2>6, <2>7, <2>8
  <2>10. b[i].t < b[j].t /\ a[i].t < a[k].t
    BY <1>1, <1>3, <2>3, <2>9
  <2>11. QED
    BY <1>1, <1>3, <2>3, <2>4, <2>5, <2>10
<1>5. \A i \in 1..n : a[i] = b[i]
  BY <1>4
<1>6. a = [i \in 1..n |-> a[i]] /\ b = [i \in 1..n |-> b[i]]
  BY <1>1, <1>3, SamplesAre DEF InTime
<1>7. QED
  BY <1>5, <1>6

LEMMA WindowIs ==
  ASSUME NEW ss, InTime(ss), NEW from \in Int, NEW to \in Int
  PROVE  /\ InTime(WindowSamples(ss, from, to))
         /\ ToSet(WindowSamples(ss, from, to)) = {p \in ToSet(ss) : from < p.t /\ p.t <= to}
<1>1. WindowSamples(ss, from, to) = Between(ss, from, to)
  BY DEF WindowSamples, FirstAfter, Between, PlaceAfter
<1>2. QED
  BY <1>1, BetweenIs

\* A series of the table, or a part of it.
IsSeries(ss) == InTime(ss) /\ \A p \in ToSet(ss) : p.v # Stale

LEMMA InstantIs ==
  ASSUME NEW ss, IsSeries(ss), NEW t \in Int
  PROVE  InstantValue(ss, t) = {p.v : p \in {p \in NewestOf(ss, t) : p.t >= t - Staleness}}
<1> DEFINE idx == PlaceAfter(ss, t) - 1
<1>1. NewestOf(ss, t) = IF idx = 0 THEN {} ELSE {ss[idx]}
  BY NewestIs DEF IsSeries
<1>2. FirstAfter(ss, t) - 1 = idx
  BY DEF FirstAfter, PlaceAfter
<1>3. \A p \in NewestOf(ss, t) : p.v # Stale
  BY DEF NewestOf, IsSeries
<1> HIDE DEF idx
<1>4. InstantValue(ss, t) =
        IF idx = 0 THEN {}
        ELSE {s.v : s \in {p \in {ss[idx]} : p.t >= t - Staleness /\ p.v # Stale}}
  BY <1>2 DEF InstantValue
<1>5. CASE idx = 0
  BY <1>1, <1>4, <1>5
<1>6. CASE idx # 0
  <2>1. NewestOf(ss, t) = {ss[idx]} /\ ss[idx].v # Stale
    BY <1>1, <1>3, <1>6
  <2>2. QED
    BY <1>4, <1>6, <2>1
<1>7. QED
  BY <1>5, <1>6

\* The reference looks up the same sample.
LEMMA LookedUpIs ==
  ASSUME NEW s, IsSeries(s.samples), NEW t \in Int
  PROVE  LookedUp(s, t) = InstantValue(s.samples, t)
<1> DEFINE ss == s.samples
           seen == {x \in ToSet(ss) : t - x.t \in 0..Staleness}
           L == {x \in seen : \A y \in seen : y.t <= x.t}
           N == {p \in NewestOf(ss, t) : p.t >= t - Staleness}
<1>1. Staleness \in Nat /\ \A x \in ToSet(ss) : x.t \in Int
  BY StalenessAssumption, SamplesAre DEF IsSeries
<1>2. \A x \in ToSet(ss) : x \in seen <=> (x.t <= t /\ x.t >= t - Staleness)
  BY <1>1
<1>3. L = N
  <2>1. ASSUME NEW x \in L  PROVE x \in N
    <3>1. x \in ToSet(ss) /\ x.t <= t /\ x.t >= t - Staleness /\ \A y \in seen : y.t <= x.t
      BY <1>2
    <3>2. ASSUME NEW y \in ToSet(ss), y.t <= t  PROVE y.t <= x.t
      <4>1. CASE y \in seen
        BY <3>1, <4>1
      <4>2. CASE y \notin seen
        <5>1. ~(y.t >= t - Staleness)
          BY <1>2, <3>2, <4>2
        <5>2. QED
          BY <1>1, <3>1, <5>1
      <4>3. QED
        BY <4>1, <4>2
    <3>3. QED
      BY <3>1, <3>2 DEF NewestOf
  <2>2. ASSUME NEW x \in N  PROVE x \in L
    BY <1>2 DEF NewestOf
  <2>3. QED
    BY <2>1, <2>2
<1>4. InstantValue(ss, t) = {x.v : x \in N}
  BY InstantIs
<1>5. LookedUp(s, t) = {x.v : x \in L}
  BY DEF LookedUp
<1> HIDE DEF L, N
<1>6. QED
  BY <1>3, <1>4, <1>5

\* A window of what a wider window has is a window of everything.
LEMMA WindowOfWindow ==
  ASSUME NEW ss, IsSeries(ss), NEW from \in Int, NEW to \in Int, NEW a \in Int, NEW b \in Int,
         from <= a, b <= to
  PROVE  /\ WindowSamples(WindowSamples(ss, from, to), a, b) = WindowSamples(ss, a, b)
         /\ IsSeries(WindowSamples(ss, from, to))
<1> DEFINE w == WindowSamples(ss, from, to)
<1>1. /\ InTime(w) /\ ToSet(w) = {p \in ToSet(ss) : from < p.t /\ p.t <= to}
      /\ \A p \in ToSet(ss) : p.t \in Int
  BY WindowIs, SamplesAre DEF IsSeries
<1> HIDE DEF w
<1>2. /\ InTime(WindowSamples(w, a, b))
      /\ ToSet(WindowSamples(w, a, b)) = {p \in ToSet(w) : a < p.t /\ p.t <= b}
  BY <1>1, WindowIs
<1>3. /\ InTime(WindowSamples(ss, a, b))
      /\ ToSet(WindowSamples(ss, a, b)) = {p \in ToSet(ss) : a < p.t /\ p.t <= b}
  BY WindowIs DEF IsSeries
<1>4. {p \in ToSet(w) : a < p.t /\ p.t <= b} = {p \in ToSet(ss) : a < p.t /\ p.t <= b}
  BY <1>1
<1>5. WindowSamples(w, a, b) = WindowSamples(ss, a, b)
  BY <1>2, <1>3, <1>4, SameSamples
<1>6. QED
  BY <1>1, <1>5 DEF IsSeries, w

\* So is the newest sample, unless the window begins too late for it.
LEMMA InstantOfWindow ==
  ASSUME NEW ss, IsSeries(ss), NEW from \in Int, NEW to \in Int, NEW t \in Int, t <= to,
         from <= t - Staleness,
         from = t - Staleness => \A p \in ToSet(ss) : p.t # from
  PROVE  InstantValue(WindowSamples(ss, from, to), t) = InstantValue(ss, t)
<1> DEFINE w == WindowSamples(ss, from, to)
           A == {p \in NewestOf(w, t) : p.t >= t - Staleness}
           B == {p \in NewestOf(ss, t) : p.t >= t - Staleness}
<1>1. /\ IsSeries(w) /\ ToSet(w) = {p \in ToSet(ss) : from < p.t /\ p.t <= to}
      /\ Staleness \in Nat /\ \A p \in ToSet(ss) : p.t \in Int
  <2>1. InTime(w) /\ ToSet(w) = {p \in ToSet(ss) : from < p.t /\ p.t <= to} /\ \A p \in ToSet(ss) : p.t \in Int
    BY WindowIs, SamplesAre DEF IsSeries
  <2>2. QED
    BY <2>1, StalenessAssumption DEF IsSeries
<1>2. InstantValue(w, t) = {p.v : p \in A} /\ InstantValue(ss, t) = {p.v : p \in B}
  BY <1>1, InstantIs
<1> HIDE DEF w
<1>3. \A p \in ToSet(ss) : p.t >= t - Staleness /\ p.t <= t => p \in ToSet(w)
  BY <1>1
<1>4. ASSUME NEW p \in A  PROVE p \in B
  <2>1. p \in ToSet(w) /\ p \in ToSet(ss) /\ p.t <= t /\ p.t >= t - Staleness
    BY <1>1 DEF NewestOf
  <2>2. ASSUME NEW r \in ToSet(ss), r.t <= t  PROVE r.t <= p.t
    <3>1. CASE r \in ToSet(w)
      BY <2>2, <3>1 DEF NewestOf
    <3>2. CASE r \notin ToSet(w)
      BY <1>1, <1>3, <2>1, <2>2, <3>2
    <3>3. QED
      BY <3>1, <3>2
  <2>3. QED
    BY <2>1, <2>2 DEF NewestOf
<1>5. ASSUME NEW p \in B  PROVE p \in A
  <2>1. p \in ToSet(ss) /\ p.t <= t /\ p.t >= t - Staleness /\ \A r \in ToSet(ss) : r.t <= t => r.t <= p.t
    BY DEF NewestOf
  <2>2. p \in ToSet(w) /\ ToSet(w) \subseteq ToSet(ss)
    BY <1>1, <1>3, <2>1
  <2>3. QED
    BY <2>1, <2>2 DEF NewestOf
<1>6. A = B
  BY <1>4, <1>5
<1> HIDE DEF A, B
<1>7. QED
  BY <1>2, <1>6 DEF w

LEMMA StoreIs ==
  ASSUME NEW m \in DOMAIN Store, NEW s \in Store[m]
  PROVE  /\ IsSeries(s.samples)
         /\ s = [labels |-> s.labels, samples |-> s.samples]
         /\ s.labels = [n \in DOMAIN s.labels |-> s.labels[n]]
         /\ \A i \in DOMAIN s.samples : s.samples[i].v \in Int
<1> DEFINE ss == s.samples
<1>1. ss \in Seq([t : Int, v : Int]) /\ \A i, j \in DOMAIN ss : i < j => ss[i].t < ss[j].t
  BY StoreAssumption
<1>2. DOMAIN ss = 1..Len(ss) /\ Len(ss) \in Nat /\ \A i \in DOMAIN ss : ss[i] \in [t : Int, v : Int]
  BY <1>1, LenProperties, ElementOfSeq
<1>3. ss = [i \in 1..Len(ss) |-> ss[i]]
  BY <1>1, <1>2, SeqDef
<1>4. InTime(ss)
  <2> HIDE DEF ss
  <2>1. QED
    BY <1>1, <1>2, <1>3, InTimeIs
<1>5. \A p \in ToSet(ss) : p.v # Stale
  BY <1>2, StalenessAssumption DEF ToSet
<1>6. QED
  BY <1>2, <1>4, <1>5, StoreAssumption DEF IsSeries

\* A series has the labels of a selector exactly if those of these names are them.
LEMMA SelectedIs ==
  ASSUME NEW e \in Exprs, e.kind \in {"selector", "over"}, NEW p, p.metric = e.metric, p.eq = e.eq
  PROVE  SelectedBy(p) = Selected(e) /\ Selected(e) = {s \in Store[e.metric] : s \in Selected(e)}
<1>1. e.metric \in DOMAIN Store /\ e.eq = [n \in DOMAIN e.eq |-> e.eq[n]]
  BY ExprsAssumption
<1>2. ASSUME NEW s \in Store[e.metric]
      PROVE  (\A n \in DOMAIN e.eq : n \in DOMAIN s.labels /\ s.labels[n] = e.eq[n])
               <=> Keep(s.labels, DOMAIN e.eq) = e.eq
  <2> DEFINE D == DOMAIN s.labels \intersect DOMAIN e.eq
             k == [n \in D |-> s.labels[n]]
  <2>1. Keep(s.labels, DOMAIN e.eq) = k
    BY DEF Keep, Restrict
  <2>2. ASSUME \A n \in DOMAIN e.eq : n \in DOMAIN s.labels /\ s.labels[n] = e.eq[n]
        PROVE  k = e.eq
    <3>1. D = DOMAIN e.eq /\ \A n \in DOMAIN e.eq : s.labels[n] = e.eq[n]
      BY <2>2
    <3> HIDE DEF D
    <3>2. k = [n \in DOMAIN e.eq |-> e.eq[n]]
      BY <3>1
    <3>3. QED
      BY <1>1, <3>2
  <2>3. ASSUME k = e.eq
        PROVE  \A n \in DOMAIN e.eq : n \in DOMAIN s.labels /\ s.labels[n] = e.eq[n]
    <3>1. DOMAIN k = D
      OBVIOUS
    <3>2. DOMAIN e.eq = D
      BY <2>3, <3>1
    <3>3. \A n \in D : k[n] = s.labels[n]
      OBVIOUS
    <3> HIDE DEF k
    <3>4. QED
      BY <2>3, <3>2, <3>3
  <2>4. QED
    BY <2>1, <2>2, <2>3
<1>3. SelectedBy(p) = {s \in Store[e.metric] : \A n \in DOMAIN e.eq : n \in DOMAIN s.labels /\ s.labels[n] = e.eq[n]}
  BY <1>1 DEF SelectedBy
<1>4. QED
  BY <1>2, <1>3 DEF Selected

\* Without samples there are no values.
LEMMA NothingIs ==
  /\ \A a, b \in Int : WindowSamples(<<>>, a, b) = <<>>
  /\ \A t \in Int : InstantValue(<<>>, t) = {}
  /\ \A fn, param, a, b : OverRange(fn, param, <<>>, a, b) = {}
  /\ \A ss : IsSeries(ss) => ToSet(ss) = {} <=> ss = <<>>
<1> DEFINE e == <<>>
<1>1. Len(e) = 0 /\ DOMAIN e = {} /\ e \in Seq({}) /\ ToSet(e) = {}
  BY DEF ToSet
<1> HIDE DEF e
<1>2. IsSeries(e)
  BY <1>1 DEF IsSeries, InTime
<1>3. \A ss : IsSeries(ss) => ToSet(ss) = {} <=> ss = e
  BY <1>1, <1>2, SameSamples DEF IsSeries
<1>4. ASSUME NEW a \in Int, NEW b \in Int  PROVE WindowSamples(e, a, b) = e
  <2>1. InTime(WindowSamples(e, a, b)) /\ ToSet(WindowSamples(e, a, b)) = {}
    BY <1>1, <1>2, WindowIs DEF IsSeries
  <2>2. QED
    BY <1>1, <1>2, <2>1, SameSamples DEF IsSeries
<1>5. ASSUME NEW t \in Int  PROVE InstantValue(e, t) = {}
  <2>1. NewestOf(e, t) = {}
    BY <1>1 DEF NewestOf
  <2>2. QED
    BY <1>2, <2>1, InstantIs
<1>6. \A fn, param, a, b : OverRange(fn, param, e, a, b) = {}
  BY <1>1 DEF OverRange
<1>7. QED
  BY <1>3, <1>4, <1>5, <1>6 DEF e

\* What a plan wants: without a metric nothing.
Wanted(p) == IF p.metric = "" THEN {} ELSE SelectedBy(p)

\* FetchesAll, for an expression within the query.
FetchesFor(q, e) ==
  /\ q.start <= q.end
  /\ q.step # 0 => \A b \in Parts[e] : b.kind = "selector" =>
       \A s \in Selected(b) : \A x \in ToSet(s.samples) : x.t # q.start - Staleness - b.offset

\* The window a plan fetches holds all its steps look at.
LEMMA ReachIs ==
  ASSUME NEW q, IsQuery(q), NEW e \in Exprs, FetchesFor(q, e), NEW p \in Transpile(q)[e],
         NEW t \in ToSet(StepsOf(q)), NEW s \in Wanted(p)
  PROVE  /\ IsSeries(s.samples) /\ s = [labels |-> s.labels, samples |-> s.samples]
         /\ p.from \in Int /\ p.to \in Int /\ p.offset \in Int /\ p.range \in Nat /\ t \in Int
         /\ t - p.offset <= p.to
         /\ p.from <= t - p.offset - p.range /\ p.from <= t - p.offset - Staleness
         /\ p.from = t - p.offset - Staleness => \A x \in ToSet(s.samples) : x.t # p.from
<1>1. Reads(p, e, q) /\ p.metric # ""
  BY PlansAreDescribed DEF Describes, Wanted
<1>2. PICK b \in Parts[e] : OfLeaf(p, b, q)
  BY <1>1 DEF Reads
<1>3. b \in Exprs /\ b.kind \in {"selector", "over"}
  BY <1>2, PartsAre DEF OfLeaf
<1>4. /\ b.offset \in Int /\ b.metric \in DOMAIN Store
      /\ b.kind = "over" => b.range \in Nat \ {0}
  BY <1>3, ExprsAssumption
<1>5. /\ p.metric = b.metric /\ p.eq = b.eq /\ p.offset = b.offset
      /\ p.range = (IF b.kind = "over" THEN b.range ELSE 0)
      /\ p.from = From(q) - Staleness - b.offset - p.range
      /\ p.to = q.end - b.offset
  BY <1>2 DEF OfLeaf
<1>6. p.range \in Nat /\ (p.range = 0 <=> b.kind = "selector")
  BY <1>3, <1>4, <1>5
<1>7. s \in Selected(b) /\ s \in Store[b.metric]
  BY <1>1, <1>3, <1>5, SelectedIs DEF Wanted
<1>8. IsSeries(s.samples) /\ s = [labels |-> s.labels, samples |-> s.samples]
  BY <1>4, <1>7, StoreIs
<1>9. t \in Int /\ q.start <= t /\ t <= q.end
  BY StepsAre DEF FetchesFor
<1>10. /\ Staleness \in Nat /\ Staleness # 0 /\ From(q) \in Int /\ q.start \in Int /\ q.end \in Int
       /\ From(q) = IF q.step = 0 THEN q.start - Staleness ELSE q.start
  BY StalenessAssumption, LookbackAssumption DEF From, IsQuery
<1>11. /\ p.from \in Int /\ p.to \in Int /\ p.offset \in Int
       /\ t - p.offset <= p.to
       /\ p.from <= t - p.offset - p.range /\ p.from <= t - p.offset - Staleness
  BY <1>4, <1>5, <1>6, <1>9, <1>10
<1>12. ASSUME p.from = t - p.offset - Staleness, NEW x \in ToSet(s.samples)  PROVE x.t # p.from
  <2>1. q.step # 0 /\ p.range = 0 /\ t = q.start
    BY <1>4, <1>5, <1>6, <1>9, <1>10, <1>12
  <2>2. p.from = q.start - Staleness - b.offset
    BY <1>4, <1>5, <1>10, <2>1
  <2>3. QED
    BY <1>6, <1>7, <2>1, <2>2 DEF FetchesFor
<1>13. QED
  BY <1>6, <1>8, <1>9, <1>11, <1>12

\* A plan's values are those of the table.
LEMMA ValuesAre ==
  ASSUME NEW q, IsQuery(q), NEW e \in Exprs, FetchesFor(q, e), NEW p \in Transpile(q)[e],
         NEW t \in ToSet(StepsOf(q))
  PROVE  /\ ValuesAt(p, Fetch(p), t) = ValuesAt(p, Wanted(p), t)
         /\ p.offset = 0 => AbsentRows(p, Fetch(p), t) = AbsentRows(p, Wanted(p), t)
<1> DEFINE win(s) == WindowSamples(s.samples, p.from, p.to)
           cut(s) == [s EXCEPT !.samples = WindowSamples(@, p.from, p.to)]
<1>1. ASSUME NEW s \in Wanted(p)
      PROVE  /\ ComputeValue(p, win(s), t) = ComputeValue(p, s.samples, t)
             /\ p.offset = 0 => InstantValue(win(s), t) = InstantValue(s.samples, t)
             /\ cut(s) = [labels |-> s.labels, samples |-> win(s)]
             /\ IsSeries(win(s))
  <2>1. /\ IsSeries(s.samples) /\ s = [labels |-> s.labels, samples |-> s.samples]
        /\ p.from \in Int /\ p.to \in Int /\ p.offset \in Int /\ p.range \in Nat /\ t \in Int
        /\ t - p.offset <= p.to
        /\ p.from <= t - p.offset - p.range /\ p.from <= t - p.offset - Staleness
        /\ p.from = t - p.offset - Staleness => \A x \in ToSet(s.samples) : x.t # p.from
    BY ReachIs
  <2>2. InstantValue(win(s), t - p.offset) = InstantValue(s.samples, t - p.offset)
    BY <2>1, InstantOfWindow
  <2>3. /\ WindowSamples(win(s), t - p.offset - p.range, t - p.offset)
             = WindowSamples(s.samples, t - p.offset - p.range, t - p.offset)
        /\ IsSeries(win(s))
    <3> DEFINE a == t - p.offset - p.range
               b == t - p.offset
    <3>1. a \in Int /\ b \in Int /\ p.from <= a /\ b <= p.to
      BY <2>1
    <3> HIDE DEF a, b
    <3>2. WindowSamples(win(s), a, b) = WindowSamples(s.samples, a, b) /\ IsSeries(win(s))
      BY <2>1, <3>1, WindowOfWindow
    <3>3. QED
      BY <3>2 DEF a, b
  <2>4. cut(s) = [labels |-> s.labels, samples |-> win(s)]
    BY <2>1
  <2> HIDE DEF win, cut
  <2>5. ComputeValue(p, win(s), t) = ComputeValue(p, s.samples, t)
    BY <2>2, <2>3 DEF ComputeValue
  <2>6. p.offset = 0 => t - p.offset = t
    BY <2>1
  <2>7. QED
    BY <2>2, <2>3, <2>4, <2>5, <2>6
<1>2. Fetch(p) = {x \in {cut(s) : s \in SelectedBy(p)} : x.samples # <<>>}
  BY DEF Fetch
<1>3. t \in Int
  BY StepsAre DEF FetchesFor
<1>4. CASE p.metric # ""
  <2>1. Wanted(p) = SelectedBy(p)
    BY <1>4 DEF Wanted
  <2>2. \A s \in Wanted(p) : cut(s).samples = win(s) /\ cut(s).labels = s.labels
    BY <1>1
  <2> HIDE DEF win, cut
  <2>3. ASSUME NEW s \in Wanted(p), cut(s) \notin Fetch(p)
        PROVE  ComputeValue(p, s.samples, t) = {} /\ (p.offset = 0 => InstantValue(s.samples, t) = {})
    <3>1. win(s) = <<>>
      BY <1>2, <2>1, <2>2, <2>3
    <3>2. p.range \in Nat /\ p.offset \in Int
      BY ReachIs
    <3>3. /\ WindowSamples(<<>>, t - p.offset - p.range, t - p.offset) = <<>>
          /\ InstantValue(<<>>, t - p.offset) = {} /\ InstantValue(<<>>, t) = {}
          /\ \A fn, param, a, b : OverRange(fn, param, <<>>, a, b) = {}
      BY <1>3, <3>2, NothingIs
    <3>4. ComputeValue(p, <<>>, t) = {}
      BY <3>3 DEF ComputeValue
    <3>5. QED
      BY <1>1, <3>1, <3>3, <3>4
  <2>4. \A x \in Fetch(p) : \E s \in Wanted(p) : x = cut(s)
    BY <1>2, <2>1
  <2>5. ValuesAt(p, Fetch(p), t) = ValuesAt(p, Wanted(p), t)
    <3> DEFINE V(s) == {[labels |-> s.labels, v |-> v] : v \in ComputeValue(p, s.samples, t)}
    <3>1. \A s \in Wanted(p) : V(cut(s)) = V(s)
      BY <1>1, <2>2
    <3>2. \A s \in Wanted(p) : cut(s) \notin Fetch(p) => V(s) = {}
      BY <2>3
    <3>3. \A S : ValuesAt(p, S, t) = UNION {V(s) : s \in S}
      BY DEF ValuesAt
    <3> HIDE DEF V
    <3>4. UNION {V(s) : s \in Fetch(p)} = UNION {V(s) : s \in Wanted(p)}
      <4>1. ASSUME NEW y \in UNION {V(s) : s \in Fetch(p)}  PROVE y \in UNION {V(s) : s \in Wanted(p)}
        BY <2>4, <3>1
      <4>2. ASSUME NEW s \in Wanted(p), NEW y \in V(s)  PROVE y \in UNION {V(x) : x \in Fetch(p)}
        <5>1. cut(s) \in Fetch(p)
          BY <3>2, <4>2
        <5>2. y \in V(cut(s))
          BY <3>1, <4>2
        <5>3. QED
          BY <5>1, <5>2
      <4>3. QED
        BY <4>1, <4>2
    <3>5. QED
      BY <3>3, <3>4
  <2>6. ASSUME p.offset = 0  PROVE AbsentRows(p, Fetch(p), t) = AbsentRows(p, Wanted(p), t)
    <3>1. (\A x \in Fetch(p) : InstantValue(x.samples, t) = {})
            <=> (\A s \in Wanted(p) : InstantValue(s.samples, t) = {})
      <4>1. ASSUME \A x \in Fetch(p) : InstantValue(x.samples, t) = {}, NEW s \in Wanted(p)
            PROVE  InstantValue(s.samples, t) = {}
        BY <1>1, <2>2, <2>3, <2>6, <4>1
      <4>2. ASSUME \A s \in Wanted(p) : InstantValue(s.samples, t) = {}, NEW x \in Fetch(p)
            PROVE  InstantValue(x.samples, t) = {}
        BY <1>1, <2>2, <2>4, <2>6, <4>2
      <4>3. QED
        BY <4>1, <4>2
    <3>2. QED
      BY <3>1 DEF AbsentRows
  <2>7. QED
    BY <2>5, <2>6
<1>5. CASE p.metric = ""
  <2>1. p.from = 0 /\ p.to = 0
    <3>1. Reads(p, e, q)
      BY PlansAreDescribed DEF Describes
    <3>2. ASSUME NEW b \in Parts[e]  PROVE ~OfLeaf(p, b, q)
      <4>1. b \in Exprs
        BY PartsAre
      <4>2. b.kind \in {"selector", "over"} => b.metric # ""
        BY <4>1, ExprsAssumption
      <4>3. QED
        BY <1>5, <4>2 DEF OfLeaf
    <3>3. QED
      BY <3>1, <3>2 DEF Reads
  <2>2. ASSUME NEW s \in SelectedBy(p)  PROVE cut(s).samples = <<>>
    <3>1. "" \in DOMAIN Store /\ s \in Store[""]
      BY <1>5 DEF SelectedBy
    <3>2. IsSeries(s.samples) /\ s = [labels |-> s.labels, samples |-> s.samples]
      BY <3>1, StoreIs
    <3>3. InTime(win(s)) /\ ToSet(win(s)) = {x \in ToSet(s.samples) : p.from < x.t /\ x.t <= p.to}
      <4>1. p.from \in Int /\ p.to \in Int /\ InTime(s.samples)
        BY <2>1, <3>2 DEF IsSeries
      <4>2. QED
        BY <4>1, WindowIs
    <3>4. ToSet(win(s)) = {}
      BY <2>1, <3>2, <3>3, SamplesAre DEF IsSeries
    <3>5. win(s) = <<>>
      BY <3>3, <3>4, NothingIs DEF IsSeries
    <3>6. cut(s).samples = win(s)
      BY <3>2
    <3>7. QED
      BY <3>5, <3>6
  <2> HIDE DEF cut
  <2>3. Fetch(p) = {}
    BY <1>2, <2>2
  <2>4. QED
    BY <1>5, <2>3 DEF Wanted
<1>6. QED
  BY <1>4, <1>5

-----------------------------------------------------------------------------
(***************************************************************************)
(* A range query follows the instants of its steps.                        *)
(***************************************************************************)

\* Without trigonometry, the two evaluators apply the same functions.
LEMMA NoTrig ==
  ASSUME NEW e, NEW seq \in Seq(MathSteps(e)), \A b \in Parts[e] : b.kind = "math" => b.fn # "trig"
  PROVE  \A rows : \A a, b \in BOOLEAN : ApplyMathChain(rows, seq, a) = ApplyMathChain(rows, seq, b)
<1> DEFINE n == Len(seq)
<1>1. n \in Nat /\ \A i \in 1..n : seq[i] \in MathSteps(e)
  BY LenProperties, ElementOfSeq
<1>2. \A i \in 1..n : seq[i].fn # "trig"
  BY <1>1 DEF MathSteps, MathStep
<1>3. ASSUME NEW rows  PROVE ApplyMathChain(rows, seq, TRUE) = ApplyMathChain(rows, seq, FALSE)
  <2> DEFINE y == MathChain(TRUE)
             z == MathChain(FALSE)
  <2>1. y[1] = "math" /\ z[1] = "math" /\ y[2] = TRUE /\ z[2] = FALSE
    BY DEF MathChain
  <2> HIDE DEF y, z, n
  <2>2. /\ Chain(y, rows, seq) = ApplyMathChain(rows, seq, TRUE)
        /\ Chain(z, rows, seq) = ApplyMathChain(rows, seq, FALSE)
        /\ \A r, s : Step(y, r, s) = ApplyMath(r, s, TRUE) /\ Step(z, r, s) = ApplyMath(r, s, FALSE)
    BY <2>1 DEF Chain, Step
  <2>3. \A i \in 1..n : \A r : Step(y, r, seq[i]) = Step(z, r, seq[i])
    <3>1. ASSUME NEW i \in 1..n, NEW r  PROVE ApplyMath(r, seq[i], TRUE) = ApplyMath(r, seq[i], FALSE)
      <4>1. \A v : ApplyMathOp(seq[i], v, TRUE) = ApplyMathOp(seq[i], v, FALSE)
        BY <1>2 DEF ApplyMathOp
      <4>2. QED
        BY <4>1 DEF ApplyMath
    <3>2. QED
      BY <2>2, <3>1
  <2>4. PICK f : After(y, rows, seq, n, f) /\ Chain(y, rows, seq) = f[n]
    BY <1>1, <2>1, ChainIs DEF n
  <2>5. PICK g : After(z, rows, seq, n, g) /\ Chain(z, rows, seq) = g[n]
    BY <1>1, <2>1, ChainIs DEF n
  <2>6. After(z, rows, seq, n, f)
    <3>1. f = [i \in 0..n |-> IF i = 0 THEN rows ELSE Step(y, f[i - 1], seq[i])]
      BY <2>4 DEF After
    <3>2. \A i \in 0..n : i # 0 => i \in 1..n
      BY <1>1
    <3>3. \A i \in 0..n : f[i] = IF i = 0 THEN rows ELSE Step(z, f[i - 1], seq[i])
      BY <2>3, <3>1, <3>2
    <3>4. f = [i \in 0..n |-> f[i]]
      BY <3>1
    <3>5. QED
      BY <3>3, <3>4 DEF After
  <2>7. f = g
    BY <1>1, <2>5, <2>6, AfterIs
  <2>8. QED
    BY <2>2, <2>4, <2>5, <2>7
<1>4. QED
  BY <1>3

\* Plans that differ in what they fetch only are evaluated alike.
LEMMA AlikeIs ==
  ASSUME NEW a, NEW b, AgreeBut(a, b, {"from", "to"})
  PROVE  /\ Wanted(a) = Wanted(b)
         /\ IsAbsent(a) = IsAbsent(b) /\ LosesTime(a) = LosesTime(b)
         /\ \A S, t : ValuesAt(a, S, t) = ValuesAt(b, S, t)
         /\ \A S, t : AbsentRows(a, S, t) = AbsentRows(b, S, t)
         /\ \A rows : InstantRows(rows, a) = InstantRows(rows, b)
         /\ \A rows : StepRows(rows, a) = StepRows(rows, b)
<1>1. /\ a.metric = b.metric /\ a.eq = b.eq /\ a.fn = b.fn /\ a.inner = b.inner /\ a.exprType = b.exprType
      /\ a.aggs = b.aggs /\ a.math = b.math /\ a.param = b.param /\ a.offset = b.offset
      /\ a.range = b.range /\ a.absentEq = b.absentEq /\ a.dst = b.dst /\ a.src = b.src
  BY DEF AgreeBut, Fields
<1>2. Wanted(a) = Wanted(b)
  BY <1>1 DEF Wanted, SelectedBy
<1>3. IsAbsent(a) = IsAbsent(b) /\ IsHistogram(a) = IsHistogram(b)
  BY <1>1 DEF IsAbsent, IsHistogram
<1>4. LosesTime(a) = LosesTime(b)
  BY <1>1, <1>3 DEF LosesTime
<1>5. \A S, t : ValuesAt(a, S, t) = ValuesAt(b, S, t)
  <2>1. \A ss, t : ComputeValue(a, ss, t) = ComputeValue(b, ss, t)
    BY <1>1 DEF ComputeValue
  <2>2. QED
    BY <2>1 DEF ValuesAt
<1>6. \A S, t : AbsentRows(a, S, t) = AbsentRows(b, S, t)
  BY <1>1 DEF AbsentRows
<1>7. /\ \A rows : QuantilesOf(rows, a) = QuantilesOf(rows, b)
      /\ \A rows : ScalarOf(rows, a) = ScalarOf(rows, b)
      /\ \A fns, rows : RelabelledBy(fns, rows, a) = RelabelledBy(fns, rows, b)
  BY <1>1, <1>3 DEF QuantilesOf, ScalarOf, RelabelledBy, ApplyLabelFunc
<1>8. \A rows : InstantRows(rows, a) = InstantRows(rows, b)
  BY <1>1, <1>7 DEF InstantRows
<1>9. \A rows : StepRows(rows, a) = StepRows(rows, b)
  BY <1>1, <1>3, <1>7, <1>8 DEF StepRows
<1>10. QED
  BY <1>2, <1>3, <1>4, <1>5, <1>6, <1>8, <1>9

\* The rows of a step, or of an instant.
LeafRows(p, series, t, ranged) ==
  IF IsAbsent(p) THEN AbsentRows(p, series, t)
  ELSE IF ranged THEN StepRows(ValuesAt(p, series, t), p)
  ELSE InstantRows(ValuesAt(p, series, t), p)

\* Unless it loses the time, the evaluator of a plan puts together the rows of each step.
LEMMA LeafPoints ==
  ASSUME NEW q, NEW p, ~p.isScalar, p.exprType # "time",
         Len(StepsOf(q)) # 1 \/ ~LosesTime(p)
  PROVE  /\ TimesOf(EvalLeaf(p, q).points) \subseteq ToSet(StepsOf(q))
         /\ \A t \in ToSet(StepsOf(q)) :
              RowsAt(EvalLeaf(p, q).points, t) = Unmarked(LeafRows(p, Fetch(p), t, Len(StepsOf(q)) # 1))
<1> DEFINE T == ToSet(StepsOf(q))
           ranged == Len(StepsOf(q)) # 1
           f == [t \in T |-> LeafRows(p, Fetch(p), t, ranged)]
           type == IF ranged THEN "matrix" ELSE "vector"
<1>1. EvalLeaf(p, q) = [type |-> type, points |-> UNION {PointsAt(p, Fetch(p), t, ranged) : t \in T}]
  BY DEF EvalLeaf
<1>2. ASSUME NEW t \in T  PROVE PointsAt(p, Fetch(p), t, ranged) = Stamped(f[t], t)
  BY DEF PointsAt, LeafRows
<1> HIDE DEF f, type, ranged, T
<1>3. EvalLeaf(p, q).points = StepByStep(f, T)
  <2>1. UNION {PointsAt(p, Fetch(p), t, ranged) : t \in T} = UNION {Stamped(f[t], t) : t \in T}
    BY <1>2
  <2>2. QED
    BY <1>1, <2>1 DEF StepByStep
<1>4. TimesOf(EvalLeaf(p, q).points) \subseteq T
  BY <1>3, StepByStepIs
<1>5. \A t \in T : RowsAt(EvalLeaf(p, q).points, t) = Unmarked(f[t])
  BY <1>3, StepByStepIs
<1>6. \A t \in T : f[t] = LeafRows(p, Fetch(p), t, ranged)
  BY DEF f
<1>7. QED
  BY <1>4, <1>5, <1>6 DEF ranged, T

\* Stepwise, for an expression within the query.
SteppedAt(q, e) ==
  /\ \A b \in Parts[e] :
       /\ b.kind # "label_join"
       /\ b.kind = "math" => b.fn # "trig"
       /\ b.kind = "agg" => b.op \notin {"quantile", "count_values"}
       /\ b.kind = "neg" => HasLabels(q, b.arg)
       /\ b.kind = "binary" => OneLiteral(b) \/ Matches(q, b)
       /\ b.kind \notin {"neg", "binary"} => \A x \in Operands(b) : x.kind # "number"
  /\ (\E b \in Parts[e] : AsksAbsent(b)) =>
       \A b \in Parts[e] : b.kind \in {"selector", "over"} => b.offset = 0

\* What a plan of such an expression is not.
LEMMA SteppedPlan ==
  ASSUME NEW q, IsQuery(q), NEW r, NEW e \in Exprs, SteppedAt(r, e), NEW p \in Transpile(q)[e]
  PROVE  /\ p.isScalar <=> e.kind = "number"
         /\ p.isScalar \in BOOLEAN
         /\ p.fn # "label_join" /\ ~LosesTime(p)
         /\ IsAbsent(p) => p.offset = 0
         /\ \A rows : \A a, b \in BOOLEAN : ApplyMathChain(rows, p.math, a) = ApplyMathChain(rows, p.math, b)
         /\ \A rows : StepRows(rows, p) = InstantRows(rows, p)
<1>1. Marked(p, e) /\ Chained(p, e) /\ Reads(p, e, q)
  BY PlansAreDescribed DEF Describes
<1>2. p.isScalar \in BOOLEAN /\ (p.isScalar <=> e.kind = "number")
  <2>1. ASSUME p.isScalar, e.kind # "number"  PROVE FALSE
    <3>1. PICK b \in Parts[e] : b.kind \in Wrapping /\ \E x \in Operands(b) : x.kind = "number"
      BY <1>1, <2>1 DEF Marked
    <3>2. b.kind \notin {"neg", "binary"}
      BY <3>1 DEF Wrapping
    <3>3. QED
      BY <3>1, <3>2 DEF SteppedAt
  <2>2. QED
    BY <1>1, <2>1 DEF Marked
<1>3. p.fn # "label_join"
  BY <1>1 DEF Marked, SteppedAt
<1>4. ~LosesTime(p)
  <2>1. p.aggs \in Seq(AggSteps(e))
    BY <1>1 DEF Chained
  <2>2. \A i \in DOMAIN p.aggs : p.aggs[i] \in AggSteps(e)
    BY <2>1, LenProperties, ElementOfSeq
  <2>3. \A s \in AggSteps(e) : s.op \notin {"quantile", "count_values"}
    BY DEF AggSteps, AggStep, SteppedAt
  <2>4. QED
    BY <2>2, <2>3 DEF LosesTime
<1>5. IsAbsent(p) => p.offset = 0
  <2>1. SUFFICES ASSUME IsAbsent(p)  PROVE p.offset = 0
    OBVIOUS
  <2>2. \A b \in Parts[e] : b.kind \in {"selector", "over"} => b.offset = 0
    BY <1>1, <2>1 DEF Marked, SteppedAt
  <2>3. QED
    BY <1>1, <2>2 DEF Reads, OfLeaf
<1>6. \A rows : \A a, b \in BOOLEAN : ApplyMathChain(rows, p.math, a) = ApplyMathChain(rows, p.math, b)
  <2>1. p.math \in Seq(MathSteps(e))
    BY <1>1 DEF Chained
  <2>2. \A b \in Parts[e] : b.kind = "math" => b.fn # "trig"
    BY DEF SteppedAt
  <2>3. QED
    BY <2>1, <2>2, NoTrig
<1>7. ASSUME NEW rows  PROVE StepRows(rows, p) = InstantRows(rows, p)
  <2>1. CASE IsHistogram(p) \/ p.exprType = "scalar_func"
    BY <2>1 DEF StepRows
  <2>2. CASE ~(IsHistogram(p) \/ p.exprType = "scalar_func")
    <3> DEFINE M(ranged) == ApplyMathChain(ApplyAggChain(rows, p.aggs), p.math, ranged)
    <3>1. M(TRUE) = M(FALSE)
      BY <1>6
    <3>2. StepRows(rows, p) = RelabelledBy({"label_replace"}, M(TRUE), p)
      BY <2>2 DEF StepRows
    <3>3. InstantRows(rows, p) = RelabelledBy({"label_replace", "label_join"}, M(FALSE), p)
      BY <2>2 DEF InstantRows, ScalarOf, QuantilesOf
    <3> HIDE DEF M
    <3>4. QED
      BY <1>3, <3>1, <3>2, <3>3 DEF RelabelledBy
  <2>3. QED
    BY <2>1, <2>2
<1>8. QED
  BY <1>2, <1>3, <1>4, <1>5, <1>6, <1>7

\* At t, a range's result has the rows of an instant's, which has no others.
Follows(res, instant, t) ==
  RowsAt(res.points, t) = RowsAt(instant.points, t) /\ TimesOf(instant.points) \subseteq {t}

LEMMA InstantIsQuery ==
  ASSUME NEW q, NEW t \in Int, DOMAIN q = {"expr", "start", "end", "step"}
  PROVE  LET i == InstantOf(q, t)
         IN /\ IsQuery(i) /\ i.start = t /\ i.end = t /\ i.step = 0 /\ i.expr = q.expr
            /\ StepsOf(i) = <<t>> /\ ToSet(StepsOf(i)) = {t} /\ Len(StepsOf(i)) = 1
            /\ \A e : FetchesFor(i, e)
<1> DEFINE i == InstantOf(q, t)
<1>1. i.start = t /\ i.end = t /\ i.step = 0 /\ i.expr = q.expr
  BY DEF InstantOf
<1> HIDE DEF i
<1>2. IsQuery(i) /\ i.start <= i.end
  BY <1>1 DEF IsQuery
<1>3. QED
  BY <1>1, <1>2, StepsAre DEF FetchesFor, i

LEMMA RangedIs ==
  ASSUME NEW q, IsQuery(q), q.start <= q.end, Ranged(q)
  PROVE  Len(StepsOf(q)) # 1 /\ q.step # 0
<1> DEFINE n == Len(StepsOf(q))
<1>1. n \in Nat /\ (q.step = 0 => n = 1)
  BY StepsAre
<1>2. n > 1
  BY DEF Ranged
<1> HIDE DEF n
<1>3. n # 1
  BY <1>1, <1>2
<1>4. QED
  BY <1>1, <1>3 DEF n

LEMMA LeafFollows ==
  ASSUME NEW q, IsQuery(q), DOMAIN q = {"expr", "start", "end", "step"}, Ranged(q),
         NEW t \in ToSet(StepsOf(q)), NEW e \in Exprs, e.kind # "number",
         FetchesFor(q, e), SteppedAt(q, e),
         NEW a \in Transpile(q)[e], NEW b \in Transpile(InstantOf(q, t))[e]
  PROVE  Follows(EvalLeaf(a, q), EvalLeaf(b, InstantOf(q, t)), t)
<1> DEFINE i == InstantOf(q, t)
<1>1. t \in Int /\ Len(StepsOf(q)) # 1 /\ q.step # 0
  <2>1. t \in Int
    BY StepsAre DEF FetchesFor
  <2>2. QED
    BY <2>1, RangedIs DEF FetchesFor
<1>2. /\ IsQuery(i) /\ i.start = t /\ i.end = t /\ i.step = 0
      /\ ToSet(StepsOf(i)) = {t} /\ Len(StepsOf(i)) = 1 /\ FetchesFor(i, e)
  BY <1>1, InstantIsQuery
<1> HIDE DEF i
<1>3. b \in Transpile(i)[e]
  BY DEF i
<1>4. AgreeBut(a, b, {"from", "to"})
  BY <1>3, PlansAgree
<1>5. a.exprType = b.exprType /\ a.offset = b.offset
  BY <1>4 DEF AgreeBut, Fields
<1>6. /\ ~a.isScalar /\ ~b.isScalar /\ ~LosesTime(a) /\ ~LosesTime(b)
      /\ IsAbsent(a) => a.offset = 0
      /\ \A rows : StepRows(rows, a) = InstantRows(rows, a)
  BY <1>2, <1>3, SteppedPlan
<1>7. CASE a.exprType = "time"
  <2> DEFINE T == ToSet(StepsOf(q))
             P == {[labels |-> NoLabels, t |-> x, v |-> x] : x \in T}
             Q == {[labels |-> NoLabels, t |-> t, v |-> t]}
  <2>1. EvalLeaf(a, q).points = P
    BY <1>1, <1>6, <1>7 DEF EvalLeaf
  <2>2. EvalLeaf(b, i).points = Q
    BY <1>2, <1>5, <1>6, <1>7 DEF EvalLeaf
  <2>3. TimesOf(Q) \subseteq {t}
    BY DEF TimesOf
  <2>4. {x \in P : x.t = t} = Q
    OBVIOUS
  <2>5. {x \in Q : x.t = t} = Q
    OBVIOUS
  <2> HIDE DEF P, Q
  <2>6. RowsAt(P, t) = RowsAt(Q, t)
    BY <2>4, <2>5 DEF RowsAt
  <2>7. QED
    BY <2>1, <2>2, <2>3, <2>6 DEF Follows, i
<1>8. CASE a.exprType # "time"
  <2>1. RowsAt(EvalLeaf(a, q).points, t) = Unmarked(LeafRows(a, Fetch(a), t, TRUE))
    BY <1>1, <1>6, <1>8, LeafPoints
  <2>2. /\ RowsAt(EvalLeaf(b, i).points, t) = Unmarked(LeafRows(b, Fetch(b), t, FALSE))
        /\ TimesOf(EvalLeaf(b, i).points) \subseteq {t}
    BY <1>2, <1>5, <1>6, <1>8, LeafPoints
  <2>3. /\ ValuesAt(a, Fetch(a), t) = ValuesAt(a, Wanted(a), t)
        /\ a.offset = 0 => AbsentRows(a, Fetch(a), t) = AbsentRows(a, Wanted(a), t)
    BY ValuesAre
  <2>4. /\ ValuesAt(b, Fetch(b), t) = ValuesAt(b, Wanted(b), t)
        /\ b.offset = 0 => AbsentRows(b, Fetch(b), t) = AbsentRows(b, Wanted(b), t)
    BY <1>2, <1>3, ValuesAre
  <2>5. LeafRows(a, Fetch(a), t, TRUE) = LeafRows(b, Fetch(b), t, FALSE)
    <3>1. /\ Wanted(a) = Wanted(b) /\ IsAbsent(a) = IsAbsent(b)
          /\ \A S : ValuesAt(a, S, t) = ValuesAt(b, S, t)
          /\ \A S : AbsentRows(a, S, t) = AbsentRows(b, S, t)
          /\ \A rows : InstantRows(rows, a) = InstantRows(rows, b)
      BY <1>4, AlikeIs
    <3>2. QED
      BY <1>5, <1>6, <2>3, <2>4, <3>1 DEF LeafRows
  <2>6. QED
    BY <2>1, <2>2, <2>5 DEF Follows, i
<1>9. QED
  BY <1>7, <1>8

\* The result of a literal, which is taken for a scalar.
LEMMA NumberIs ==
  ASSUME NEW q, IsQuery(q), NEW e \in Exprs, e.kind = "number"
  PROVE  /\ ~HasLabels(q, e)
         /\ \A res \in Results(q)[e] : IsScalarResult(res) /\ ScalarValue(res) = e.v
<1> DEFINE x == [labels |-> NoLabels, t |-> q.start, v |-> e.v]
           res == [type |-> "vector", points |-> {x}]
<1>1. Transpile(q)[e] = {Literal(e.v)}
  BY PlansAre DEF TranspileNode
<1>2. Literal(e.v).isScalar = TRUE /\ Literal(e.v).val = e.v
  BY BlankIs DEF Literal, Fields
<1>3. EvalLeaf(Literal(e.v), q) = res
  BY <1>2 DEF EvalLeaf
<1>4. Results(q)[e] = {res}
  <2>1. Results(q)[e] = UNION {EvalPlan(p, q, Results(q)) : p \in {Literal(e.v)}}
    BY <1>1, ResultsAre
  <2>2. EvalPlan(Literal(e.v), q, Results(q)) = {res}
    BY <1>2, <1>3 DEF EvalPlan
  <2>3. QED
    BY <2>1, <2>2
<1>5. x.labels = NoLabels /\ x.t = q.start /\ x.v = e.v /\ res.points = {x}
  OBVIOUS
<1> HIDE DEF x, res
<1>6. IsScalarResult(res)
  BY <1>5 DEF IsScalarResult
<1>7. ~HasLabels(q, e)
  BY <1>4, <1>5 DEF HasLabels
<1>8. ScalarValue(res) = e.v
  <2>1. {y.t : y \in res.points} = {q.start}
    BY <1>5
  <2>2. Min({q.start}) = q.start
    <3>1. q.start \in Int
      BY DEF IsQuery
    <3>2. {q.start} \in SUBSET Int /\ IsFiniteSet({q.start}) /\ {q.start} # {}
      BY <3>1, FS_Singleton
    <3>3. QED
      BY <3>2, ExtremesAre
  <2>3. (CHOOSE y \in {x} : y.t = q.start) = x
    BY <1>5
  <2>4. QED
    BY <1>5, <2>1, <2>2, <2>3 DEF ScalarValue
<1>9. QED
  BY <1>4, <1>6, <1>7, <1>8

\* A result whose rows have labels is not taken for a scalar, and the instants that it follows
\* are not either.
LEMMA LabelledIs ==
  ASSUME NEW q, NEW e, HasLabels(q, e), NEW res \in Results(q)[e]
  PROVE  /\ ~IsScalarResult(res)
         /\ \A instant, t : ArePoints(instant.points) /\ Follows(res, instant, t) => ~IsScalarResult(instant)
<1>1. \A y \in res.points : y.labels # NoLabels
  BY DEF HasLabels
<1>2. ~IsScalarResult(res)
  BY <1>1 DEF IsScalarResult
<1>3. ASSUME NEW instant, NEW t, Follows(res, instant, t), IsScalarResult(instant)  PROVE FALSE
  <2>1. PICK x \in instant.points : x.labels = NoLabels
    BY <1>3 DEF IsScalarResult
  <2>2. x.t = t
    BY <1>3 DEF Follows, TimesOf
  <2>3. [labels |-> x.labels, v |-> x.v] \in RowsAt(res.points, t)
    <3>1. [labels |-> x.labels, v |-> x.v] \in RowsAt(instant.points, t)
      BY <2>2 DEF RowsAt
    <3>2. QED
      BY <1>3, <3>1 DEF Follows
  <2>4. PICK y \in res.points : [labels |-> x.labels, v |-> x.v] = [labels |-> y.labels, v |-> y.v]
    BY <2>3 DEF RowsAt
  <2>5. x.labels = y.labels
    BY <2>4
  <2>6. QED
    BY <1>1, <2>1, <2>5
<1>4. QED
  BY <1>2, <1>3

\* The parts of an expression are as it is.
LEMMA PartsAreStepped ==
  ASSUME NEW q, NEW e \in Exprs, NEW x \in Parts[e]
  PROVE  /\ SteppedAt(q, e) => SteppedAt(q, x)
         /\ FetchesFor(q, e) => FetchesFor(q, x)
<1>1. Parts[x] \subseteq Parts[e]
  BY PartsAre
<1>2. SteppedAt(q, e) => SteppedAt(q, x)
  BY <1>1 DEF SteppedAt
<1>3. FetchesFor(q, e) => FetchesFor(q, x)
  BY <1>1 DEF FetchesFor
<1>4. QED
  BY <1>2, <1>3

\* Operations with a literal, mathematical functions and operations on rows that match
\* follow the instants if the sides do.
LEMMA ScalarFollows ==
  ASSUME NEW op, NEW res, NEW instant, IsResult(res), IsResult(instant),
         NEW t, Follows(res, instant, t), NEW scalar, NEW onLeft
  PROVE  Follows(ApplyScalarBinary(res, scalar, op, onLeft),
                 ApplyScalarBinary(instant, scalar, op, onLeft), t)
<1> DEFINE A(x) == ApplyScalarBinary(x, scalar, op, onLeft)
<1>1. /\ RowsAt(A(res).points, t) = OneOver(op, RowsAt(res.points, t), scalar, onLeft)
      /\ TimesOf(A(res).points) \subseteq TimesOf(res.points)
  BY ScalarBinaryIs
<1>2. /\ RowsAt(A(instant).points, t) = OneOver(op, RowsAt(instant.points, t), scalar, onLeft)
      /\ TimesOf(A(instant).points) \subseteq TimesOf(instant.points)
  BY ScalarBinaryIs
<1> HIDE DEF A
<1>3. Follows(A(res), A(instant), t)
  BY <1>1, <1>2 DEF Follows
<1>4. QED
  BY <1>3 DEF A

LEMMA MathFollows ==
  ASSUME NEW p, Len(p.math) \in Nat,
         \A rows : \A a, b \in BOOLEAN : ApplyMathChain(rows, p.math, a) = ApplyMathChain(rows, p.math, b),
         NEW res, NEW instant, IsResult(res), IsResult(instant), NEW t, Follows(res, instant, t)
  PROVE  Follows(WithMath(res, p), WithMath(instant, p), t)
<1>1. ASSUME NEW x, IsResult(x)
      PROVE  /\ RowsAt(WithMath(x, p).points, t) = ApplyMathChain(RowsAt(x.points, t), p.math, TRUE)
             /\ TimesOf(WithMath(x, p).points) = TimesOf(x.points)
  <2>1. /\ RowsAt(WithMath(x, p).points, t) = ApplyMathChain(RowsAt(x.points, t), p.math, x.type = "matrix")
        /\ TimesOf(WithMath(x, p).points) = TimesOf(x.points)
    BY <1>1, WithMathIs
  <2>2. (x.type = "matrix") \in BOOLEAN /\ TRUE \in BOOLEAN
    OBVIOUS
  <2>3. ApplyMathChain(RowsAt(x.points, t), p.math, x.type = "matrix")
          = ApplyMathChain(RowsAt(x.points, t), p.math, TRUE)
    BY <2>2
  <2>4. QED
    BY <2>1, <2>3
<1>2. QED
  BY <1>1 DEF Follows

LEMMA JoinFollows ==
  ASSUME NEW q, NEW i, NEW t \in ToSet(StepsOf(q)), ToSet(StepsOf(i)) = {t},
         NEW p, NEW l, NEW r, NEW m, NEW s, Follows(l, m, t), Follows(r, s, t)
  PROVE  Follows(Joined(p, l, r, q), Joined(p, m, s, i), t)
<1>1. RowsAt(Joined(p, l, r, q).points, t) = Unmarked(BothAt(p, l, r, t))
  BY JoinedIs
<1>2. /\ RowsAt(Joined(p, m, s, i).points, t) = Unmarked(BothAt(p, m, s, t))
      /\ TimesOf(Joined(p, m, s, i).points) \subseteq {t}
  BY JoinedIs
<1>3. BothAt(p, l, r, t) = BothAt(p, m, s, t)
  BY DEF Follows, BothAt
<1>4. QED
  BY <1>1, <1>2, <1>3 DEF Follows

\* An expression's results for a range follow those for the instant t.
FollowsAt(q, t, x) ==
  x.kind # "number" =>
    \A res \in Results(q)[x], instant \in Results(InstantOf(q, t))[x] : Follows(res, instant, t)

\* So do the results of an operation if those of its sides do.
LEMMA OperationFollows ==
  ASSUME NEW q, IsQuery(q), DOMAIN q = {"expr", "start", "end", "step"}, Ranged(q),
         NEW t \in ToSet(StepsOf(q)), NEW e \in Exprs,
         FetchesFor(q, e), SteppedAt(q, e),
         \A x \in Below(e) : FollowsAt(q, t, x),
         NEW a \in Transpile(q)[e], NEW b \in Transpile(InstantOf(q, t))[e],
         ~a.isScalar, a.exprType = "binary",
         NEW res \in EvalPlan(a, q, Results(q)),
         NEW instant \in EvalPlan(b, InstantOf(q, t), Results(InstantOf(q, t)))
  PROVE  Follows(res, instant, t)
<1> DEFINE i == InstantOf(q, t)
<1>1. t \in Int
  BY StepsAre DEF FetchesFor
<1>2. IsQuery(i) /\ ToSet(StepsOf(i)) = {t}
  BY <1>1, InstantIsQuery
<1> HIDE DEF i
<1>3. b \in Transpile(i)[e] /\ instant \in EvalPlan(b, i, Results(i))
  BY DEF i
<1>4. AgreeBut(a, b, {"from", "to"})
  BY <1>3, PlansAgree
<1>5. /\ a.isScalar = b.isScalar /\ a.exprType = b.exprType /\ a.op = b.op /\ a.lhs = b.lhs /\ a.rhs = b.rhs
      /\ a.match = b.match /\ a.scalarL = b.scalarL /\ a.scalarR = b.scalarR /\ a.valL = b.valL
      /\ a.valR = b.valR /\ a.math = b.math
  BY <1>4 DEF AgreeBut, Fields
<1>6. /\ \A x : WithMath(x, b) = WithMath(x, a)
      /\ \A l, r, k : Joined(b, l, r, k) = Joined(a, l, r, k)
  BY <1>5 DEF WithMath, Joined, BothAt
<1>7. /\ Len(a.math) \in Nat
      /\ \A rows : \A c, d \in BOOLEAN : ApplyMathChain(rows, a.math, c) = ApplyMathChain(rows, a.math, d)
  <2>1. a.math \in Seq(MathSteps(e))
    BY PlansAreDescribed DEF Describes, Chained
  <2>2. Len(a.math) \in Nat
    BY <2>1, LenProperties
  <2>3. QED
    BY <2>2, SteppedPlan
<1>8. PICK o \in Parts[e] :
        /\ o \in Exprs /\ a.lhs \in Below(o) /\ a.rhs \in Below(o)
        /\ \/ /\ o.kind = "neg"
              /\ AgreeBut(a, Negation(o), {"math"})
              /\ a.lhs = Zero /\ a.rhs = o.arg
           \/ /\ o.kind = "binary"
              /\ a.lhs = o.lhs /\ a.rhs = o.rhs
              /\ \E l \in Transpile(q)[o.lhs], r \in Transpile(q)[o.rhs] :
                   AgreeBut(a, TranspileBinaryExpr(o, l, r), {"math"})
  BY OperationOf
<1>9. /\ a.lhs \in Below(e) /\ a.rhs \in Below(e) /\ a.lhs \in Exprs /\ a.rhs \in Exprs
      /\ SteppedAt(q, o)
      /\ a.lhs \in Parts[e] /\ a.rhs \in Parts[e]
  BY <1>8, PartsAre, PartsAreStepped DEF Below
<1>10. /\ \A l \in Results(q)[a.lhs] : IsResult(l)
       /\ \A r \in Results(q)[a.rhs] : IsResult(r)
       /\ \A l \in Results(i)[a.lhs] : IsResult(l)
       /\ \A r \in Results(i)[a.rhs] : IsResult(r)
  BY <1>2, <1>9, ResultsAreResults
<1>11. /\ a.lhs.kind # "number" => \A l \in Results(q)[a.lhs], m \in Results(i)[a.lhs] : Follows(l, m, t)
       /\ a.rhs.kind # "number" => \A r \in Results(q)[a.rhs], s \in Results(i)[a.rhs] : Follows(r, s, t)
  BY <1>9 DEF FollowsAt, i
\* A literal on the right.
<1>12. ASSUME a.scalarR, a.lhs.kind # "number"  PROVE Follows(res, instant, t)
  <2>1. PICK l \in Results(q)[a.lhs] : res = WithMath(ApplyScalarBinary(l, a.valR, a.op, FALSE), a)
    BY <1>12 DEF EvalPlan
  <2>2. PICK m \in Results(i)[a.lhs] : instant = WithMath(ApplyScalarBinary(m, a.valR, a.op, FALSE), a)
    <3>1. ~b.isScalar /\ b.exprType = "binary" /\ b.scalarR
      BY <1>5, <1>12
    <3>2. EvalPlan(b, i, Results(i))
            = {WithMath(ApplyScalarBinary(m, b.valR, b.op, FALSE), b) : m \in Results(i)[b.lhs]}
      BY <3>1 DEF EvalPlan
    <3>3. PICK m \in Results(i)[b.lhs] : instant = WithMath(ApplyScalarBinary(m, b.valR, b.op, FALSE), b)
      BY <1>3, <3>2
    <3>4. QED
      BY <1>5, <1>6, <3>3
  <2>3. Follows(l, m, t) /\ IsResult(l) /\ IsResult(m)
    BY <1>10, <1>11, <1>12
  <2>4. Follows(ApplyScalarBinary(l, a.valR, a.op, FALSE), ApplyScalarBinary(m, a.valR, a.op, FALSE), t)
    BY <2>3, ScalarFollows
  <2>5. IsResult(ApplyScalarBinary(l, a.valR, a.op, FALSE)) /\ IsResult(ApplyScalarBinary(m, a.valR, a.op, FALSE))
    BY <2>3, ScalarBinaryIs
  <2>6. QED
    BY <1>7, <2>1, <2>2, <2>4, <2>5, MathFollows
\* A literal on the left.
<1>13. ASSUME ~a.scalarR, a.scalarL, a.rhs.kind # "number"  PROVE Follows(res, instant, t)
  <2>1. PICK l \in Results(q)[a.rhs] : res = WithMath(ApplyScalarBinary(l, a.valL, a.op, TRUE), a)
    BY <1>13 DEF EvalPlan
  <2>2. PICK m \in Results(i)[a.rhs] : instant = WithMath(ApplyScalarBinary(m, a.valL, a.op, TRUE), a)
    <3>1. ~b.isScalar /\ b.exprType = "binary" /\ ~b.scalarR /\ b.scalarL
      BY <1>5, <1>13
    <3>2. EvalPlan(b, i, Results(i))
            = {WithMath(ApplyScalarBinary(m, b.valL, b.op, TRUE), b) : m \in Results(i)[b.rhs]}
      BY <3>1 DEF EvalPlan
    <3>3. PICK m \in Results(i)[b.rhs] : instant = WithMath(ApplyScalarBinary(m, b.valL, b.op, TRUE), b)
      BY <1>3, <3>2
    <3>4. QED
      BY <1>5, <1>6, <3>3
  <2>3. Follows(l, m, t) /\ IsResult(l) /\ IsResult(m)
    BY <1>10, <1>11, <1>13
  <2>4. Follows(ApplyScalarBinary(l, a.valL, a.op, TRUE), ApplyScalarBinary(m, a.valL, a.op, TRUE), t)
    BY <2>3, ScalarFollows
  <2>5. IsResult(ApplyScalarBinary(l, a.valL, a.op, TRUE)) /\ IsResult(ApplyScalarBinary(m, a.valL, a.op, TRUE))
    BY <2>3, ScalarBinaryIs
  <2>6. QED
    BY <1>7, <2>1, <2>2, <2>4, <2>5, MathFollows
\* Both sides are evaluated, and the right side's rows have labels.
<1>14. ASSUME ~a.scalarR, ~a.scalarL, HasLabels(q, a.rhs)
       PROVE  \E l \in Results(q)[a.lhs], r \in Results(q)[a.rhs],
                 m \in Results(i)[a.lhs], s \in Results(i)[a.rhs] :
                /\ res \in Combine(a, l, r, q) /\ instant \in Combine(b, m, s, i)
                /\ Follows(r, s, t) /\ ~IsScalarResult(r) /\ ~IsScalarResult(s)
  <2>1. PICK l \in Results(q)[a.lhs], r \in Results(q)[a.rhs] : res \in Combine(a, l, r, q)
    BY <1>14 DEF EvalPlan
  <2>2. PICK m \in Results(i)[a.lhs], s \in Results(i)[a.rhs] : instant \in Combine(b, m, s, i)
    BY <1>3, <1>5, <1>14 DEF EvalPlan
  <2>3. a.rhs.kind # "number"
    BY <1>9, <1>14, NumberIs
  <2>4. Follows(r, s, t) /\ ArePoints(s.points)
    BY <1>10, <1>11, <2>3 DEF IsResult
  <2>5. ~IsScalarResult(r) /\ ~IsScalarResult(s)
    BY <1>14, <2>4, LabelledIs
  <2>6. QED
    BY <2>1, <2>2, <2>4, <2>5
<1>15. CASE o.kind = "neg"
  <2>1. ~a.scalarR /\ ~a.scalarL
    <3>1. AgreeBut(Negation(o), Blank, {"exprType", "op", "lhs", "rhs", "match"})
      BY BasesAre
    <3>2. AgreeBut(a, Negation(o), {"math"})
      BY <1>8, <1>15
    <3>3. QED
      BY <3>1, <3>2, BlankFields DEF AgreeBut, Fields
  <2>2. a.lhs = Zero /\ a.rhs = o.arg /\ HasLabels(q, o.arg)
    BY <1>8, <1>9, <1>15, PartsAre DEF SteppedAt
  <2>3. PICK l \in Results(q)[a.lhs], r \in Results(q)[a.rhs],
              m \in Results(i)[a.lhs], s \in Results(i)[a.rhs] :
          /\ res \in Combine(a, l, r, q) /\ instant \in Combine(b, m, s, i)
          /\ Follows(r, s, t) /\ ~IsScalarResult(r) /\ ~IsScalarResult(s)
    BY <1>14, <2>1, <2>2
  <2>4. Zero.kind = "number" /\ Zero.v = 0
    BY DEF Zero
  <2>5. /\ IsScalarResult(l) /\ ScalarValue(l) = 0
        /\ IsScalarResult(m) /\ ScalarValue(m) = 0
    BY <1>2, <1>9, <2>2, <2>4, NumberIs
  <2>6. res = ApplyScalarBinary(r, 0, a.op, TRUE) /\ instant = ApplyScalarBinary(s, 0, a.op, TRUE)
    <3>1. Combine(a, l, r, q) = {ApplyScalarBinary(r, ScalarValue(l), a.op, TRUE)}
      BY <2>3, <2>5, CombineIs
    <3>2. Combine(b, m, s, i) = {ApplyScalarBinary(s, ScalarValue(m), b.op, TRUE)}
      BY <2>3, <2>5, CombineIs
    <3>3. QED
      BY <1>5, <2>3, <2>5, <3>1, <3>2
  <2>7. IsResult(r) /\ IsResult(s)
    BY <1>10
  <2>8. QED
    BY <2>3, <2>6, <2>7, ScalarFollows
<1>16. CASE o.kind = "binary"
  <2>1. PICK l \in Transpile(q)[o.lhs], r \in Transpile(q)[o.rhs] :
          AgreeBut(a, TranspileBinaryExpr(o, l, r), {"math"})
    BY <1>8, <1>16
  <2>2. a.lhs = o.lhs /\ a.rhs = o.rhs
    BY <1>8, <1>16
  <2>3. a.scalarL = l.isScalar /\ a.scalarR = r.isScalar
    <3>1. /\ TranspileBinaryExpr(o, l, r).scalarL = l.isScalar
          /\ TranspileBinaryExpr(o, l, r).scalarR = r.isScalar
      BY OperationIs
    <3>2. QED
      BY <2>1, <3>1 DEF AgreeBut, Fields
  <2>4. (l.isScalar <=> o.lhs.kind = "number") /\ (r.isScalar <=> o.rhs.kind = "number")
    <3>1. SteppedAt(q, o.lhs) /\ SteppedAt(q, o.rhs) /\ o.lhs \in Exprs /\ o.rhs \in Exprs
      BY <1>9, <2>2, PartsAreStepped
    <3>2. QED
      BY <3>1, SteppedPlan
  <2>5. OneLiteral(o) \/ Matches(q, o)
    BY <1>9, <1>8, <1>16, PartsAre DEF SteppedAt
  <2>6. CASE OneLiteral(o)
    BY <1>12, <1>13, <2>2, <2>3, <2>4, <2>6 DEF OneLiteral
  <2>7. CASE Matches(q, o)
    <3>1. HasLabels(q, a.lhs) /\ HasLabels(q, a.rhs)
      BY <2>2, <2>7 DEF Matches
    <3>2. a.lhs.kind # "number" /\ a.rhs.kind # "number"
      BY <1>9, <3>1, NumberIs
    <3>3. ~a.scalarL /\ ~a.scalarR
      BY <2>2, <2>3, <2>4, <3>2
    <3>4. PICK x \in Results(q)[a.lhs], y \in Results(q)[a.rhs],
                m \in Results(i)[a.lhs], s \in Results(i)[a.rhs] :
            /\ res \in Combine(a, x, y, q) /\ instant \in Combine(b, m, s, i)
            /\ Follows(y, s, t) /\ ~IsScalarResult(y) /\ ~IsScalarResult(s)
      BY <1>14, <3>1, <3>3
    <3>5. Follows(x, m, t) /\ ArePoints(m.points)
      BY <1>10, <1>11, <3>2 DEF IsResult
    <3>6. ~IsScalarResult(x) /\ ~IsScalarResult(m)
      BY <3>1, <3>5, LabelledIs
    <3>7. res = WithMath(Joined(a, x, y, q), a) /\ instant = WithMath(Joined(a, m, s, i), a)
      <4>1. Combine(a, x, y, q) \subseteq {WithMath(Joined(a, x, y, q), a)}
        BY <3>4, <3>6, CombineIs
      <4>2. Combine(b, m, s, i) \subseteq {WithMath(Joined(b, m, s, i), b)}
        BY <3>4, <3>6, CombineIs
      <4>3. QED
        BY <1>6, <3>4, <4>1, <4>2
    <3>8. Follows(Joined(a, x, y, q), Joined(a, m, s, i), t)
      BY <1>2, <3>4, <3>5, JoinFollows
    <3>9. IsResult(Joined(a, x, y, q)) /\ IsResult(Joined(a, m, s, i))
      BY JoinedIs
    <3>10. QED
      BY <1>7, <3>7, <3>8, <3>9, MathFollows
  <2>8. QED
    BY <2>5, <2>6, <2>7
<1>17. QED
  BY <1>8, <1>15, <1>16

\* The results of every expression for a range follow those for each of its steps.
LEMMA ResultsFollow ==
  ASSUME NEW q, IsQuery(q), DOMAIN q = {"expr", "start", "end", "step"}, Ranged(q),
         NEW t \in ToSet(StepsOf(q)), NEW e \in Exprs, FetchesFor(q, e), SteppedAt(q, e)
  PROVE  FollowsAt(q, t, e)
<1> DEFINE i == InstantOf(q, t)
           Good == {x \in Exprs : FetchesFor(q, x) /\ SteppedAt(q, x) => FollowsAt(q, t, x)}
<1>1. t \in Int
  BY StepsAre DEF FetchesFor
<1>2. IsQuery(i)
  BY <1>1, InstantIsQuery
<1> HIDE DEF i
<1>3. ASSUME NEW x \in Exprs, Below(x) \subseteq Good  PROVE x \in Good
  <2>1. SUFFICES ASSUME FetchesFor(q, x), SteppedAt(q, x), x.kind # "number",
                        NEW res \in Results(q)[x], NEW instant \in Results(i)[x]
                 PROVE  Follows(res, instant, t)
    BY DEF FollowsAt, i
  <2>2. PICK a \in Transpile(q)[x] : res \in EvalPlan(a, q, Results(q))
    BY ResultsAre
  <2>3. PICK b \in Transpile(i)[x] : instant \in EvalPlan(b, i, Results(i))
    BY <1>2, ResultsAre
  <2>4. a.isScalar = b.isScalar /\ a.exprType = b.exprType
    <3>1. AgreeBut(a, b, {"from", "to"})
      BY PlansAgree
    <3>2. QED
      BY <3>1 DEF AgreeBut, Fields
  <2>5. ~a.isScalar
    BY <2>1, SteppedPlan
  <2>6. \A y \in Below(x) : FollowsAt(q, t, y)
    <3>1. SUFFICES ASSUME NEW y \in Below(x)  PROVE FollowsAt(q, t, y)
      OBVIOUS
    <3>2. y \in Parts[x] /\ y \in Good
      BY <1>3 DEF Below
    <3>3. FetchesFor(q, y) /\ SteppedAt(q, y)
      BY <2>1, <3>2, PartsAreStepped
    <3>4. QED
      BY <3>2, <3>3
  <2>7. CASE a.exprType = "binary"
    <3>1. b \in Transpile(InstantOf(q, t))[x]
          /\ instant \in EvalPlan(b, InstantOf(q, t), Results(InstantOf(q, t)))
      BY <2>3 DEF i
    <3> HIDE DEF Good
    <3>2. QED
      BY <2>1, <2>2, <2>5, <2>6, <2>7, <3>1, OperationFollows
  <2>8. CASE a.exprType # "binary"
    <3>1. res = EvalLeaf(a, q) /\ instant = EvalLeaf(b, i)
      BY <2>2, <2>3, <2>4, <2>8 DEF EvalPlan
    <3>2. b \in Transpile(InstantOf(q, t))[x]
      BY <2>3 DEF i
    <3> HIDE DEF Good
    <3>3. Follows(EvalLeaf(a, q), EvalLeaf(b, InstantOf(q, t)), t)
      BY <2>1, <3>2, LeafFollows
    <3>4. QED
      BY <3>1, <3>3 DEF i
  <2>9. QED
    BY <2>7, <2>8
<1> HIDE DEF Good
<1>4. \A x \in Exprs : x \in Good
  BY <1>3, TreeInduction
<1>5. QED
  BY <1>4 DEF Good

\* Two evaluators, series by series for a range and row by row for an instant, agree at
\* every step of every query that both evaluate step by step, for every expression.
THEOREM RangesFollowInstants == Spec => []RangeFollowsInstant
<1>1. Inv => RangeFollowsInstant
  <2>1. SUFFICES ASSUME Inv, pc = "answered", path = "eval", Ranged(query), FetchesAll(query),
                        Stepwise(query), NEW res \in answer, NEW t \in ToSet(StepsOf(query)),
                        NEW instant \in Results(InstantOf(query, t))[query.expr]
                 PROVE  RowsAt(res.points, t) = RowsAt(instant.points, t)
    BY DEF RangeFollowsInstant
  <2>2. /\ query \in Queries /\ answer = Results(query)[query.expr]
        /\ IsQuery(query) /\ query.expr \in Exprs /\ DOMAIN query = {"expr", "start", "end", "step"}
    BY <2>1, QueryIs, QueriesAssumption DEF Inv
  <2>3. FetchesFor(query, query.expr)
    BY <2>1 DEF FetchesAll, FetchesFor
  <2>4. SteppedAt(query, query.expr) /\ query.expr.kind # "number"
    BY <2>1 DEF Stepwise, SteppedAt
  <2>5. FollowsAt(query, t, query.expr)
    BY <2>1, <2>2, <2>3, <2>4, ResultsFollow
  <2>6. Follows(res, instant, t)
    BY <2>1, <2>2, <2>4, <2>5 DEF FollowsAt
  <2>7. QED
    BY <2>6 DEF Follows
<1>2. QED
  BY <1>1, InvHolds, PTL

-----------------------------------------------------------------------------
(***************************************************************************)
(* What a plan computes is what its expression means.                      *)
(***************************************************************************)

\* Vectors whose rows are no more than labels and a value.
AreRows(rows) == \A r \in rows : r = [labels |-> r.labels, v |-> r.v]

\* Taking the marks off rows leaves rows as they are, and the rows of a step have none.
LEMMA RowsStay ==
  /\ \A rows : AreRows(Unmarked(rows))
  /\ \A rows : AreRows(rows) => Unmarked(rows) = rows
  /\ \A points, t : AreRows(RowsAt(points, t))
<1> DEFINE row(r) == [labels |-> r.labels, v |-> r.v]
<1>1. \A r : row(r) = [labels |-> row(r).labels, v |-> row(r).v]
  OBVIOUS
<1>2. \A rows : AreRows(rows) => \A r \in rows : row(r) = r
  BY DEF AreRows
<1>3. /\ \A rows : Unmarked(rows) = {row(r) : r \in rows}
      /\ \A points, t : RowsAt(points, t) = {row(x) : x \in {x \in points : x.t = t}}
  BY DEF Unmarked, RowsAt
<1>4. \A S : AreRows({row(r) : r \in S})
  BY <1>1 DEF AreRows
<1> HIDE DEF row
<1>5. ASSUME NEW rows, AreRows(rows)  PROVE {row(r) : r \in rows} = rows
  BY <1>2, <1>5
<1>6. QED
  BY <1>3, <1>4, <1>5

\* Samples in the order of time: at each place the one with as many before it.
LEMMA PlacesAre ==
  ASSUME NEW w, InTime(w)
  PROVE  LET S == ToSet(w)
         IN w = [i \in 1..Cardinality(S) |->
                   CHOOSE x \in S : Cardinality({y \in S : y.t < x.t}) = i - 1]
<1> DEFINE S == ToSet(w)
           n == Cardinality(S)
           rank(x) == Cardinality({y \in S : y.t < x.t})
           f == [i \in 1..n |-> CHOOSE x \in S : rank(x) = i - 1]
           R == {<<p[1], p[2]>> : p \in {p \in S \X S : p[1].t < p[2].t}}
<1>1. /\ IsFiniteSet(S) /\ n \in Nat
      /\ \A x \in S : x.t \in Int
      /\ \A x, y \in S : x.t = y.t => x = y
  BY SamplesAre, CountIs
<1> HIDE DEF S
<1>2. \A x, y \in S : <<x, y>> \in R <=> x.t < y.t
  <2>1. SUFFICES ASSUME NEW x \in S, NEW y \in S  PROVE <<x, y>> \in R <=> x.t < y.t
    OBVIOUS
  <2>2. x.t < y.t => <<x, y>> \in R
    <3>1. SUFFICES ASSUME x.t < y.t  PROVE <<x, y>> \in R
      OBVIOUS
    <3>2. <<x, y>> \in {p \in S \X S : p[1].t < p[2].t}
      BY <3>1
    <3>3. QED
      BY <3>2
  <2>3. <<x, y>> \in R => x.t < y.t
    OBVIOUS
  <2>4. QED
    BY <2>2, <2>3
<1> HIDE DEF R
<1>3. StrictOrder(R, S)
  <2>1. \A x \in S : <<x, x>> \notin R
    BY <1>1, <1>2
  <2>2. \A x, y \in S : x # y => <<x, y>> \in R \/ <<y, x>> \in R
    BY <1>1, <1>2
  <2>3. \A x, y, z \in S : <<x, y>> \in R /\ <<y, z>> \in R => <<x, z>> \in R
    BY <1>1, <1>2
  <2>4. QED
    BY <2>1, <2>2, <2>3 DEF StrictOrder
<1>4. \A x \in S : HowManyBefore(x, S, R) = rank(x)
  BY <1>2 DEF HowManyBefore
<1>5. \A i \in 1..n : \E x \in S : rank(x) = i - 1
  BY <1>1, <1>3, <1>4, PlaceIsTaken
<1> HIDE DEF rank
<1>6. f = [i \in 1..n |-> f[i]] /\ \A i \in 1..n : f[i] \in S /\ rank(f[i]) = i - 1
  BY <1>5
<1> HIDE DEF f
<1>7. Ranked(f, S, R)
  <2>1. \A i \in 1..n : Cardinality({y \in S : <<y, f[i]>> \in R}) = i - 1
    BY <1>4, <1>6 DEF HowManyBefore
  <2>2. QED
    BY <1>6, <2>1 DEF Ranked
<1>8. /\ \A i, j \in 1..n : i < j => <<f[i], f[j]>> \in R
      /\ \A x \in S : \E i \in 1..n : f[i] = x
  BY <1>1, <1>3, <1>7, OrderIs
<1>9. InTime(f) /\ Len(f) = n
  <2>1. \A i, j \in 1..n : i < j => f[i].t < f[j].t
    BY <1>2, <1>6, <1>8
  <2>2. \A i \in 1..n : f[i].t \in Int
    BY <1>1, <1>6
  <2>3. QED
    BY <1>1, <1>6, <2>1, <2>2, InTimeIs
<1>10. ToSet(f) = S
  <2>1. ToSet(f) = {f[i] : i \in 1..n}
    BY <1>9, SamplesAre
  <2>2. QED
    BY <1>6, <1>8, <2>1
<1>11. w = f
  BY <1>9, <1>10, SameSamples DEF S
<1>12. QED
  BY <1>11 DEF f, S, rank

\* A plan's values at t are what the selector means.
LEMMA SelectorValues ==
  ASSUME NEW e \in Exprs, e.kind = "selector", NEW t \in Int,
         NEW p, p.metric = e.metric, p.eq = e.eq, p.offset = e.offset,
         p.fn \notin WindowFunctions \union {"histogram_quantile"}
  PROVE  ValuesAt(p, Wanted(p), t) = Meaning(t)[e]
<1> DEFINE u == t - e.offset
           row(s, v) == [labels |-> s.labels, v |-> v]
<1>1. e.metric # "" /\ e.metric \in DOMAIN Store /\ u \in Int
  <2>1. e.metric # "" /\ e.metric \in DOMAIN Store /\ e.offset \in Int
    BY ExprsAssumption
  <2>2. \A x, y \in Int : x - y \in Int
    OBVIOUS
  <2>3. u \in Int
    BY <2>1, <2>2
  <2> HIDE DEF u
  <2>4. QED
    BY <2>1, <2>3
<1>2. Wanted(p) = Selected(e) /\ \A s \in Selected(e) : s \in Store[e.metric]
  BY <1>1, SelectedIs DEF Wanted
<1> HIDE DEF u
<1>3. ASSUME NEW s \in Selected(e)  PROVE ComputeValue(p, s.samples, t) = LookedUp(s, u)
  <2>1. IsSeries(s.samples)
    BY <1>1, <1>2, StoreIs
  <2>2. ComputeValue(p, s.samples, t) = InstantValue(s.samples, u)
    BY DEF ComputeValue, u
  <2>3. QED
    BY <1>1, <2>1, <2>2, LookedUpIs
<1>4. Meaning(t)[e] = UNION {{row(s, v) : v \in LookedUp(s, u)} : s \in Selected(e)}
  <2>1. Meaning(t)[e] = MeaningNode(e, t, Meaning(t))
    BY MeaningsAre
  <2>2. QED
    BY <2>1 DEF MeaningNode, RowsOf, u
<1>5. ValuesAt(p, Wanted(p), t) = UNION {{row(s, v) : v \in ComputeValue(p, s.samples, t)} : s \in Selected(e)}
  BY <1>2 DEF ValuesAt
<1> HIDE DEF row
<1>6. QED
  BY <1>3, <1>4, <1>5

\* The window of a function's selector.
LEMMA WindowMeans ==
  ASSUME NEW e, NEW s, IsSeries(s.samples), NEW t \in Int, e.offset \in Int, e.range \in Nat
  PROVE  InWindow(e, s, t) = WindowSamples(s.samples, t - e.offset - e.range, t - e.offset)
<1> DEFINE b == t - e.offset
           a == t - e.offset - e.range
           w == WindowSamples(s.samples, a, b)
           seen == {x \in ToSet(s.samples) : t - e.offset - x.t \in 0..(e.range - 1)}
<1>1. a \in Int /\ b \in Int /\ \A u \in Int : (t - e.offset - u \in 0..(e.range - 1) <=> a < u /\ u <= b)
  OBVIOUS
<1>2. \A x \in ToSet(s.samples) : x.t \in Int
  BY SamplesAre DEF IsSeries
<1>3. seen = {x \in ToSet(s.samples) : a < x.t /\ x.t <= b}
  BY <1>1, <1>2
<1>4. InWindow(e, s, t) = [i \in 1..Cardinality(seen) |->
                             CHOOSE x \in seen : Cardinality({y \in seen : y.t < x.t}) = i - 1]
  BY DEF InWindow
<1> HIDE DEF a, b, seen
<1>5. InTime(w) /\ ToSet(w) = seen
  BY <1>1, <1>3, WindowIs DEF IsSeries
<1> HIDE DEF w
<1>6. w = [i \in 1..Cardinality(ToSet(w)) |->
             CHOOSE x \in ToSet(w) : Cardinality({y \in ToSet(w) : y.t < x.t}) = i - 1]
  BY <1>5, PlacesAre
<1>7. QED
  BY <1>4, <1>5, <1>6 DEF w, a, b

\* Most functions of a window have no parameter.
LEMMA NoParameter ==
  ASSUME NEW fn \in WindowFunctions \ Parameterised
  PROVE  \A p, r, w, a, b : OverRange(fn, p, w, a, b) = OverRange(fn, r, w, a, b)
<1>1. fn # "quantile_over_time" /\ fn # "predict_linear"
  BY DEF Parameterised
<1>2. QED
  BY <1>1 DEF OverRange

\* So are those of a plan with a window, also when its parameter is another's, and also within
\* a histogram's quantile.
LEMMA WindowValues ==
  ASSUME NEW e \in Exprs, e.kind = "over", e.fn # "absent_over_time", NEW t \in Int,
         NEW p, p.metric = e.metric, p.eq = e.eq, p.offset = e.offset, p.range = e.range,
         p.param = e.param, p.fn = e.fn
  PROVE  ValuesAt(p, Wanted(p), t) = Meaning(t)[e]
<1> DEFINE u == t - e.offset
           row(s, v) == [labels |-> s.labels, v |-> v]
           val(s) == OverRange(e.fn, e.param, InWindow(e, s, t), u - e.range, u)
<1>1. /\ e.metric # "" /\ e.metric \in DOMAIN Store /\ e.offset \in Int /\ u \in Int
      /\ e.range \in Nat /\ e.fn \in WindowFunctions /\ e.fn # "histogram_quantile"
  <2>1. "histogram_quantile" \notin WindowFunctions
    BY DEF WindowFunctions, NeedTwo
  <2>2. /\ e.metric # "" /\ e.metric \in DOMAIN Store /\ e.offset \in Int
        /\ e.range \in Nat \ {0} /\ e.fn \in WindowFunctions \union {"absent_over_time"}
    BY ExprsAssumption
  <2>3. \A x, y \in Int : x - y \in Int
    OBVIOUS
  <2>4. u \in Int
    BY <2>2, <2>3
  <2> HIDE DEF u
  <2>5. QED
    BY <2>1, <2>2, <2>4
<1>2. Wanted(p) = Selected(e) /\ \A s \in Selected(e) : s \in Store[e.metric]
  BY <1>1, SelectedIs DEF Wanted
<1>3. ASSUME NEW s \in Selected(e)  PROVE ComputeValue(p, s.samples, t) = val(s)
  <2>1. IsSeries(s.samples)
    BY <1>1, <1>2, StoreIs
  <2>2. InWindow(e, s, t) = WindowSamples(s.samples, t - e.offset - e.range, t - e.offset)
    BY <1>1, <2>1, WindowMeans
  <2>3. QED
    BY <1>1, <2>2 DEF ComputeValue
<1>4. Meaning(t)[e] = UNION {{row(s, v) : v \in val(s)} : s \in Selected(e)}
  <2>1. Meaning(t)[e] = MeaningNode(e, t, Meaning(t))
    BY MeaningsAre
  <2>2. QED
    BY <2>1 DEF MeaningNode, RowsOf
<1>5. ValuesAt(p, Wanted(p), t) = UNION {{row(s, v) : v \in ComputeValue(p, s.samples, t)} : s \in Selected(e)}
  BY <1>2 DEF ValuesAt
<1> HIDE DEF row, val
<1>6. QED
  BY <1>3, <1>4, <1>5

\* A plan keeps its values when what it computes them from stays, or does not matter.
LEMMA SameValues ==
  ASSUME NEW p, NEW x,
         p.metric = x.metric, p.eq = x.eq, p.offset = x.offset, p.range = x.range,
         \/ p.fn = x.fn /\ p.fn # "histogram_quantile"
              /\ (p.param = x.param \/ p.fn \notin Parameterised)
         \/ /\ p.fn \notin WindowFunctions \union {"histogram_quantile"}
            /\ x.fn \notin WindowFunctions \union {"histogram_quantile"}
         \/ p.fn = "histogram_quantile" /\ p.inner = x.fn /\ x.fn \in {"rate", "increase", "irate"}
  PROVE  \A t : ValuesAt(p, Wanted(p), t) = ValuesAt(x, Wanted(x), t)
<1>1. Wanted(p) = Wanted(x)
  BY DEF Wanted, SelectedBy
<1>2. ASSUME NEW ss, NEW t  PROVE ComputeValue(p, ss, t) = ComputeValue(x, ss, t)
  <2>1. CASE p.fn = x.fn /\ p.fn # "histogram_quantile"
               /\ (p.param = x.param \/ p.fn \notin Parameterised)
    <3>1. CASE p.fn \in WindowFunctions
      <4>1. \A w, a, b : OverRange(p.fn, p.param, w, a, b) = OverRange(x.fn, x.param, w, a, b)
        BY <2>1, <3>1, NoParameter
      <4>2. QED
        BY <2>1, <3>1, <4>1 DEF ComputeValue
    <3>2. CASE p.fn \notin WindowFunctions
      BY <2>1, <3>2 DEF ComputeValue
    <3>3. QED
      BY <3>1, <3>2
  <2>2. CASE /\ p.fn \notin WindowFunctions \union {"histogram_quantile"}
             /\ x.fn \notin WindowFunctions \union {"histogram_quantile"}
    BY <2>2 DEF ComputeValue
  <2>3. CASE p.fn = "histogram_quantile" /\ p.inner = x.fn /\ x.fn \in {"rate", "increase", "irate"}
    <3>1. x.fn \in WindowFunctions \ Parameterised /\ x.fn # "histogram_quantile"
      BY <2>3 DEF WindowFunctions, NeedTwo, Parameterised
    <3>2. \A w, a, b : OverRange(x.fn, p.param, w, a, b) = OverRange(x.fn, x.param, w, a, b)
      BY <3>1, NoParameter
    <3>3. (IF p.inner \in {"increase", "irate"} THEN p.inner ELSE "rate") = x.fn
      BY <2>3
    <3>4. QED
      BY <2>3, <3>1, <3>2, <3>3 DEF ComputeValue
  <2>4. QED
    BY <2>1, <2>2, <2>3
<1>3. QED
  BY <1>1, <1>2 DEF ValuesAt

\* Replacing labels does not disturb functions of the values.
LEMMA LabelsAndMath ==
  ASSUME NEW rows, NEW p, NEW m
  PROVE  ApplyLabelFunc(ApplyMath(rows, m, FALSE), p) = ApplyMath(ApplyLabelFunc(rows, p), m, FALSE)
<1> DEFINE L(l) == IF p.src \in DOMAIN l THEN WithLabel(l, p.dst, l[p.src]) ELSE Drop(l, {p.dst})
           F(v) == ApplyMathOp(m, v, FALSE)
           new(r) == [r EXCEPT !.v = F(@)]
           named(r) == [r EXCEPT !.labels = L(@)]
<1>1. \A S : ApplyMath(S, m, FALSE) = {new(r) : r \in S}
  BY DEF ApplyMath
<1>2. \A S : ApplyLabelFunc(S, p) = {named(r) : r \in S}
  BY DEF ApplyLabelFunc
<1>3. ASSUME NEW r  PROVE named(new(r)) = new(named(r))
  <2> HIDE DEF L, F
  <2>1. named(new(r)) = [f \in DOMAIN r |-> IF f = "labels" THEN L(r.labels)
                                            ELSE IF f = "v" THEN F(r.v) ELSE r[f]]
    OBVIOUS
  <2>2. new(named(r)) = [f \in DOMAIN r |-> IF f = "labels" THEN L(r.labels)
                                            ELSE IF f = "v" THEN F(r.v) ELSE r[f]]
    OBVIOUS
  <2>3. QED
    BY <2>1, <2>2
<1> HIDE DEF new, named
<1>4. {named(x) : x \in {new(r) : r \in rows}} = {new(x) : x \in {named(r) : r \in rows}}
  BY <1>3
<1>5. QED
  BY <1>1, <1>2, <1>4

-----------------------------------------------------------------------------
(***************************************************************************)
(* The plan of functions around one selector means what they mean.         *)
(***************************************************************************)

\* Whatever an expression is built from does not get in its way.
WellOrdered(q, e) == \A x \in Parts[e] : InOrderAt(q, x)

\* What is well ordered is so in each of its parts.
LEMMA PartsAreOrdered ==
  ASSUME NEW q, NEW e \in Exprs, WellOrdered(q, e)
  PROVE  /\ InOrderAt(q, e)
         /\ \A x \in Parts[e] : WellOrdered(q, x)
         /\ \A x \in Operands(e) : WellOrdered(q, x) /\ x \in Parts[e]
<1>1. /\ e \in Parts[e] /\ Operands(e) \subseteq Below(e)
      /\ \A x \in Parts[e] : Parts[x] \subseteq Parts[e]
  BY PartsAre
<1>2. QED
  BY <1>1 DEF WellOrdered, Below

Relabelling == {"label_replace", "label_join"}

\* Aggregations and functions of the values of its selector.
Core(p, t) == ApplyMathChain(ApplyAggChain(ValuesAt(p, Wanted(p), t), p.aggs), p.math, FALSE)

\* A plan without steps answers with the values of its selector.
LEMMA CoreIsValues ==
  ASSUME NEW p, p.aggs = <<>>, p.math = <<>>, NEW t
  PROVE  Core(p, t) = ValuesAt(p, Wanted(p), t)
<1>1. \A rows : ApplyAggChain(rows, <<>>) = rows
  BY ChainsAre
<1>2. \A rows : ApplyMathChain(rows, <<>>, FALSE) = rows
  BY ChainsAre
<1>3. QED
  BY <1>1, <1>2 DEF Core

\* The plan p of e applies what it holds to the values of one selector, as e means it.
Flat(p, e) ==
  /\ p.isScalar = FALSE /\ p.exprType \in {"vector", "call", "aggregate", "label_func"}
  /\ p.fn = "" \/ p.fn \in WindowFunctions \/ p.fn \in Relabelling
  /\ e.kind \in {"selector", "over", "agg"} => p.math = <<>> /\ p.fn \notin Relabelling
  /\ p.fn \in WindowFunctions => \E x \in Parts[e] : x.kind = "over" /\ x.fn = p.fn
  /\ p.fn \in Relabelling => \E x \in Parts[e] : x.kind = p.fn
  /\ \A t \in Int : RelabelledBy(Relabelling, Core(p, t), p) = Meaning(t)[e]

\* Names are of one kind only.
LEMMA Names ==
  /\ \A fn \in WindowFunctions :
       fn \notin Relabelling \union {"", "absent", "absent_over_time", "histogram_quantile"}
  /\ \A fn \in Relabelling : fn \notin {"", "absent", "absent_over_time", "histogram_quantile"}
BY DEF WindowFunctions, NeedTwo, Relabelling

\* That of a selector.
LEMMA FlatSelector ==
  ASSUME NEW q, NEW e \in Exprs, e.kind = "selector", NEW p \in Transpile(q)[e]
  PROVE  Flat(p, e)
<1>1. p = TranspileVectorSelector(e, q)
  <2>1. TranspileNode(e, q, Transpile(q)) = {TranspileVectorSelector(e, q)}
    BY DEF TranspileNode
  <2>2. QED
    BY <2>1, PlansAre
<1>2. /\ AgreeBut(p, Blank, {"exprType", "metric", "eq", "offset", "from", "to"})
      /\ p.exprType = "vector" /\ p.metric = e.metric /\ p.eq = e.eq /\ p.offset = e.offset
  BY <1>1, BasesAre
<1>3. p.isScalar = FALSE /\ p.fn = "" /\ p.aggs = <<>> /\ p.math = <<>>
  BY <1>2, BlankFields DEF AgreeBut, Fields
<1>4. p.fn \notin WindowFunctions \union {"histogram_quantile"} /\ p.fn \notin Relabelling
  BY <1>3, Names
<1>5. ASSUME NEW t \in Int  PROVE RelabelledBy(Relabelling, Core(p, t), p) = Meaning(t)[e]
  <2>1. ValuesAt(p, Wanted(p), t) = Meaning(t)[e]
    BY <1>2, <1>4, SelectorValues
  <2>2. Core(p, t) = Meaning(t)[e]
    BY <1>3, <2>1, CoreIsValues
  <2>3. QED
    BY <1>4, <2>2 DEF RelabelledBy
<1>6. QED
  BY <1>2, <1>3, <1>4, <1>5 DEF Flat

\* That of a function of a window.
LEMMA FlatWindow ==
  ASSUME NEW q, NEW e \in Exprs, e.kind = "over", e.fn # "absent_over_time", NEW p \in Transpile(q)[e]
  PROVE  Flat(p, e)
<1>1. p = TranspileRangeFunc(e, q)
  <2>1. TranspileNode(e, q, Transpile(q)) = {TranspileRangeFunc(e, q)}
    BY DEF TranspileNode
  <2>2. QED
    BY <2>1, PlansAre
<1>2. /\ AgreeBut(p, Blank, {"exprType", "metric", "eq", "offset", "from", "to", "range", "fn", "param"})
      /\ p.exprType = "call" /\ p.metric = e.metric /\ p.eq = e.eq /\ p.offset = e.offset
      /\ p.range = e.range /\ p.fn = e.fn /\ p.param = e.param
  BY <1>1, BasesAre
<1>3. p.isScalar = FALSE /\ p.aggs = <<>> /\ p.math = <<>>
  <2>1. \A f \in {"isScalar", "aggs", "math"} : p[f] = Blank[f]
    BY <1>2 DEF AgreeBut, Fields
  <2>2. QED
    BY <2>1, BlankFields
<1>4. p.fn \in WindowFunctions /\ p.fn \notin Relabelling
  <2>1. e.fn \in WindowFunctions \union {"absent_over_time"}
    BY ExprsAssumption
  <2>2. QED
    BY <1>2, <2>1, Names
<1>5. ASSUME NEW t \in Int  PROVE RelabelledBy(Relabelling, Core(p, t), p) = Meaning(t)[e]
  <2>1. ValuesAt(p, Wanted(p), t) = Meaning(t)[e]
    BY <1>2, WindowValues
  <2>2. Core(p, t) = Meaning(t)[e]
    BY <1>3, <2>1, CoreIsValues
  <2>3. QED
    BY <1>4, <2>2 DEF RelabelledBy
<1>6. e \in Parts[e]
  BY PartsAre
<1>7. QED
  BY <1>2, <1>3, <1>4, <1>5, <1>6 DEF Flat

\* A node that writes into the plan of its operand.
LEMMA WrapsAre ==
  ASSUME NEW q, IsQuery(q), NEW e \in Exprs, e.kind \in Wrapping, NEW p \in Transpile(q)[e]
  PROVE  \E x \in Transpile(q)[e.arg] :
           /\ Written(e, x, p) /\ e.arg \in Exprs /\ e.arg \in Below(e) /\ Parts[e.arg] \subseteq Below(e)
           /\ x.aggs \in Seq(AggSteps(e.arg)) /\ x.math \in Seq(MathSteps(e.arg))
<1>1. Transpile(q)[e] = {Wrap(e, x) : x \in Transpile(q)[e.arg]} /\ e.arg \in Below(e) /\ e.arg \in Exprs
  BY WrappedIs
<1>2. PICK x \in Transpile(q)[e.arg] : p = Wrap(e, x)
  BY <1>1
<1>3. Describes(x, e.arg, q)
  BY <1>1, PlansAreDescribed
<1>4. Written(e, x, p)
  BY <1>2, <1>3, WrapIs DEF Describes
<1>5. Parts[e.arg] \subseteq Below(e)
  BY <1>1, PartsAre
<1>6. QED
  BY <1>1, <1>3, <1>4, <1>5 DEF Describes, Chained

\* An aggregation is the last of its plan's.
LEMMA AggAppended ==
  ASSUME NEW e, NEW seq \in Seq(AggSteps(e)), NEW step, NEW rows
  PROVE  ApplyAggChain(rows, Append(seq, step)) = ApplyOneAggStep(ApplyAggChain(rows, seq), step)
<1> DEFINE X == AggSteps(e) \union {step}
<1>1. seq \in Seq(X) /\ step \in X
  <2>1. AggSteps(e) \subseteq X
    OBVIOUS
  <2> HIDE DEF X
  <2>2. seq \in Seq(X)
    BY <2>1
  <2>3. QED
    BY <2>2 DEF X
<1> HIDE DEF X
<1>2. QED
  BY <1>1, ChainsAre

\* A function of the values too.
LEMMA MathAppended ==
  ASSUME NEW e, NEW seq \in Seq(MathSteps(e)), NEW step, NEW rows
  PROVE  /\ ApplyMathChain(rows, Append(seq, step), FALSE) = ApplyMath(ApplyMathChain(rows, seq, FALSE), step, FALSE)
         /\ ApplyMathChain(rows, Append(seq, step), TRUE) = ApplyMath(ApplyMathChain(rows, seq, TRUE), step, TRUE)
<1> DEFINE X == MathSteps(e) \union {step}
<1>1. seq \in Seq(X) /\ step \in X
  <2>1. MathSteps(e) \subseteq X
    OBVIOUS
  <2> HIDE DEF X
  <2>2. seq \in Seq(X)
    BY <2>1
  <2>3. QED
    BY <2>2 DEF X
<1> HIDE DEF X
<1>2. QED
  BY <1>1, ChainsAre

\* An aggregation around a flat plan is flat: nothing of the plan is applied after it.
LEMMA FlatAggregation ==
  ASSUME NEW q, NEW e \in Exprs, e.kind = "agg", InOrderAt(q, e), NEW x, Flat(x, e.arg), NEW p,
         Written(e, x, p), Parts[e.arg] \subseteq Below(e), x.aggs \in Seq(AggSteps(e.arg))
  PROVE  Flat(p, e)
<1>1. /\ p.exprType = "aggregate" /\ p.aggs = Append(x.aggs, AggStep(e))
      /\ p.metric = x.metric /\ p.eq = x.eq /\ p.offset = x.offset /\ p.range = x.range
      /\ p.fn = x.fn /\ p.math = x.math /\ p.isScalar = x.isScalar
  BY DEF Written, AgreeBut, Fields
<1>2. /\ e.arg.kind \in {"selector", "over", "agg"}
      /\ \A y \in Below(e) : y.kind = "over" => y.fn \notin Parameterised
  BY DEF InOrderAt, Below
<1>3. x.math = <<>> /\ x.fn \notin Relabelling
  BY <1>2 DEF Flat
<1>4. x.fn \notin Parameterised /\ x.fn # "histogram_quantile"
  <2>1. x.fn # "histogram_quantile"
    BY Names DEF Flat
  <2>2. ASSUME x.fn \in WindowFunctions  PROVE x.fn \notin Parameterised
    BY <1>2, <2>2 DEF Flat
  <2>3. Parameterised \subseteq WindowFunctions
    BY DEF Parameterised, WindowFunctions, NeedTwo
  <2>4. QED
    BY <2>1, <2>2, <2>3
<1>5. ASSUME NEW t \in Int  PROVE RelabelledBy(Relabelling, Core(p, t), p) = Meaning(t)[e]
  <2> DEFINE V == ValuesAt(x, Wanted(x), t)
  <2>1. ValuesAt(p, Wanted(p), t) = V
    BY <1>1, <1>4, SameValues
  <2> HIDE DEF V
  <2>2. \A rows : ApplyMathChain(rows, <<>>, FALSE) = rows
    BY ChainsAre
  <2>3. Core(x, t) = ApplyAggChain(V, x.aggs)
    BY <1>3, <2>2 DEF Core, V
  <2>4. Core(p, t) = ApplyAggChain(V, Append(x.aggs, AggStep(e)))
    BY <1>1, <1>3, <2>1, <2>2 DEF Core
  <2>5. Core(p, t) = ApplyOneAggStep(Core(x, t), AggStep(e))
    BY <2>3, <2>4, AggAppended
  <2>6. Core(x, t) = Meaning(t)[e.arg]
    BY <1>3 DEF Flat, RelabelledBy
  <2>7. Meaning(t)[e] = ApplyOneAggStep(Meaning(t)[e.arg], AggStep(e))
    BY MeaningsAre DEF MeaningNode
  <2>8. QED
    BY <1>1, <1>3, <2>5, <2>6, <2>7 DEF RelabelledBy
<1>6. /\ p.fn \in WindowFunctions => \E y \in Parts[e] : y.kind = "over" /\ y.fn = p.fn
      /\ p.fn = "" \/ p.fn \in WindowFunctions \/ p.fn \in Relabelling
      /\ p.isScalar = FALSE
  BY <1>1 DEF Flat, Below
<1>7. QED
  BY <1>1, <1>3, <1>5, <1>6 DEF Flat

\* A function of numbers around a flat plan is flat.
LEMMA FlatMath ==
  ASSUME NEW q, NEW e \in Exprs, e.kind = "math", NEW x, Flat(x, e.arg), NEW p,
         Written(e, x, p), Parts[e.arg] \subseteq Below(e), x.math \in Seq(MathSteps(e.arg))
  PROVE  Flat(p, e)
<1>1. /\ p.math = Append(x.math, MathStep(e)) /\ p.exprType = x.exprType /\ p.aggs = x.aggs
      /\ p.metric = x.metric /\ p.eq = x.eq /\ p.offset = x.offset /\ p.range = x.range
      /\ p.fn = x.fn /\ p.param = x.param /\ p.isScalar = x.isScalar
      /\ p.src = x.src /\ p.dst = x.dst
  BY DEF Written, AgreeBut, Fields
<1>2. x.fn # "histogram_quantile"
  BY Names DEF Flat
<1>3. ASSUME NEW t \in Int  PROVE RelabelledBy(Relabelling, Core(p, t), p) = Meaning(t)[e]
  <2> DEFINE A == ApplyAggChain(ValuesAt(x, Wanted(x), t), x.aggs)
  <2>1. ValuesAt(p, Wanted(p), t) = ValuesAt(x, Wanted(x), t)
    BY <1>1, <1>2, SameValues
  <2>2. Core(x, t) = ApplyMathChain(A, x.math, FALSE)
    BY DEF Core
  <2>3. Core(p, t) = ApplyMathChain(A, Append(x.math, MathStep(e)), FALSE)
    BY <1>1, <2>1 DEF Core
  <2> HIDE DEF A
  <2> DEFINE m == MathStep(e)
             c == Core(x, t)
  <2> HIDE DEF m, c
  <2>4. Core(p, t) = ApplyMath(c, m, FALSE)
    <3>1. ApplyMathChain(A, Append(x.math, m), FALSE) = ApplyMath(ApplyMathChain(A, x.math, FALSE), m, FALSE)
      BY MathAppended
    <3>2. QED
      BY <2>2, <2>3, <3>1 DEF m, c
  <2>5. RelabelledBy(Relabelling, Core(p, t), p) = ApplyMath(RelabelledBy(Relabelling, c, x), m, FALSE)
    <3>1. ApplyLabelFunc(Core(p, t), p) = ApplyMath(ApplyLabelFunc(c, p), m, FALSE)
      <4>1. ApplyLabelFunc(ApplyMath(c, m, FALSE), p) = ApplyMath(ApplyLabelFunc(c, p), m, FALSE)
        BY LabelsAndMath
      <4>2. QED
        BY <2>4, <4>1
    <3>2. ApplyLabelFunc(c, p) = ApplyLabelFunc(c, x)
      BY <1>1 DEF ApplyLabelFunc
    <3>3. QED
      BY <1>1, <2>4, <3>1, <3>2 DEF RelabelledBy
  <2>6. Meaning(t)[e] = ApplyMath(Meaning(t)[e.arg], m, FALSE)
    BY MeaningsAre DEF MeaningNode, m
  <2>7. RelabelledBy(Relabelling, c, x) = Meaning(t)[e.arg]
    BY DEF Flat, c
  <2>8. QED
    BY <2>5, <2>6, <2>7
<1>4. /\ p.fn \in WindowFunctions => \E y \in Parts[e] : y.kind = "over" /\ y.fn = p.fn
      /\ p.fn \in Relabelling => \E y \in Parts[e] : y.kind = p.fn
      /\ p.fn = "" \/ p.fn \in WindowFunctions \/ p.fn \in Relabelling
      /\ p.isScalar = FALSE /\ p.exprType \in {"vector", "call", "aggregate", "label_func"}
  BY <1>1 DEF Flat, Below
<1>5. QED
  BY <1>3, <1>4 DEF Flat

\* A function of labels around a flat plan is flat: it is the last thing applied.
LEMMA FlatLabels ==
  ASSUME NEW q, NEW e \in Exprs, e.kind \in Relabelling, InOrderAt(q, e), NEW x, Flat(x, e.arg), NEW p,
         Written(e, x, p), Parts[e.arg] \subseteq Below(e)
  PROVE  Flat(p, e)
<1>1. /\ p.fn = e.kind /\ p.exprType = "label_func" /\ p.dst = e.dst /\ p.src = e.src
      /\ p.aggs = x.aggs /\ p.math = x.math
      /\ p.metric = x.metric /\ p.eq = x.eq /\ p.offset = x.offset /\ p.range = x.range
      /\ p.isScalar = x.isScalar
  BY DEF Written, AgreeBut, Fields, Relabelling
<1>2. \A y \in Below(e) : y.kind \in {"selector", "agg", "math"}
  BY DEF InOrderAt, Below, Relabelling
<1>3. x.fn = ""
  <2>1. \A y \in Parts[e.arg] : y.kind # "over" /\ y.kind \notin Relabelling
    BY <1>2 DEF Relabelling
  <2>2. QED
    BY <2>1 DEF Flat
<1>4. /\ x.fn \notin WindowFunctions \union {"histogram_quantile"} /\ x.fn \notin Relabelling
      /\ p.fn \in Relabelling /\ p.fn \notin WindowFunctions \union {"histogram_quantile"}
  BY <1>1, <1>3, Names
<1>5. ASSUME NEW t \in Int  PROVE RelabelledBy(Relabelling, Core(p, t), p) = Meaning(t)[e]
  <2>1. ValuesAt(p, Wanted(p), t) = ValuesAt(x, Wanted(x), t)
    BY <1>1, <1>4, SameValues
  <2>2. Core(p, t) = Core(x, t)
    BY <1>1, <2>1 DEF Core
  <2>3. Core(x, t) = Meaning(t)[e.arg]
    BY <1>4 DEF Flat, RelabelledBy
  <2>4. Meaning(t)[e] = ApplyLabelFunc(Meaning(t)[e.arg], e)
    BY MeaningsAre DEF MeaningNode, Relabelling
  <2>5. ApplyLabelFunc(Core(p, t), p) = ApplyLabelFunc(Core(p, t), e)
    BY <1>1 DEF ApplyLabelFunc
  <2>6. QED
    BY <1>4, <2>2, <2>3, <2>4, <2>5 DEF RelabelledBy
<1>6. e \in Parts[e]
  BY PartsAre
<1>7. p.isScalar = FALSE /\ e.kind \notin {"selector", "over", "agg"}
  BY <1>1 DEF Flat, Relabelling
<1>8. QED
  BY <1>1, <1>4, <1>5, <1>6, <1>7 DEF Flat

\* A plan that is no operation's is not of a type of its own, but that of an operation.
LEMMA PlainTypes ==
  ASSUME NEW q, IsQuery(q), NEW e \in Exprs, e.kind \notin {"neg", "binary", "math"}, NEW p \in Transpile(q)[e]
  PROVE  p.exprType # "binary"
<1>1. CASE e.kind \in Wrapping
  <2>1. PICK x : Written(e, x, p)
    BY <1>1, WrapsAre
  <2>2. e.kind \in Wrapping \ {"math"}
    BY <1>1
  <2>3. QED
    BY <2>1, <2>2 DEF Written, Wrapping
<1>2. CASE e.kind = "number"
  <2>1. p = Literal(e.v)
    BY <1>2, PlansAre DEF TranspileNode
  <2>2. AgreeBut(p, Blank, {"isScalar", "val"})
    BY <2>1, BasesAre
  <2>3. QED
    BY <2>2, BlankFields DEF AgreeBut, Fields
<1>3. CASE e.kind = "time"
  <2>1. p = [Blank EXCEPT !.exprType = "time"]
    BY <1>3, PlansAre DEF TranspileNode
  <2>2. QED
    BY <2>1, BasesAre
<1>4. CASE e.kind = "selector"
  <2>1. p = TranspileVectorSelector(e, q)
    <3>1. TranspileNode(e, q, Transpile(q)) = {TranspileVectorSelector(e, q)}
      BY <1>4 DEF TranspileNode
    <3>2. QED
      BY <3>1, PlansAre
  <2>2. QED
    BY <2>1, BasesAre
<1>5. CASE e.kind = "over"
  <2>1. p = TranspileRangeFunc(e, q)
    <3>1. TranspileNode(e, q, Transpile(q)) = {TranspileRangeFunc(e, q)}
      BY <1>5 DEF TranspileNode
    <3>2. QED
      BY <3>1, PlansAre
  <2>2. p.exprType = IF e.fn = "absent_over_time" THEN "absent" ELSE "call"
    BY <2>1, BasesAre
  <2>3. QED
    BY <2>2
<1>6. CASE e.kind = "subquery"
  BY <1>6, PlansAre DEF TranspileNode
<1>7. e.kind \in {"number", "time", "selector", "over", "subquery", "neg", "binary", "math"} \union Wrapping
  BY ExprsAssumption DEF Wrapping
<1>8. QED
  BY <1>1, <1>2, <1>3, <1>4, <1>5, <1>6, <1>7

FlatKinds == {"selector", "over", "agg", "math"} \union Relabelling

\* Those of all aggregations and functions that are nested as a plan applies them.
LEMMA FlatIs ==
  ASSUME NEW q, IsQuery(q), NEW e \in Exprs, WellOrdered(q, e), e.kind \in FlatKinds,
         NEW p \in Transpile(q)[e], p.exprType # "binary"
  PROVE  Flat(p, e)
<1> DEFINE Is(y) == WellOrdered(q, y) /\ y.kind \in FlatKinds =>
                      \A w \in Transpile(q)[y] : w.exprType # "binary" => Flat(w, y)
           Good == {y \in Exprs : Is(y)}
<1>1. ASSUME NEW y \in Exprs, Below(y) \subseteq Good  PROVE y \in Good
  <2>1. SUFFICES ASSUME WellOrdered(q, y), y.kind \in FlatKinds, NEW w \in Transpile(q)[y],
                        w.exprType # "binary"
                 PROVE  Flat(w, y)
    OBVIOUS
  <2>2. InOrderAt(q, y)
    BY <2>1, PartsAreOrdered
  <2>3. CASE y.kind = "selector"
    BY <2>1, <2>3, FlatSelector
  <2>4. CASE y.kind = "over"
    <3>1. y.fn # "absent_over_time"
      BY <2>2, <2>4 DEF InOrderAt
    <3>2. QED
      BY <2>1, <2>4, <3>1, FlatWindow
  <2>5. CASE y.kind \in {"agg", "math"} \union Relabelling
    <3>1. y.kind \in Wrapping
      BY <2>5 DEF Wrapping, Relabelling
    <3>2. PICK x \in Transpile(q)[y.arg] :
            /\ Written(y, x, w) /\ y.arg \in Exprs /\ y.arg \in Below(y) /\ Parts[y.arg] \subseteq Below(y)
            /\ x.aggs \in Seq(AggSteps(y.arg)) /\ x.math \in Seq(MathSteps(y.arg))
      BY <2>1, <3>1, WrapsAre
    <3>3. WellOrdered(q, y.arg) /\ Is(y.arg)
      <4>1. y.arg \in Good
        BY <1>1, <3>2
      <4>2. y.arg \in Parts[y]
        BY <3>2 DEF Below
      <4>3. QED
        BY <2>1, <4>1, <4>2, PartsAreOrdered
    <3> HIDE DEF Is, Good
    <3>4. y.arg.kind \in FlatKinds \union {"binary"} /\ (y.kind # "math" => y.arg.kind \in FlatKinds)
      BY <2>2, <2>5, <3>2 DEF InOrderAt, Below, Relabelling, FlatKinds
    <3>5. x.exprType # "binary"
      <4>1. CASE y.kind = "math"
        <5>1. w.exprType = x.exprType
          BY <3>2, <4>1 DEF Written, AgreeBut, Fields
        <5>2. QED
          BY <2>1, <5>1
      <4>2. CASE y.kind = "agg"
        <5>1. y.arg.kind \in {"selector", "over", "agg"}
          BY <2>2, <4>2 DEF InOrderAt
        <5>2. QED
          BY <3>2, <5>1, PlainTypes
      <4>3. CASE y.kind \in Relabelling
        <5>1. \A b \in Below(y) : b.kind \in {"selector", "agg", "math"}
          BY <2>2, <4>3 DEF InOrderAt, Below, Relabelling
        <5>2. SUFFICES ASSUME x.exprType = "binary"  PROVE FALSE
          OBVIOUS
        <5>3. PICK b \in Parts[y.arg] : b.kind \in {"neg", "binary"}
          BY <3>2, <5>2, OperationOf
        <5>4. QED
          BY <3>2, <5>1, <5>3
      <4>4. QED
        BY <2>5, <4>1, <4>2, <4>3
    <3>6. y.arg.kind # "binary"
      <4>1. SUFFICES ASSUME y.arg.kind = "binary"  PROVE x.exprType = "binary"
        BY <3>5
      <4>2. PICK l, r : x = TranspileBinaryExpr(y.arg, l, r)
        <5> DEFINE b == y.arg
                   plans == Transpile(q)
        <5>1. TranspileNode(b, q, plans) = {TranspileBinaryExpr(b, s[1], s[2]) : s \in plans[b.lhs] \X plans[b.rhs]}
          BY <4>1 DEF TranspileNode
        <5>2. plans[b] = TranspileNode(b, q, plans) /\ x \in plans[b]
          BY <3>2, PlansAre
        <5> HIDE DEF plans
        <5>3. QED
          BY <5>1, <5>2
      <4>3. QED
        BY <4>2, OperationIs
    <3>7. Flat(x, y.arg)
      BY <3>2, <3>3, <3>4, <3>5, <3>6 DEF Is
    <3>8. CASE y.kind = "agg"
      BY <2>2, <3>2, <3>7, <3>8, FlatAggregation
    <3>9. CASE y.kind = "math"
      BY <3>2, <3>7, <3>9, FlatMath
    <3>10. CASE y.kind \in Relabelling
      BY <2>2, <3>2, <3>7, <3>10, FlatLabels
    <3>11. QED
      BY <2>5, <3>8, <3>9, <3>10
  <2>6. QED
    BY <2>1, <2>3, <2>4, <2>5 DEF FlatKinds
<1>2. \A y \in Exprs : y \in Good
  <2> HIDE DEF Good
  <2>1. QED
    BY <1>1, TreeInduction
<1>3. QED
  BY <1>2

-----------------------------------------------------------------------------
(***************************************************************************)
(* Meanings are vectors of rows.                                           *)
(***************************************************************************)

\* Every function, aggregation and operation makes rows of rows.
LEMMA RowsRemain ==
  /\ \A rows, a : AreRows(rows) => AreRows(ApplyOneAggStep(rows, a))
  /\ \A rows, m : AreRows(rows) => AreRows(ApplyMath(rows, m, FALSE))
  /\ \A rows, p : AreRows(rows) => AreRows(ApplyLabelFunc(rows, p))
  /\ \A rows : AreRows(ToScalar(rows))
  /\ \A rows, n : AreRows(ApplyHistogramQuantile(rows, n))
  /\ \A rows, op, m, others : AreRows(rows) /\ AreRows(others) /\ op \in SetOps =>
                                AreRows(VectorSetOp(op, m, rows, others))
  /\ \A op, rows, scalar, onLeft : AreRows(OneOver(op, rows, scalar, onLeft))
<1> DEFINE row(l, v) == [labels |-> l, v |-> v]
<1>1. \A l, v : row(l, v) = [labels |-> row(l, v).labels, v |-> row(l, v).v]
  OBVIOUS
<1>2. ASSUME NEW rows, NEW a, AreRows(rows)  PROVE AreRows(ApplyOneAggStep(rows, a))
  <2> DEFINE G(r) == GroupLabels(r.labels, a.names, a.without)
             Of(g) == {r \in rows : G(r) = g}
             groups == {G(r) : r \in rows}
             L(g, v) == WithLabel(g, "value", v)
             N(g, v) == Cardinality({r \in Of(g) : r.v = v})
             Q(g) == Quantile(a.param, Values(SetToSeq(Of(g))))
             A(g) == Aggregated(a.op, Of(g))
  <2>1. \/ ApplyOneAggStep(rows, a) \subseteq rows
        \/ ApplyOneAggStep(rows, a) = {row(g, Q(g)) : g \in groups}
        \/ ApplyOneAggStep(rows, a) = UNION {{row(L(g, v), N(g, v)) : v \in {r.v : r \in Of(g)}} : g \in groups}
        \/ ApplyOneAggStep(rows, a) = {row(g, A(g)) : g \in groups}
    BY DEF ApplyOneAggStep, AggregateVector
  <2> HIDE DEF G, Of, L, N, Q, A, row
  <2>2. QED
    BY <1>1, <1>2, <2>1 DEF AreRows
<1>3. ASSUME NEW rows, NEW m, AreRows(rows)  PROVE AreRows(ApplyMath(rows, m, FALSE))
  <2> DEFINE V(r) == ApplyMathOp(m, r.v, FALSE)
             new(r) == [r EXCEPT !.v = V(r)]
             all == ApplyMath(rows, m, FALSE)
  <2>1. all = {new(r) : r \in rows}
    BY DEF ApplyMath
  <2> HIDE DEF V
  <2>2. \A r \in rows : new(r) = row(r.labels, V(r))
    BY <1>3 DEF AreRows
  <2> HIDE DEF row, new, all
  <2>3. \A x \in {new(r) : r \in rows} : \E l, v : x = row(l, v)
    BY <2>2
  <2>4. AreRows(all)
    BY <1>1, <2>1, <2>3 DEF AreRows
  <2>5. QED
    BY <2>4 DEF all
<1>4. ASSUME NEW rows, NEW p, AreRows(rows)  PROVE AreRows(ApplyLabelFunc(rows, p))
  <2> DEFINE L(r) == IF p.src \in DOMAIN r.labels THEN WithLabel(r.labels, p.dst, r.labels[p.src])
                     ELSE Drop(r.labels, {p.dst})
             new(r) == [r EXCEPT !.labels = L(r)]
  <2>1. ApplyLabelFunc(rows, p) = {new(r) : r \in rows}
    BY DEF ApplyLabelFunc
  <2> HIDE DEF L
  <2>2. \A r \in rows : new(r) = row(L(r), r.v)
    BY <1>4 DEF AreRows
  <2> HIDE DEF row, new
  <2>3. \A x \in {new(r) : r \in rows} : \E l, v : x = row(l, v)
    BY <2>2
  <2>4. QED
    BY <1>1, <2>1, <2>3 DEF AreRows
<1>5. \A rows : AreRows(ToScalar(rows))
  BY DEF ToScalar, AreRows
<1>6. ASSUME NEW rows, NEW n  PROVE AreRows(ApplyHistogramQuantile(rows, n))
  <2> DEFINE G(r) == Drop(r.labels, {"le"})
             Le(r) == IF "le" \in DOMAIN r.labels THEN r.labels["le"] ELSE 0
             Buckets(g, b) == {r \in rows : G(r) = g /\ Le(r) = b}
             Counts(g) == [b \in {Le(r) : r \in {r \in rows : G(r) = g}} |->
                             MapThenSumSet(LAMBDA r : r.v, Buckets(g, b))]
             V(g) == HistogramQuantile(n, Counts(g))
             groups == {G(r) : r \in rows}
  <2>1. ApplyHistogramQuantile(rows, n) = {row(g, V(g)) : g \in groups}
    BY DEF ApplyHistogramQuantile
  <2> HIDE DEF V, groups, row
  <2>2. QED
    BY <1>1, <2>1 DEF AreRows
<1>7. ASSUME NEW rows, NEW op, NEW m, NEW others, AreRows(rows), AreRows(others), op \in SetOps
      PROVE  AreRows(VectorSetOp(op, m, rows, others))
  <2>1. VectorSetOp(op, m, rows, others) \subseteq rows \union others
    BY <1>7 DEF VectorSetOp, SetOps, Matched
  <2>2. QED
    BY <1>7, <2>1 DEF AreRows
<1>8. ASSUME NEW op, NEW rows, NEW scalar, NEW onLeft  PROVE AreRows(OneOver(op, rows, scalar, onLeft))
  <2> DEFINE Of(r) == IF onLeft THEN ApplyBinaryOp(op, scalar, r.v) ELSE ApplyBinaryOp(op, r.v, scalar)
  <2>1. OneOver(op, rows, scalar, onLeft) = UNION {{row(r.labels, v) : v \in Of(r)} : r \in rows}
    BY DEF OneOver, RowsOf
  <2> HIDE DEF Of, row
  <2>2. QED
    BY <1>1, <2>1 DEF AreRows
<1>9. QED
  BY <1>2, <1>3, <1>4, <1>5, <1>6, <1>7, <1>8

\* What an expression means at a time is a vector of rows, by induction on the expression.
LEMMA MeaningsAreRows ==
  ASSUME NEW t
  PROVE  \A e \in Exprs : AreRows(Meaning(t)[e])
<1> DEFINE M == Meaning(t)
           Good == {e \in Exprs : AreRows(M[e])}
<1>1. \A e \in Exprs : M[e] = MeaningNode(e, t, M)
  BY MeaningsAre
<1>2. \A l, v : AreRows({[labels |-> l, v |-> v]})
  BY DEF AreRows
<1>3. \A S, rows : AreRows(rows) /\ S \subseteq rows => AreRows(S)
  BY DEF AreRows
<1> HIDE DEF M
<1>4. ASSUME NEW e \in Exprs, Below(e) \subseteq Good  PROVE AreRows(MeaningNode(e, t, M))
  <2>1. \A x \in Below(e) : AreRows(M[x])
    BY <1>4
  <2> HIDE DEF Good
  <2>2. CASE e.kind \in {"number", "time"}
    <3>1. \E v : MeaningNode(e, t, M) = {[labels |-> NoLabels, v |-> v]}
      BY <2>2 DEF MeaningNode
    <3>2. QED
      BY <1>2, <3>1
  <2>3. CASE e.kind \in {"selector", "over"}
    <3> DEFINE row(l, v) == [labels |-> l, v |-> v]
               U(s) == LookedUp(s, t - e.offset)
               W(s) == OverRange(e.fn, e.param, InWindow(e, s, t), t - e.offset - e.range, t - e.offset)
    <3>1. \/ MeaningNode(e, t, M) = UNION {{row(s.labels, v) : v \in U(s)} : s \in Selected(e)}
          \/ MeaningNode(e, t, M) = UNION {{row(s.labels, v) : v \in W(s)} : s \in Selected(e)}
          \/ MeaningNode(e, t, M) \subseteq {row(e.eq, 1)}
      BY <2>3 DEF MeaningNode, RowsOf
    <3>2. \A l, v : row(l, v) = [labels |-> row(l, v).labels, v |-> row(l, v).v]
      OBVIOUS
    <3> HIDE DEF row, U, W
    <3>3. QED
      BY <3>1, <3>2 DEF AreRows
  <2>4. CASE e.kind \in Wrapping
    <3>1. AreRows(M[e.arg])
      BY <2>1, <2>4, OperandsAre DEF Wrapping
    <3>2. CASE e.kind = "agg"
      BY <3>1, <3>2, RowsRemain DEF MeaningNode
    <3>3. CASE e.kind = "math"
      <4>1. MeaningNode(e, t, M) = ApplyMath(M[e.arg], MathStep(e), FALSE)
        BY <3>3 DEF MeaningNode
      <4> DEFINE m == MathStep(e)
                 rows == M[e.arg]
      <4> HIDE DEF m, rows
      <4>2. AreRows(ApplyMath(rows, m, FALSE))
        BY <3>1, RowsRemain DEF rows
      <4>3. QED
        BY <4>1, <4>2 DEF rows, m
    <3>4. CASE e.kind \in {"label_replace", "label_join"}
      BY <3>1, <3>4, RowsRemain DEF MeaningNode
    <3>5. CASE e.kind = "scalar"
      BY <3>5, RowsRemain DEF MeaningNode
    <3>6. CASE e.kind = "absent"
      <4>1. \E l : MeaningNode(e, t, M) \subseteq {[labels |-> l, v |-> 1]}
        BY <3>6 DEF MeaningNode
      <4>2. QED
        BY <1>2, <1>3, <4>1
    <3>7. CASE e.kind = "histogram_quantile"
      BY <3>7, RowsRemain DEF MeaningNode
    <3>8. QED
      BY <2>4, <3>2, <3>3, <3>4, <3>5, <3>6, <3>7 DEF Wrapping
  <2>5. CASE e.kind = "neg"
    <3>1. MeaningNode(e, t, M) = OneOver("-", M[e.arg], 0, TRUE)
      BY <2>5 DEF MeaningNode
    <3>2. \A rows : AreRows(OneOver("-", rows, 0, TRUE))
      BY RowsRemain
    <3>3. QED
      BY <3>1, <3>2
  <2>6. CASE e.kind = "binary"
    <3>1. AreRows(M[e.lhs]) /\ AreRows(M[e.rhs])
      BY <2>1, <2>6, OperandsAre
    <3>2. /\ \A rows, scalar : AreRows(OneOver(e.op, rows, scalar, FALSE))
          /\ \A rows, scalar : AreRows(OneOver(e.op, rows, scalar, TRUE))
      BY RowsRemain
    <3>3. e.op \in SetOps => AreRows(VectorSetOp(e.op, e.match, M[e.lhs], M[e.rhs]))
      BY <3>1, RowsRemain
    <3>4. \A rows : AreRows(Unmarked(rows))
      BY RowsStay
    <3>5. \/ \E rows, scalar : MeaningNode(e, t, M) = OneOver(e.op, rows, scalar, FALSE)
          \/ \E rows, scalar : MeaningNode(e, t, M) = OneOver(e.op, rows, scalar, TRUE)
          \/ e.op \in SetOps /\ MeaningNode(e, t, M) = VectorSetOp(e.op, e.match, M[e.lhs], M[e.rhs])
          \/ \E rows : MeaningNode(e, t, M) = Unmarked(rows)
      BY <2>6 DEF MeaningNode
    <3>6. QED
      BY <3>2, <3>3, <3>4, <3>5
  <2>7. CASE e.kind = "subquery"
    <3>1. MeaningNode(e, t, M) = {}
      BY <2>7 DEF MeaningNode
    <3>2. QED
      BY <3>1 DEF AreRows
  <2>8. e.kind \in {"number", "time", "selector", "over", "subquery", "neg", "binary"} \union Wrapping
    BY ExprsAssumption DEF Wrapping
  <2>9. QED
    BY <2>2, <2>3, <2>4, <2>5, <2>6, <2>7, <2>8
<1>5. \A e \in Exprs : e \in Good
  <2>1. \A e \in Exprs : Below(e) \subseteq Good => e \in Good
    BY <1>1, <1>4
  <2> HIDE DEF Good
  <2>2. QED
    BY <2>1, TreeInduction
<1>6. QED
  BY <1>5 DEF M

-----------------------------------------------------------------------------
(***************************************************************************)
(* The results of plans that are no operations.                            *)
(***************************************************************************)

\* A result is what its expression means, at each step.
Means(res, q, e) ==
  /\ TimesOf(res.points) \subseteq ToSet(StepsOf(q))
  /\ \A t \in ToSet(StepsOf(q)) : RowsAt(res.points, t) = Meaning(t)[e]

\* Nothing writes into the plan of a literal.
LEMMA LiteralPlan ==
  ASSUME NEW q, IsQuery(q), NEW e \in Exprs, WellOrdered(q, e), NEW p \in Transpile(q)[e]
  PROVE  (p.isScalar <=> e.kind = "number") /\ p.isScalar \in BOOLEAN
<1>1. Marked(p, e)
  BY PlansAreDescribed DEF Describes
<1>2. ASSUME p.isScalar, e.kind # "number"  PROVE FALSE
  <2>1. PICK b \in Parts[e] : b.kind \in Wrapping /\ \E x \in Operands(b) : x.kind = "number"
    BY <1>1, <1>2 DEF Marked
  <2>2. b \in Exprs /\ InOrderAt(q, b)
    BY <2>1, PartsAre DEF WellOrdered
  <2>3. b.arg.kind = "number" /\ b.arg \in Below(b)
    BY <2>1, <2>2, OperandsAre DEF Wrapping
  <2>4. CASE b.kind \in {"agg", "math", "absent"}
    BY <2>2, <2>3, <2>4 DEF InOrderAt
  <2>5. CASE b.kind \in {"scalar", "label_replace", "label_join"}
    BY <2>2, <2>3, <2>5 DEF InOrderAt, Below
  <2>6. CASE b.kind = "histogram_quantile"
    <3>1. b.arg.kind \in {"over", "agg"}
      BY <2>2, <2>6 DEF InOrderAt
    <3>2. QED
      BY <2>3, <3>1
  <2>7. QED
    BY <2>1, <2>4, <2>5, <2>6 DEF Wrapping
<1>3. QED
  BY <1>1, <1>2 DEF Marked

\* At an instant no row loses its time; a range knows neither trigonometry nor label_join.
LEMMA OrderedChains ==
  ASSUME NEW q, IsQuery(q), q.start <= q.end, NEW e \in Exprs, WellOrdered(q, e), NEW p \in Transpile(q)[e]
  PROVE  /\ Len(StepsOf(q)) # 1 \/ ~LosesTime(p)
         /\ Ranged(q) <=> Len(StepsOf(q)) # 1
         /\ Ranged(q) => \A rows : ApplyMathChain(rows, p.math, TRUE) = ApplyMathChain(rows, p.math, FALSE)
         /\ Ranged(q) => \A b \in Parts[e] : b.kind # "label_join"
<1>1. p.aggs \in Seq(AggSteps(e)) /\ p.math \in Seq(MathSteps(e))
  BY PlansAreDescribed DEF Describes, Chained
<1>2. Ranged(q) <=> Len(StepsOf(q)) # 1
  <2>1. Len(StepsOf(q)) \in Nat \ {0}
    BY StepsAre
  <2>2. \A n \in Nat \ {0} : n > 1 <=> n # 1
    OBVIOUS
  <2>3. QED
    BY <2>1, <2>2 DEF Ranged
<1>3. \A b \in Parts[e] : InOrderAt(q, b)
  BY DEF WellOrdered
<1>4. ASSUME LosesTime(p)  PROVE Ranged(q)
  <2>1. PICK i \in DOMAIN p.aggs : p.aggs[i].op \in {"quantile", "count_values"}
    BY <1>4 DEF LosesTime
  <2>2. p.aggs[i] \in AggSteps(e)
    BY <1>1, <2>1, ElementOfSeq
  <2>3. PICK b \in Parts[e] : b.kind = "agg" /\ p.aggs[i] = AggStep(b)
    BY <2>2 DEF AggSteps
  <2>4. b.op \in {"quantile", "count_values"}
    BY <2>1, <2>3 DEF AggStep
  <2>5. QED
    BY <1>3, <2>3, <2>4 DEF InOrderAt
<1>5. ASSUME Ranged(q)
      PROVE  \A rows : ApplyMathChain(rows, p.math, TRUE) = ApplyMathChain(rows, p.math, FALSE)
  <2>1. \A b \in Parts[e] : b.kind = "math" => b.fn # "trig"
    BY <1>3, <1>5 DEF InOrderAt
  <2>2. \A rows : \A a, b \in BOOLEAN : ApplyMathChain(rows, p.math, a) = ApplyMathChain(rows, p.math, b)
    BY <1>1, <2>1, NoTrig
  <2>3. QED
    BY <2>2
<1>6. Ranged(q) => \A b \in Parts[e] : b.kind # "label_join"
  BY <1>3 DEF InOrderAt
<1>7. QED
  BY <1>2, <1>4, <1>5, <1>6

\* What is fetched is all that counts.
LEMMA LeafByRows ==
  ASSUME NEW q, IsQuery(q), NEW e \in Exprs, WellOrdered(q, e), FetchesFor(q, e), e.kind # "number",
         NEW p \in Transpile(q)[e], p.exprType # "time", IsAbsent(p) => p.offset = 0,
         \A t \in ToSet(StepsOf(q)) : LeafRows(p, Wanted(p), t, Ranged(q)) = Meaning(t)[e]
  PROVE  Means(EvalLeaf(p, q), q, e)
<1>1. q.start <= q.end
  BY DEF FetchesFor
<1>2. ~p.isScalar
  BY LiteralPlan
<1>3. /\ Len(StepsOf(q)) # 1 \/ ~LosesTime(p)
      /\ Ranged(q) <=> Len(StepsOf(q)) # 1
  BY <1>1, OrderedChains
<1>4. /\ TimesOf(EvalLeaf(p, q).points) \subseteq ToSet(StepsOf(q))
      /\ \A t \in ToSet(StepsOf(q)) :
           RowsAt(EvalLeaf(p, q).points, t) = Unmarked(LeafRows(p, Fetch(p), t, Len(StepsOf(q)) # 1))
  BY <1>2, <1>3, LeafPoints
<1>5. ASSUME NEW t \in ToSet(StepsOf(q))
      PROVE  RowsAt(EvalLeaf(p, q).points, t) = Meaning(t)[e]
  <2>1. /\ ValuesAt(p, Fetch(p), t) = ValuesAt(p, Wanted(p), t)
        /\ p.offset = 0 => AbsentRows(p, Fetch(p), t) = AbsentRows(p, Wanted(p), t)
    BY ValuesAre
  <2>2. LeafRows(p, Fetch(p), t, Len(StepsOf(q)) # 1) = LeafRows(p, Wanted(p), t, Ranged(q))
    BY <1>3, <2>1 DEF LeafRows
  <2>3. Unmarked(Meaning(t)[e]) = Meaning(t)[e]
    BY MeaningsAreRows, RowsStay
  <2>4. QED
    BY <1>4, <2>2, <2>3
<1>6. QED
  BY <1>4, <1>5 DEF Means

\* Functions and aggregations around one selector.
LEMMA FlatMeans ==
  ASSUME NEW q, IsQuery(q), NEW e \in Exprs, WellOrdered(q, e), FetchesFor(q, e), e.kind \in FlatKinds,
         NEW p \in Transpile(q)[e], p.exprType # "binary"
  PROVE  Means(EvalLeaf(p, q), q, e)
<1>1. Flat(p, e)
  BY FlatIs
<1>2. /\ p.fn \notin {"absent", "histogram_quantile"}
      /\ p.exprType \notin {"absent", "histogram_quantile", "scalar_func", "time"}
  BY <1>1, Names DEF Flat
<1>3. ~IsAbsent(p) /\ ~IsHistogram(p)
  BY <1>2 DEF IsAbsent, IsHistogram
<1>4. q.start <= q.end
  BY DEF FetchesFor
<1>5. ASSUME NEW t \in ToSet(StepsOf(q))
      PROVE  LeafRows(p, Wanted(p), t, Ranged(q)) = Meaning(t)[e]
  <2> DEFINE V == ValuesAt(p, Wanted(p), t)
             A == ApplyAggChain(V, p.aggs)
             M == ApplyMathChain(A, p.math, FALSE)
  <2>1. RelabelledBy(Relabelling, M, p) = Meaning(t)[e]
    <3>1. t \in Int
      BY <1>4, StepsAre
    <3>2. QED
      BY <1>1, <3>1 DEF Flat, Core
  <2>2. InstantRows(V, p) = RelabelledBy(Relabelling, M, p)
    BY <1>2, <1>3 DEF InstantRows, ScalarOf, QuantilesOf, Relabelling
  <2>3. ASSUME Ranged(q)  PROVE StepRows(V, p) = RelabelledBy(Relabelling, M, p)
    <3>1. ApplyMathChain(A, p.math, TRUE) = M
      <4>1. \A rows : ApplyMathChain(rows, p.math, TRUE) = ApplyMathChain(rows, p.math, FALSE)
        BY <1>4, <2>3, OrderedChains
      <4>2. QED
        BY <4>1
    <3>2. StepRows(V, p) = RelabelledBy({"label_replace"}, ApplyMathChain(A, p.math, TRUE), p)
      BY <1>2, <1>3 DEF StepRows
    <3>3. p.fn # "label_join"
      <4>1. \A b \in Parts[e] : b.kind # "label_join"
        BY <1>4, <2>3, OrderedChains
      <4>2. QED
        BY <1>1, <4>1 DEF Flat, Relabelling
    <3> HIDE DEF M
    <3>4. RelabelledBy({"label_replace"}, M, p) = RelabelledBy(Relabelling, M, p)
      BY <3>3 DEF RelabelledBy, Relabelling
    <3>5. QED
      BY <3>1, <3>2, <3>4
  <2>4. LeafRows(p, Wanted(p), t, Ranged(q)) = IF Ranged(q) THEN StepRows(V, p) ELSE InstantRows(V, p)
    BY <1>3 DEF LeafRows
  <2> HIDE DEF V, M
  <2>5. QED
    BY <2>1, <2>2, <2>3, <2>4
<1>6. e.kind # "number"
  BY DEF FlatKinds, Relabelling
<1>7. QED
  BY <1>2, <1>3, <1>5, <1>6, LeafByRows

\* A vector's value, if it has a single one.
LEMMA ScalarMeans ==
  ASSUME NEW q, IsQuery(q), NEW e \in Exprs, WellOrdered(q, e), FetchesFor(q, e), e.kind = "scalar",
         NEW p \in Transpile(q)[e]
  PROVE  Means(EvalLeaf(p, q), q, e)
<1>1. PICK x \in Transpile(q)[e.arg] :
        /\ Written(e, x, p) /\ e.arg \in Exprs /\ e.arg \in Below(e) /\ Parts[e.arg] \subseteq Below(e)
  BY WrapsAre DEF Wrapping
<1>2. \A b \in Below(e) : b.kind \in {"selector", "over", "agg", "math"}
  BY PartsAreOrdered DEF InOrderAt, Below
<1>3. Flat(x, e.arg)
  <2>1. WellOrdered(q, e.arg) /\ e.arg.kind \in FlatKinds
    BY <1>1, <1>2, PartsAreOrdered DEF Below, FlatKinds
  <2>2. x.exprType # "binary"
    <3>1. SUFFICES ASSUME x.exprType = "binary"  PROVE FALSE
      OBVIOUS
    <3>2. PICK b \in Parts[e.arg] : b.kind \in {"neg", "binary"}
      BY <1>1, <3>1, OperationOf
    <3>3. QED
      BY <1>1, <1>2, <3>2
  <2>3. QED
    BY <1>1, <2>1, <2>2, FlatIs
<1>4. x.fn \notin Relabelling \union {"absent", "histogram_quantile"}
  <2>1. \A b \in Parts[e.arg] : b.kind \notin Relabelling
    BY <1>1, <1>2 DEF Relabelling
  <2>2. QED
    BY <1>3, <2>1, Names DEF Flat
<1>5. /\ p.exprType = "scalar_func" /\ p.fn = x.fn /\ p.math = x.math /\ p.aggs = x.aggs
      /\ p.metric = x.metric /\ p.eq = x.eq /\ p.offset = x.offset /\ p.range = x.range
      /\ p.param = x.param
  BY <1>1 DEF Written, AgreeBut, Fields
<1>6. ~IsAbsent(p) /\ ~IsHistogram(p)
  BY <1>4, <1>5 DEF IsAbsent, IsHistogram
<1>7. ASSUME NEW t \in ToSet(StepsOf(q))
      PROVE  LeafRows(p, Wanted(p), t, Ranged(q)) = Meaning(t)[e]
  <2> DEFINE V == ValuesAt(p, Wanted(p), t)
             c == Core(x, t)
  <2>1. c = Meaning(t)[e.arg]
    <3>1. t \in Int
      BY StepsAre DEF FetchesFor
    <3>2. QED
      BY <1>3, <1>4, <3>1 DEF Flat, RelabelledBy
  <2>2. V = ValuesAt(x, Wanted(x), t)
    BY <1>4, <1>5, SameValues
  <2>3. ApplyMathChain(ApplyAggChain(V, p.aggs), p.math, FALSE) = c
    BY <1>5, <2>2 DEF Core
  <2> HIDE DEF V, c
  <2>4. InstantRows(V, p) = ToScalar(c)
    BY <1>4, <1>5, <1>6, <2>3 DEF InstantRows, ScalarOf, QuantilesOf, RelabelledBy, Relabelling
  <2>5. StepRows(V, p) = ToScalar(c)
    BY <1>5, <2>4 DEF StepRows
  <2>6. LeafRows(p, Wanted(p), t, Ranged(q)) = ToScalar(c)
    BY <1>6, <2>4, <2>5 DEF LeafRows, V
  <2>7. Meaning(t)[e] = ToScalar(Meaning(t)[e.arg])
    BY MeaningsAre DEF MeaningNode
  <2>8. QED
    BY <2>1, <2>6, <2>7
<1>8. QED
  BY <1>5, <1>6, <1>7, LeafByRows

\* The quantile of a histogram of rates.
LEMMA HistogramMeans ==
  ASSUME NEW q, IsQuery(q), NEW e \in Exprs, WellOrdered(q, e), FetchesFor(q, e),
         e.kind = "histogram_quantile", NEW p \in Transpile(q)[e]
  PROVE  Means(EvalLeaf(p, q), q, e)
<1>1. PICK x \in Transpile(q)[e.arg] :
        /\ Written(e, x, p) /\ e.arg \in Exprs /\ e.arg \in Below(e) /\ Parts[e.arg] \subseteq Below(e)
  BY WrapsAre DEF Wrapping
<1>2. PICK b \in Below(e) :
        /\ b.kind = "over" /\ b.fn \in {"rate", "increase", "irate"}
        /\ e.arg = b \/ (e.arg.kind = "agg" /\ e.arg.arg = b)
  BY PartsAreOrdered DEF InOrderAt, Below
<1>3. e.arg.kind \in {"over", "agg"}
  BY <1>2
<1>4. Flat(x, e.arg)
  <2>1. WellOrdered(q, e.arg) /\ e.arg.kind \in FlatKinds
    BY <1>1, <1>3, PartsAreOrdered DEF Below, FlatKinds
  <2>2. x.exprType # "binary"
    BY <1>1, <1>3, PlainTypes
  <2>3. QED
    BY <1>1, <2>1, <2>2, FlatIs
<1>5. x.math = <<>> /\ x.fn \notin Relabelling
  BY <1>3, <1>4 DEF Flat
<1>6. x.fn = b.fn
  <2>1. \A y \in Exprs : y.kind = "over" => \A w \in Transpile(q)[y] : w.fn = y.fn
    <3>1. SUFFICES ASSUME NEW y \in Exprs, y.kind = "over", NEW w \in Transpile(q)[y]  PROVE w.fn = y.fn
      OBVIOUS
    <3>2. TranspileNode(y, q, Transpile(q)) = {TranspileRangeFunc(y, q)}
      BY <3>1 DEF TranspileNode
    <3>3. w = TranspileRangeFunc(y, q)
      BY <3>1, <3>2, PlansAre
    <3>4. QED
      BY <3>3, BasesAre
  <2>2. CASE e.arg = b
    BY <1>1, <1>2, <2>1, <2>2
  <2>3. CASE e.arg.kind = "agg" /\ e.arg.arg = b
    <3>1. PICK w \in Transpile(q)[b] : Written(e.arg, w, x) /\ b \in Exprs
      BY <1>1, <2>3, WrapsAre DEF Wrapping
    <3>2. x.fn = w.fn
      BY <2>3, <3>1 DEF Written, AgreeBut, Fields
    <3>3. QED
      BY <1>2, <2>1, <3>1, <3>2
  <2>4. QED
    BY <1>2, <2>2, <2>3
<1>7. /\ p.exprType = "histogram_quantile" /\ p.fn = "histogram_quantile" /\ p.inner = x.fn
      /\ p.param = e.param /\ p.math = x.math /\ p.aggs = x.aggs
      /\ p.metric = x.metric /\ p.eq = x.eq /\ p.offset = x.offset /\ p.range = x.range
  BY <1>1 DEF Written, AgreeBut, Fields
<1>8. ~IsAbsent(p) /\ IsHistogram(p)
  BY <1>7 DEF IsAbsent, IsHistogram
<1>9. ASSUME NEW t \in ToSet(StepsOf(q))
      PROVE  LeafRows(p, Wanted(p), t, Ranged(q)) = Meaning(t)[e]
  <2> DEFINE V == ValuesAt(p, Wanted(p), t)
             c == Core(x, t)
  <2>1. c = Meaning(t)[e.arg]
    <3>1. t \in Int
      BY StepsAre DEF FetchesFor
    <3>2. QED
      BY <1>4, <1>5, <3>1 DEF Flat, RelabelledBy
  <2>2. V = ValuesAt(x, Wanted(x), t)
    BY <1>2, <1>6, <1>7, SameValues
  <2>3. ApplyMathChain(ApplyAggChain(V, p.aggs), p.math, FALSE) = c
    BY <1>7, <2>2 DEF Core
  <2> HIDE DEF V, c
  <2>4. InstantRows(V, p) = ApplyHistogramQuantile(c, e.param)
    BY <1>7, <1>8, <2>3 DEF InstantRows, ScalarOf, QuantilesOf, RelabelledBy
  <2>5. StepRows(V, p) = InstantRows(V, p)
    BY <1>8 DEF StepRows
  <2>6. LeafRows(p, Wanted(p), t, Ranged(q)) = ApplyHistogramQuantile(c, e.param)
    BY <1>8, <2>4, <2>5 DEF LeafRows, V
  <2>7. Meaning(t)[e] = ApplyHistogramQuantile(Meaning(t)[e.arg], e.param)
    BY MeaningsAre DEF MeaningNode
  <2>8. QED
    BY <2>1, <2>6, <2>7
<1>10. QED
  BY <1>7, <1>8, <1>9, LeafByRows

\* The absence of what a selector selects.
LEMMA AbsentMeans ==
  ASSUME NEW q, IsQuery(q), NEW e \in Exprs, WellOrdered(q, e), FetchesFor(q, e), e.kind = "absent",
         NEW p \in Transpile(q)[e]
  PROVE  Means(EvalLeaf(p, q), q, e)
<1> DEFINE a == e.arg
<1>1. PICK x \in Transpile(q)[a] : Written(e, x, p) /\ a \in Exprs
  BY WrapsAre DEF Wrapping
<1>2. a.kind = "selector" /\ a.offset = 0
  BY PartsAreOrdered DEF InOrderAt
<1>3. p.exprType = "absent" /\ p.fn = "absent" /\ p.absentEq = a.eq
      /\ p.metric = x.metric /\ p.eq = x.eq /\ p.offset = x.offset
  BY <1>1, <1>2 DEF Written, AgreeBut, Fields
<1>4. x.metric = a.metric /\ x.eq = a.eq /\ x.offset = 0
  <2>1. TranspileNode(a, q, Transpile(q)) = {TranspileVectorSelector(a, q)}
    BY <1>2 DEF TranspileNode
  <2>2. x = TranspileVectorSelector(a, q)
    BY <1>1, <2>1, PlansAre
  <2>3. QED
    BY <1>2, <2>2, BasesAre
<1>5. a.metric # "" /\ a.metric \in DOMAIN Store
  BY <1>1, <1>2, ExprsAssumption
<1>6. Wanted(p) = Selected(a) /\ \A s \in Selected(a) : s \in Store[a.metric]
  BY <1>1, <1>2, <1>3, <1>4, <1>5, SelectedIs DEF Wanted
<1>7. IsAbsent(p)
  BY <1>3 DEF IsAbsent
<1>8. ASSUME NEW t \in ToSet(StepsOf(q))
      PROVE  LeafRows(p, Wanted(p), t, Ranged(q)) = Meaning(t)[e]
  <2> DEFINE M == Meaning(t)
             row(s, v) == [labels |-> s.labels, v |-> v]
             U(s) == InstantValue(s.samples, t)
             one == {[labels |-> a.eq, v |-> 1]}
  <2>1. t \in Int
    BY StepsAre DEF FetchesFor
  <2>2. ASSUME NEW s \in Selected(a)  PROVE LookedUp(s, t - a.offset) = U(s)
    <3>1. IsSeries(s.samples)
      BY <1>5, <1>6, StoreIs
    <3>2. t - a.offset = t
      BY <1>2, <2>1
    <3>3. QED
      BY <2>1, <3>1, <3>2, LookedUpIs
  <2>3. M[a] = UNION {{row(s, v) : v \in LookedUp(s, t - a.offset)} : s \in Selected(a)}
    <3>1. M[a] = MeaningNode(a, t, M)
      BY <1>1, MeaningsAre
    <3> HIDE DEF M
    <3>2. QED
      BY <1>2, <3>1 DEF MeaningNode, RowsOf
  <2>4. M[e] = {r \in one : M[a] = {}}
    <3>1. M[e] = MeaningNode(e, t, M)
      BY MeaningsAre
    <3> HIDE DEF M
    <3>2. QED
      BY <1>2, <3>1 DEF MeaningNode
  <2>5. LeafRows(p, Wanted(p), t, Ranged(q)) = {r \in one : \A s \in Selected(a) : U(s) = {}}
    BY <1>3, <1>6, <1>7 DEF LeafRows, AbsentRows
  <2> HIDE DEF M, U, one, row
  <2>6. M[a] = {} <=> \A s \in Selected(a) : U(s) = {}
    <3>1. M[a] = UNION {{row(s, v) : v \in U(s)} : s \in Selected(a)}
      BY <2>2, <2>3
    <3>2. \A s \in Selected(a) : \A v \in U(s) : row(s, v) \in M[a]
      BY <3>1
    <3>3. \A r \in M[a] : \E s \in Selected(a) : U(s) # {}
      BY <3>1
    <3>4. QED
      BY <3>2, <3>3
  <2>7. QED
    BY <2>4, <2>5, <2>6 DEF M
<1>9. QED
  BY <1>3, <1>4, <1>7, <1>8, LeafByRows

\* A query that is no range has one step, its start.
LEMMA OneStep ==
  ASSUME NEW q, IsQuery(q), q.start <= q.end, q.step = 0 => q.start = q.end, ~Ranged(q)
  PROVE  ToSet(StepsOf(q)) = {q.start} /\ Len(StepsOf(q)) = 1
<1>1. CASE q.step = 0
  BY <1>1, StepsAre
<1>2. CASE q.step # 0
  <2> DEFINE n == (q.end - q.start) \div q.step + 1
             at(i) == q.start + (i - 1) * q.step
  <2>1. q.step \in Nat \ {0} /\ q.start \in Int /\ q.end \in Int
    BY <1>2 DEF IsQuery
  <2>2. StepsOf(q) = [i \in 1..n |-> at(i)]
    BY <2>1 DEF StepsOf, Steps
  <2>3. Len(StepsOf(q)) \in Nat \ {0} /\ ~(Len(StepsOf(q)) > 1)
    BY StepsAre DEF Ranged
  <2>4. Len(StepsOf(q)) = 1
    <3>1. \A k \in Nat \ {0} : ~(k > 1) => k = 1
      OBVIOUS
    <3>2. QED
      BY <2>3, <3>1
  <2>5. n = 1
    <3>1. \A x \in Int, d \in Nat \ {0} : x \div d \in Int
      OBVIOUS
    <3>2. q.end - q.start \in Nat /\ n \in Nat
      <4>1. q.end - q.start \in Nat
        BY <2>1
      <4>2. \A x \in Nat, d \in Nat \ {0} : x \div d + 1 \in Nat
        OBVIOUS
      <4>3. QED
        BY <2>1, <4>1, <4>2
    <3> HIDE DEF n, at
    <3>3. Len(StepsOf(q)) = n
      BY <2>2, <3>2
    <3>4. QED
      BY <2>4, <3>3
  <2>6. at(1) = q.start
    BY <2>1
  <2> HIDE DEF n, at
  <2>7. StepsOf(q) = <<q.start>>
    BY <2>2, <2>5, <2>6
  <2>8. QED
    BY <2>4, <2>7 DEF ToSet
<1>3. QED
  BY <1>1, <1>2

\* The rows of a step with a single point.
LEMMA OnePoint ==
  ASSUME NEW points, NEW t, NEW l, NEW v, [labels |-> l, t |-> t, v |-> v] \in points,
         \A x \in points : x.t = t => x = [labels |-> l, t |-> t, v |-> v]
  PROVE  RowsAt(points, t) = {[labels |-> l, v |-> v]}
<1> DEFINE row(x) == [labels |-> x.labels, v |-> x.v]
           x == [labels |-> l, t |-> t, v |-> v]
<1>1. RowsAt(points, t) = {row(y) : y \in {x}}
  <2>1. {y \in points : y.t = t} = {x}
    OBVIOUS
  <2> HIDE DEF x
  <2>2. QED
    BY <2>1 DEF RowsAt
<1>2. row(x) = [labels |-> l, v |-> v]
  OBVIOUS
<1> HIDE DEF row, x
<1>3. QED
  BY <1>1, <1>2

\* time() is one value at each step, the step.
LEMMA TimeMeans ==
  ASSUME NEW q, IsQuery(q), NEW e \in Exprs, FetchesFor(q, e), e.kind = "time", NEW p \in Transpile(q)[e]
  PROVE  Means(EvalLeaf(p, q), q, e)
<1> DEFINE T == ToSet(StepsOf(q))
           points == {[labels |-> NoLabels, t |-> t, v |-> t] : t \in T}
<1>1. p = [Blank EXCEPT !.exprType = "time"]
  <2>1. TranspileNode(e, q, Transpile(q)) = {[Blank EXCEPT !.exprType = "time"]}
    BY DEF TranspileNode
  <2>2. QED
    BY <2>1, PlansAre
<1>2. p.exprType = "time" /\ ~p.isScalar
  <2>1. AgreeBut(p, Blank, {"exprType"}) /\ p.exprType = "time"
    BY <1>1, BasesAre
  <2>2. QED
    BY <2>1, BlankFields DEF AgreeBut, Fields
<1>3. EvalLeaf(p, q).points = points
  <2>1. CASE q.step = 0
    <3>1. T = {q.end}
      BY <2>1, StepsAre DEF FetchesFor
    <3>2. points = {[labels |-> NoLabels, t |-> q.end, v |-> q.end]}
      BY <3>1
    <3>3. QED
      BY <1>2, <2>1, <3>2 DEF EvalLeaf
  <2>2. CASE q.step # 0
    BY <1>2, <2>2 DEF EvalLeaf
  <2>3. QED
    BY <2>1, <2>2
<1>4. ASSUME NEW t \in T  PROVE RowsAt(points, t) = Meaning(t)[e]
  <2>1. Meaning(t)[e] = {[labels |-> NoLabels, v |-> t]}
    BY MeaningsAre DEF MeaningNode
  <2>2. /\ [labels |-> NoLabels, t |-> t, v |-> t] \in points
        /\ \A x \in points : x.t = t => x = [labels |-> NoLabels, t |-> t, v |-> t]
    OBVIOUS
  <2> HIDE DEF points
  <2>3. RowsAt(points, t) = {[labels |-> NoLabels, v |-> t]}
    BY <2>2, OnePoint
  <2>4. QED
    BY <2>1, <2>3
<1>5. TimesOf(points) \subseteq T
  BY DEF TimesOf
<1>6. QED
  BY <1>3, <1>4, <1>5 DEF Means

\* A number, as the result of an instant.
LEMMA NumberMeans ==
  ASSUME NEW q, IsQuery(q), NEW e \in Exprs, FetchesFor(q, e), q.step = 0 => q.start = q.end, ~Ranged(q),
         e.kind = "number", NEW p \in Transpile(q)[e]
  PROVE  Means(EvalLeaf(p, q), q, e)
<1> DEFINE points == {[labels |-> NoLabels, t |-> q.start, v |-> e.v]}
<1>1. p.isScalar /\ p.val = e.v
  <2>1. TranspileNode(e, q, Transpile(q)) = {Literal(e.v)}
    BY DEF TranspileNode
  <2>2. p = Literal(e.v)
    BY <2>1, PlansAre
  <2>3. QED
    BY <2>2, BasesAre
<1>2. EvalLeaf(p, q).points = points
  BY <1>1 DEF EvalLeaf
<1>3. ToSet(StepsOf(q)) = {q.start}
  BY OneStep DEF FetchesFor
<1>4. Meaning(q.start)[e] = {[labels |-> NoLabels, v |-> e.v]}
  BY MeaningsAre DEF MeaningNode
<1>5. RowsAt(points, q.start) = {[labels |-> NoLabels, v |-> e.v]}
  <2>1. /\ [labels |-> NoLabels, t |-> q.start, v |-> e.v] \in points
        /\ \A x \in points : x.t = q.start => x = [labels |-> NoLabels, t |-> q.start, v |-> e.v]
    OBVIOUS
  <2> HIDE DEF points
  <2>2. QED
    BY <2>1, OnePoint
<1>6. TimesOf(points) = {q.start}
  BY DEF TimesOf
<1>7. QED
  BY <1>2, <1>3, <1>4, <1>5, <1>6 DEF Means

\* A plan that is no operation means what its expression means: a selector or a function
\* of its window, with the aggregations and functions around it; a literal; time(); absent.
LEMMA LeafMeans ==
  ASSUME NEW q, IsQuery(q), q.step = 0 => q.start = q.end, NEW e \in Exprs, WellOrdered(q, e),
         FetchesFor(q, e), NEW p \in Transpile(q)[e], p.isScalar \/ p.exprType # "binary",
         e.kind = "number" => ~Ranged(q)
  PROVE  Means(EvalLeaf(p, q), q, e)
<1>1. p.exprType # "binary"
  <2>1. CASE p.isScalar
    <3>1. e.kind = "number"
      BY <2>1, LiteralPlan
    <3>2. QED
      BY <3>1, PlainTypes
  <2>2. QED
    BY <2>1
<1>2. e.kind \notin {"neg", "binary", "subquery"}
  <2>1. e.kind # "subquery"
    BY PartsAreOrdered DEF InOrderAt
  <2>2. ASSUME e.kind = "neg"  PROVE FALSE
    <3>1. p = Negation(e)
      <4>1. TranspileNode(e, q, Transpile(q)) = {Negation(e) : x \in Transpile(q)[e.arg]}
        BY <2>2 DEF TranspileNode
      <4>2. QED
        BY <4>1, PlansAre
    <3>2. QED
      BY <1>1, <3>1, BasesAre
  <2>3. ASSUME e.kind = "binary"  PROVE FALSE
    <3>1. PICK l, r : p = TranspileBinaryExpr(e, l, r)
      <4> DEFINE plans == Transpile(q)
      <4>1. TranspileNode(e, q, plans) = {TranspileBinaryExpr(e, s[1], s[2]) : s \in plans[e.lhs] \X plans[e.rhs]}
        BY <2>3 DEF TranspileNode
      <4>2. plans[e] = TranspileNode(e, q, plans) /\ p \in plans[e]
        BY PlansAre
      <4> HIDE DEF plans
      <4>3. QED
        BY <4>1, <4>2
    <3>2. QED
      BY <1>1, <3>1, OperationIs
  <2>4. QED
    BY <2>1, <2>2, <2>3
<1>3. e.kind \in {"number", "time", "scalar", "absent", "histogram_quantile"} \union FlatKinds
  BY <1>2, ExprsAssumption DEF FlatKinds, Relabelling
<1>4. QED
  BY <1>1, <1>3, NumberMeans, TimeMeans, ScalarMeans, AbsentMeans, HistogramMeans, FlatMeans

-----------------------------------------------------------------------------
(***************************************************************************)
(* Operations, and functions of their values.                              *)
(***************************************************************************)

\* Only the time has the plan of the time.
LEMMA TimePlan ==
  ASSUME NEW q, IsQuery(q), NEW e \in Exprs, WellOrdered(q, e), e.kind # "time", NEW p \in Transpile(q)[e]
  PROVE  p.exprType # "time"
<1>1. SUFFICES ASSUME p.exprType # "binary"  PROVE p.exprType # "time"
  OBVIOUS
<1>2. CASE e.kind \in FlatKinds
  BY <1>1, <1>2, FlatIs DEF Flat
<1>3. CASE e.kind \in {"scalar", "absent", "histogram_quantile"}
  <2>1. PICK x : Written(e, x, p)
    BY <1>3, WrapsAre DEF Wrapping
  <2>2. QED
    BY <1>3, <2>1 DEF Written
<1>4. CASE e.kind = "number"
  <2>1. TranspileNode(e, q, Transpile(q)) = {Literal(e.v)}
    BY <1>4 DEF TranspileNode
  <2>2. p = Literal(e.v)
    BY <2>1, PlansAre
  <2>3. p.exprType = ""
    <3>1. AgreeBut(p, Blank, {"isScalar", "val"})
      BY <2>2, BasesAre
    <3>2. QED
      BY <3>1, BlankFields DEF AgreeBut, Fields
  <2>4. QED
    BY <2>3
<1>5. CASE e.kind = "neg"
  <2>1. TranspileNode(e, q, Transpile(q)) = {Negation(e) : x \in Transpile(q)[e.arg]}
    BY <1>5 DEF TranspileNode
  <2>2. p = Negation(e)
    BY <2>1, PlansAre
  <2>3. QED
    BY <1>1, <2>2, BasesAre
<1>6. CASE e.kind = "binary"
  <2> DEFINE plans == Transpile(q)
  <2>1. TranspileNode(e, q, plans) = {TranspileBinaryExpr(e, s[1], s[2]) : s \in plans[e.lhs] \X plans[e.rhs]}
    BY <1>6 DEF TranspileNode
  <2>2. plans[e] = TranspileNode(e, q, plans) /\ p \in plans[e]
    BY PlansAre
  <2> HIDE DEF plans
  <2>3. PICK l, r : p = TranspileBinaryExpr(e, l, r)
    BY <2>1, <2>2
  <2>4. QED
    BY <1>1, <2>3, OperationIs
<1>7. e.kind # "subquery"
  BY PartsAreOrdered DEF InOrderAt
<1>8. QED
  BY <1>2, <1>3, <1>4, <1>5, <1>6, <1>7, ExprsAssumption DEF FlatKinds, Relabelling

\* At an instant everything but the time is a vector.
LEMMA VectorsAre ==
  ASSUME NEW q, IsQuery(q), q.start <= q.end, ~Ranged(q), NEW e \in Exprs, WellOrdered(q, e),
         \A x \in Parts[e] : x.kind # "time"
  PROVE  \A res \in Results(q)[e] : res.type = "vector"
<1> DEFINE Is(y) == WellOrdered(q, y) /\ (\A x \in Parts[y] : x.kind # "time") =>
                      \A res \in Results(q)[y] : res.type = "vector"
           Good == {y \in Exprs : Is(y)}
<1>1. Len(StepsOf(q)) = 1 /\ Cardinality(ToSet(StepsOf(q))) = 1
  <2>1. Len(StepsOf(q)) \in Nat \ {0}
    BY StepsAre
  <2>2. \A n \in Nat \ {0} : ~(n > 1) => n = 1
    OBVIOUS
  <2>3. Len(StepsOf(q)) = 1
    BY <2>1, <2>2 DEF Ranged
  <2>4. QED
    BY <2>3, StepsAre
<1>2. ASSUME NEW y \in Exprs, Below(y) \subseteq Good  PROVE y \in Good
  <2>1. SUFFICES ASSUME WellOrdered(q, y), \A x \in Parts[y] : x.kind # "time",
                        NEW res \in Results(q)[y]
                 PROVE  res.type = "vector"
    OBVIOUS
  <2>2. PICK p \in Transpile(q)[y] : res \in EvalPlan(p, q, Results(q))
    BY ResultsAre
  <2>3. y.kind # "time" /\ p.exprType # "time"
    BY <2>1, TimePlan, PartsAre
  <2>4. CASE p.isScalar \/ p.exprType # "binary"
    <3>1. res = EvalLeaf(p, q)
      BY <2>2, <2>4 DEF EvalPlan
    <3>2. QED
      BY <1>1, <2>3, <3>1 DEF EvalLeaf
  <2>5. CASE ~p.isScalar /\ p.exprType = "binary"
    <3>1. Len(p.math) \in Nat
      <4>1. p.math \in Seq(MathSteps(y))
        BY PlansAreDescribed DEF Describes, Chained
      <4>2. QED
        BY <4>1, LenProperties
    <3>2. p.lhs \in Below(y) /\ p.rhs \in Below(y) /\ p.lhs \in Exprs /\ p.rhs \in Exprs
      <4>1. PICK b \in Parts[y] : b \in Exprs /\ p.lhs \in Below(b) /\ p.rhs \in Below(b)
        BY <2>5, OperationOf
      <4>2. QED
        BY <4>1, PartsAre DEF Below
    <3>3. \A x \in {p.lhs, p.rhs} : \A l \in Results(q)[x] : IsResult(l) /\ l.type = "vector"
      <4>1. \A x \in Below(y) : WellOrdered(q, x) /\ Parts[x] \subseteq Parts[y] /\ Is(x)
        <5>1. \A x \in Below(y) : x \in Good
          BY <1>2
        <5>2. \A x \in Below(y) : x \in Parts[y]
          BY DEF Below
        <5>3. QED
          BY <2>1, <5>1, <5>2, PartsAre, PartsAreOrdered
      <4> HIDE DEF Good
      <4>2. \A x \in {p.lhs, p.rhs} : \A l \in Results(q)[x] : l.type = "vector"
        BY <2>1, <3>2, <4>1
      <4>3. QED
        BY <3>2, <4>2, ResultsAreResults
    <3> HIDE DEF Good, Is
    <3>4. ASSUME NEW i, IsResult(i), i.type = "vector"  PROVE WithMath(i, p).type = "vector"
      BY <3>1, <3>4, WithMathIs
    <3>5. ASSUME NEW x \in {p.lhs, p.rhs}, NEW l \in Results(q)[x], NEW v, NEW onLeft
          PROVE  LET new == ApplyScalarBinary(l, v, p.op, onLeft) IN IsResult(new) /\ new.type = "vector"
      <4>1. IsResult(l) /\ l.type = "vector"
        BY <3>3
      <4>2. QED
        BY <4>1, ScalarBinaryIs
    <3>6. CASE p.scalarR
      <4>1. PICK l \in Results(q)[p.lhs] : res = WithMath(ApplyScalarBinary(l, p.valR, p.op, FALSE), p)
        BY <2>2, <2>5, <3>6 DEF EvalPlan
      <4> DEFINE i == ApplyScalarBinary(l, p.valR, p.op, FALSE)
      <4>2. IsResult(i) /\ i.type = "vector"
        BY <3>5
      <4>3. QED
        BY <3>4, <4>1, <4>2
    <3>7. CASE ~p.scalarR /\ p.scalarL
      <4>1. PICK l \in Results(q)[p.rhs] : res = WithMath(ApplyScalarBinary(l, p.valL, p.op, TRUE), p)
        BY <2>2, <2>5, <3>7 DEF EvalPlan
      <4> DEFINE i == ApplyScalarBinary(l, p.valL, p.op, TRUE)
      <4>2. IsResult(i) /\ i.type = "vector"
        BY <3>5
      <4>3. QED
        BY <3>4, <4>1, <4>2
    <3>8. CASE ~p.scalarR /\ ~p.scalarL
      <4>1. PICK l \in Results(q)[p.lhs], r \in Results(q)[p.rhs] : res \in Combine(p, l, r, q)
        BY <2>2, <2>5, <3>8 DEF EvalPlan
      <4>2. CASE IsScalarResult(r)
        <5> DEFINE new == ApplyScalarBinary(l, ScalarValue(r), p.op, FALSE)
        <5>1. Combine(p, l, r, q) = {new}
          BY <4>2, CombineIs
        <5>2. new.type = "vector"
          BY <3>5
        <5> HIDE DEF new
        <5>3. QED
          BY <4>1, <5>1, <5>2
      <4>3. CASE ~IsScalarResult(r) /\ IsScalarResult(l)
        <5> DEFINE new == ApplyScalarBinary(r, ScalarValue(l), p.op, TRUE)
        <5>1. Combine(p, l, r, q) = {new}
          BY <4>3, CombineIs
        <5>2. new.type = "vector"
          BY <3>5
        <5> HIDE DEF new
        <5>3. QED
          BY <4>1, <5>1, <5>2
      <4>4. CASE ~IsScalarResult(r) /\ ~IsScalarResult(l)
        <5> DEFINE new == WithMath(Joined(p, l, r, q), p)
        <5>1. Combine(p, l, r, q) \subseteq {new}
          BY <4>4, CombineIs
        <5>2. IsResult(Joined(p, l, r, q)) /\ Joined(p, l, r, q).type = "vector"
          BY <1>1, JoinedIs DEF Joined
        <5>3. new.type = "vector"
          BY <3>4, <5>2
        <5> HIDE DEF new
        <5>4. QED
          BY <4>1, <5>1, <5>3
      <4>5. QED
        BY <4>2, <4>3, <4>4
    <3>9. QED
      BY <3>6, <3>7, <3>8
  <2>6. QED
    BY <2>4, <2>5
<1>3. \A y \in Exprs : y \in Good
  <2> HIDE DEF Good
  <2>1. QED
    BY <1>2, TreeInduction
<1>4. QED
  BY <1>3

\* The chain of p is the same at an instant and for a range, or is not asked for a range.
Exact(q, p, b) ==
  \/ \A rows : ApplyMathChain(rows, p.math, TRUE) = ApplyMathChain(rows, p.math, FALSE)
  \/ ~Ranged(q) /\ \A x \in Parts[b] : x.kind # "time"

\* An operation b, and the functions of its values that surround it.
Surrounds(q, p, e, b) ==
  /\ b \in Exprs /\ b.kind \in {"neg", "binary"}
  /\ \E x \in Transpile(q)[b] : AgreeBut(p, x, {"math"})
  /\ \/ b = e /\ p.math = <<>>
     \/ b.kind = "binary" /\ (OneLiteral(b) \/ Matches(q, b))
  /\ \A t : ApplyMathChain(Meaning(t)[b], p.math, FALSE) = Meaning(t)[e]
  /\ Exact(q, p, b)

\* The plan of functions of an operation is that of the operation, with the functions.
LEMMA OperationSurrounded ==
  ASSUME NEW q, IsQuery(q), NEW e \in Exprs, WellOrdered(q, e), NEW p \in Transpile(q)[e], p.exprType = "binary"
  PROVE  \E b \in Parts[e] : Surrounds(q, p, e, b)
<1> DEFINE Is(y) == WellOrdered(q, y) =>
                      \A w \in Transpile(q)[y] :
                        w.exprType = "binary" => \E b \in Parts[y] : Surrounds(q, w, y, b)
           Good == {y \in Exprs : Is(y)}
<1>1. /\ \A rows : ApplyMathChain(rows, <<>>, FALSE) = rows
      /\ \A rows : ApplyMathChain(rows, <<>>, TRUE) = rows
  BY ChainsAre
<1>2. ASSUME NEW y \in Exprs, Below(y) \subseteq Good  PROVE y \in Good
  <2>1. SUFFICES ASSUME WellOrdered(q, y), NEW w \in Transpile(q)[y], w.exprType = "binary"
                 PROVE  \E b \in Parts[y] : Surrounds(q, w, y, b)
    OBVIOUS
  <2>2. y \in Parts[y]
    BY PartsAre
  <2>3. CASE y.kind \in {"neg", "binary"}
    <3>1. w.math = <<>>
      <4>1. CASE y.kind = "neg"
        <5>1. TranspileNode(y, q, Transpile(q)) = {Negation(y) : x \in Transpile(q)[y.arg]}
          BY <4>1 DEF TranspileNode
        <5>2. w = Negation(y)
          BY <5>1, PlansAre
        <5>3. AgreeBut(w, Blank, {"exprType", "op", "lhs", "rhs", "match"})
          BY <5>2, BasesAre
        <5>4. QED
          BY <5>3, BlankFields DEF AgreeBut, Fields
      <4>2. CASE y.kind = "binary"
        <5> DEFINE plans == Transpile(q)
        <5>1. TranspileNode(y, q, plans) = {TranspileBinaryExpr(y, s[1], s[2]) : s \in plans[y.lhs] \X plans[y.rhs]}
          BY <4>2 DEF TranspileNode
        <5>2. plans[y] = TranspileNode(y, q, plans) /\ w \in plans[y]
          BY PlansAre
        <5> HIDE DEF plans
        <5>3. PICK l, r : w = TranspileBinaryExpr(y, l, r)
          BY <5>1, <5>2
        <5>4. AgreeBut(w, Blank, {"exprType", "op", "lhs", "rhs", "match", "scalarL",
                                  "scalarR", "valL", "valR"})
          BY <5>3, OperationIs
        <5>5. QED
          BY <5>4, BlankFields DEF AgreeBut, Fields
      <4>3. QED
        BY <2>3, <4>1, <4>2
    <3>2. AgreeBut(w, w, {"math"})
      BY DEF AgreeBut
    <3>3. Exact(q, w, y)
      BY <1>1, <3>1 DEF Exact
    <3>4. \A t : ApplyMathChain(Meaning(t)[y], w.math, FALSE) = Meaning(t)[y]
      BY <1>1, <3>1
    <3>5. Surrounds(q, w, y, y)
      BY <2>3, <3>1, <3>2, <3>3, <3>4 DEF Surrounds
    <3>6. QED
      BY <2>2, <3>5
  <2>4. CASE y.kind = "math"
    <3>1. PICK x \in Transpile(q)[y.arg] :
            /\ Written(y, x, w) /\ y.arg \in Exprs /\ y.arg \in Below(y) /\ Parts[y.arg] \subseteq Below(y)
            /\ x.math \in Seq(MathSteps(y.arg))
      BY <2>1, <2>4, WrapsAre DEF Wrapping
    <3>2. AgreeBut(w, x, {"math"}) /\ w.math = Append(x.math, MathStep(y)) /\ x.exprType = "binary"
      BY <2>1, <2>4, <3>1 DEF Written, AgreeBut, Fields
    <3>3. Is(y.arg) /\ WellOrdered(q, y.arg)
      <4>1. y.arg \in Good
        BY <1>2, <3>1
      <4>2. y.arg \in Parts[y]
        BY <3>1 DEF Below
      <4>3. QED
        BY <2>1, <4>1, <4>2, PartsAreOrdered
    <3>4. PICK b \in Parts[y.arg] : Surrounds(q, x, y.arg, b)
      BY <3>2, <3>3
    <3> HIDE DEF Is, Good
    <3>5. InOrderAt(q, y)
      BY <2>1, PartsAreOrdered
    <3>6. b.kind = "binary" /\ (OneLiteral(b) \/ Matches(q, b))
      <4>1. CASE b = y.arg
        <5>1. b.kind \in {"neg", "binary"}
          BY <3>4 DEF Surrounds
        <5>2. QED
          BY <2>4, <3>5, <4>1, <5>1 DEF InOrderAt
      <4>2. CASE b # y.arg
        BY <3>4, <4>2 DEF Surrounds
      <4>3. QED
        BY <4>1, <4>2
    <3>7. \E z \in Transpile(q)[b] : AgreeBut(w, z, {"math"})
      <4>1. PICK z \in Transpile(q)[b] : AgreeBut(x, z, {"math"})
        BY <3>4 DEF Surrounds
      <4>2. AgreeBut(w, z, {"math"})
        BY <3>2, <4>1 DEF AgreeBut
      <4>3. QED
        BY <4>2
    <3> DEFINE m == MathStep(y)
    <3>8. /\ \A rows : ApplyMathChain(rows, w.math, FALSE) = ApplyMath(ApplyMathChain(rows, x.math, FALSE), m, FALSE)
          /\ \A rows : ApplyMathChain(rows, w.math, TRUE) = ApplyMath(ApplyMathChain(rows, x.math, TRUE), m, TRUE)
      <4>1. x.math \in Seq(MathSteps(y.arg)) /\ w.math = Append(x.math, m)
        BY <3>1, <3>2
      <4> HIDE DEF m
      <4>2. /\ \A rows : ApplyMathChain(rows, Append(x.math, m), FALSE)
                           = ApplyMath(ApplyMathChain(rows, x.math, FALSE), m, FALSE)
            /\ \A rows : ApplyMathChain(rows, Append(x.math, m), TRUE)
                           = ApplyMath(ApplyMathChain(rows, x.math, TRUE), m, TRUE)
        BY <4>1, MathAppended
      <4>3. QED
        BY <4>1, <4>2
    <3>9. ASSUME NEW t  PROVE ApplyMathChain(Meaning(t)[b], w.math, FALSE) = Meaning(t)[y]
      <4> DEFINE M == Meaning(t)
      <4>1. ApplyMathChain(M[b], x.math, FALSE) = M[y.arg]
        BY <3>4 DEF Surrounds
      <4>2. M[y] = ApplyMath(M[y.arg], m, FALSE)
        BY <2>4, MeaningsAre DEF MeaningNode
      <4> HIDE DEF m, M
      <4>3. QED
        BY <3>8, <4>1, <4>2 DEF M
    <3>10. Exact(q, w, b)
      <4>1. CASE y.fn = "trig"
        <5>1. ~Ranged(q) /\ \A z \in Below(y) : z.kind # "time"
          BY <2>4, <3>5, <4>1 DEF InOrderAt, Below
        <5>2. b \in Exprs /\ Parts[b] \subseteq Parts[y.arg]
          BY <3>1, <3>4, PartsAre
        <5>3. QED
          BY <3>1, <5>1, <5>2 DEF Exact
      <4>2. CASE y.fn # "trig"
        <5>1. \A rows : ApplyMath(rows, m, TRUE) = ApplyMath(rows, m, FALSE)
          <6>1. m.fn # "trig"
            BY <4>2 DEF MathStep
          <6> HIDE DEF m
          <6>2. \A v : ApplyMathOp(m, v, TRUE) = ApplyMathOp(m, v, FALSE)
            BY <6>1 DEF ApplyMathOp
          <6>3. QED
            BY <6>2 DEF ApplyMath
        <5> HIDE DEF m
        <5>2. CASE \A rows : ApplyMathChain(rows, x.math, TRUE) = ApplyMathChain(rows, x.math, FALSE)
          <6>1. \A rows : ApplyMathChain(rows, w.math, TRUE) = ApplyMathChain(rows, w.math, FALSE)
            BY <3>8, <5>1, <5>2
          <6>2. QED
            BY <6>1 DEF Exact
        <5>3. CASE ~Ranged(q) /\ \A z \in Parts[b] : z.kind # "time"
          BY <5>3 DEF Exact
        <5>4. Exact(q, x, b)
          BY <3>4 DEF Surrounds
        <5>5. QED
          BY <5>2, <5>3, <5>4 DEF Exact
      <4>3. QED
        BY <4>1, <4>2
    <3>11. b \in Exprs
      BY <3>4 DEF Surrounds
    <3>12. Surrounds(q, w, y, b)
      BY <3>6, <3>7, <3>9, <3>10, <3>11 DEF Surrounds
    <3>13. b \in Parts[y]
      BY <3>1, <3>4 DEF Below
    <3>14. QED
      BY <3>12, <3>13
  <2>5. y.kind \in {"neg", "binary", "math"}
    BY <2>1, PlainTypes
  <2>6. QED
    BY <2>3, <2>4, <2>5
<1>3. \A y \in Exprs : y \in Good
  <2> HIDE DEF Good
  <2>1. QED
    BY <1>2, TreeInduction
<1>4. QED
  BY <1>3

\* The results of x are what it means, if it is no number that is asked for a range.
Meant(q, x) == (x.kind = "number" => ~Ranged(q)) => \A res \in Results(q)[x] : Means(res, q, x)

\* A scalar is a row without labels.
LEMMA ScalarMeaning ==
  ASSUME NEW x \in Exprs, x.kind \in ScalarKinds, NEW t
  PROVE  /\ Meaning(t)[x] = {[labels |-> NoLabels, v |-> ScalarIn(Meaning(t)[x])]}
         /\ x.kind = "number" => ScalarIn(Meaning(t)[x]) = x.v
<1> DEFINE M == Meaning(t)
           row(v) == [labels |-> NoLabels, v |-> v]
<1>1. M[x] = MeaningNode(x, t, M)
  BY MeaningsAre
<1> HIDE DEF M
<1>2. x.kind = "number" => M[x] = {row(x.v)}
  BY <1>1 DEF MeaningNode
<1>3. x.kind = "time" => M[x] = {row(t)}
  BY <1>1 DEF MeaningNode
<1>4. x.kind = "scalar" => \E v : M[x] = {row(v)}
  <2>1. x.kind = "scalar" => M[x] = ToScalar(M[x.arg])
    BY <1>1 DEF MeaningNode
  <2>2. \A rows : \E v : ToScalar(rows) = {row(v)}
    BY DEF ToScalar
  <2>3. QED
    BY <2>1, <2>2
<1>5. \A v : ScalarIn({row(v)}) = v
  <2>1. \A v : row(v).v = v
    OBVIOUS
  <2> HIDE DEF row
  <2>2. \A v : ScalarIn({row(v)}) = row(v).v
    BY DEF ScalarIn
  <2>3. QED
    BY <2>1, <2>2
<1> HIDE DEF row
<1>6. M[x] = {row(ScalarIn(M[x]))} /\ (x.kind = "number" => ScalarIn(M[x]) = x.v)
  BY <1>2, <1>3, <1>4, <1>5 DEF ScalarKinds
<1>7. QED
  BY <1>6 DEF M, row

\* What is not taken for a scalar is none.
LEMMA LabelledKinds ==
  ASSUME NEW q, IsQuery(q), q.start <= q.end, NEW x \in Exprs, HasLabels(q, x), Meant(q, x),
         NEW res \in Results(q)[x]
  PROVE  x.kind \notin ScalarKinds /\ Means(res, q, x)
<1>1. x.kind # "number"
  BY NumberIs
<1>2. Means(res, q, x)
  BY <1>1 DEF Meant
<1>3. PICK t \in ToSet(StepsOf(q)) : TRUE
  BY StepsAre
<1>4. SUFFICES ASSUME x.kind \in ScalarKinds  PROVE FALSE
  BY <1>2
<1>5. \E v : RowsAt(res.points, t) = {[labels |-> NoLabels, v |-> v]}
  <2>1. RowsAt(res.points, t) = Meaning(t)[x]
    BY <1>2, <1>3 DEF Means
  <2>2. \E v : Meaning(t)[x] = {[labels |-> NoLabels, v |-> v]}
    BY <1>4, ScalarMeaning
  <2>3. QED
    BY <2>1, <2>2
<1>6. \E y \in res.points : y.labels = NoLabels
  <2>1. PICK v : [labels |-> NoLabels, v |-> v] \in RowsAt(res.points, t)
    BY <1>5
  <2>2. PICK y \in res.points : [labels |-> NoLabels, v |-> v] = [labels |-> y.labels, v |-> y.v]
    BY <2>1 DEF RowsAt
  <2>3. QED
    BY <2>2
<1>7. QED
  BY <1>6 DEF HasLabels

\* A single row is the same before and behind an operator.
LEMMA Swapped ==
  ASSUME NEW op, NEW a, NEW b
  PROVE  OneOver(op, {[labels |-> NoLabels, v |-> a]}, b, FALSE) = OneOver(op, {[labels |-> NoLabels, v |-> b]}, a, TRUE)
<1> DEFINE row(v) == [labels |-> NoLabels, v |-> v]
           L(r) == {[labels |-> r.labels, v |-> v] : v \in ApplyBinaryOp(op, r.v, b)}
           R(r) == {[labels |-> r.labels, v |-> v] : v \in ApplyBinaryOp(op, a, r.v)}
<1>1. /\ OneOver(op, {row(a)}, b, FALSE) = UNION {L(r) : r \in {row(a)}}
      /\ OneOver(op, {row(b)}, a, TRUE) = UNION {R(r) : r \in {row(b)}}
  BY DEF OneOver, RowsOf
<1>2. L(row(a)) = {row(v) : v \in ApplyBinaryOp(op, a, b)} /\ R(row(b)) = {row(v) : v \in ApplyBinaryOp(op, a, b)}
  OBVIOUS
<1>3. L(row(a)) = R(row(b))
  BY <1>2
<1> DEFINE one == OneOver(op, {row(a)}, b, FALSE)
           other == OneOver(op, {row(b)}, a, TRUE)
           la == row(a)
           rb == row(b)
<1>4. one = UNION {L(r) : r \in {la}} /\ other = UNION {R(r) : r \in {rb}} /\ L(la) = R(rb)
  BY <1>1, <1>3
<1> HIDE DEF L, R, la, rb, one, other
<1>5. one = other
  BY <1>4
<1>6. QED
  BY <1>5 DEF one, other

\* A result of one row is taken for a scalar if the row has no labels.
LEMMA OneRow ==
  ASSUME NEW res, IsResult(res), NEW u \in Int, TimesOf(res.points) \subseteq {u}, NEW v,
         RowsAt(res.points, u) = {[labels |-> NoLabels, v |-> v]}
  PROVE  IsScalarResult(res) /\ ScalarValue(res) = v
<1> DEFINE P == res.points
           row(x) == [labels |-> x.labels, v |-> x.v]
<1>1. \A x \in P : x.t = u /\ IsPoint(x)
  BY DEF TimesOf, IsResult, ArePoints
<1>2. RowsAt(P, u) = {row(x) : x \in P}
  <2>1. {x \in P : x.t = u} = P
    BY <1>1
  <2>2. QED
    BY <2>1 DEF RowsAt
<1>3. P # {} /\ \A x \in P : row(x) = [labels |-> NoLabels, v |-> v]
  BY <1>2
<1>4. \A x \in P : x.labels = NoLabels /\ x.v = v
  BY <1>3
<1>5. {x.t : x \in P} = {u}
  BY <1>1, <1>3
<1>6. Min({u}) = u
  BY DEF Min
<1>7. ScalarValue(res) = (CHOOSE x \in P : x.t = u).v
  BY <1>5, <1>6 DEF ScalarValue
<1>8. QED
  BY <1>1, <1>3, <1>4, <1>7 DEF IsScalarResult

\* And if a result that is taken for a scalar has one row, that is its value.
LEMMA ScalarRow ==
  ASSUME NEW res, IsResult(res), NEW u \in Int, TimesOf(res.points) \subseteq {u},
         IsScalarResult(res), \A y, z \in res.points : y = z
  PROVE  RowsAt(res.points, u) = {[labels |-> NoLabels, v |-> ScalarValue(res)]}
<1>1. PICK x \in res.points : TRUE
  BY DEF IsScalarResult
<1>2. res.points = {x}
  BY <1>1
<1>3. x.t = u /\ x.labels = NoLabels /\ x = [labels |-> x.labels, t |-> x.t, v |-> x.v]
  BY <1>1 DEF IsScalarResult, TimesOf, IsResult, ArePoints, IsPoint
<1>4. RowsAt(res.points, u) = {[labels |-> NoLabels, v |-> x.v]}
  <2>1. /\ [labels |-> NoLabels, t |-> u, v |-> x.v] \in res.points
        /\ \A y \in res.points : y.t = u => y = [labels |-> NoLabels, t |-> u, v |-> x.v]
    BY <1>2, <1>3
  <2>2. QED
    BY <2>1, OnePoint
<1>5. ScalarValue(res) = x.v
  BY <1>4, OneRow
<1>6. QED
  BY <1>4, <1>5

\* The two sides of an operation's plan; a side is marked if it is a number.
LEMMA SidesAre ==
  ASSUME NEW q, IsQuery(q), NEW b \in Exprs, b.kind = "binary", WellOrdered(q, b),
         NEW x \in Transpile(q)[b], NEW p, AgreeBut(p, x, {"math"})
  PROVE  /\ p.exprType = "binary" /\ ~p.isScalar /\ p.op = b.op /\ p.match = b.match
         /\ p.lhs = b.lhs /\ p.rhs = b.rhs
         /\ p.scalarL \in BOOLEAN /\ p.scalarR \in BOOLEAN
         /\ p.scalarL <=> b.lhs.kind = "number"
         /\ p.scalarR <=> b.rhs.kind = "number"
         /\ b.lhs.kind = "number" => p.valL = b.lhs.v
         /\ b.rhs.kind = "number" => p.valR = b.rhs.v
         /\ \A s \in {b.lhs, b.rhs} : s \in Exprs /\ s \in Below(b) /\ WellOrdered(q, s)
<1> DEFINE plans == Transpile(q)
<1>1. TranspileNode(b, q, plans) = {TranspileBinaryExpr(b, s[1], s[2]) : s \in plans[b.lhs] \X plans[b.rhs]}
  BY DEF TranspileNode
<1>2. plans[b] = TranspileNode(b, q, plans) /\ x \in plans[b]
  BY PlansAre
<1> HIDE DEF plans
<1>3. PICK l \in plans[b.lhs], r \in plans[b.rhs] : x = TranspileBinaryExpr(b, l, r)
  BY <1>1, <1>2
<1>4. \A s \in {b.lhs, b.rhs} : s \in Exprs /\ s \in Below(b) /\ WellOrdered(q, s)
  <2>1. Operands(b) = {b.lhs, b.rhs} /\ b.lhs \in Below(b) /\ b.rhs \in Below(b) /\ Below(b) \subseteq Exprs
    BY OperandsAre
  <2>2. QED
    BY <2>1, PartsAreOrdered
<1>5. /\ AgreeBut(x, Blank, {"exprType", "op", "lhs", "rhs", "match", "scalarL", "scalarR", "valL", "valR"})
      /\ x.exprType = "binary" /\ x.op = b.op /\ x.lhs = b.lhs /\ x.rhs = b.rhs
      /\ x.match = b.match /\ x.scalarL = l.isScalar /\ x.scalarR = r.isScalar
      /\ x.valL = l.val /\ x.valR = r.val
  BY <1>3, OperationIs
<1>6. /\ p.exprType = x.exprType /\ p.isScalar = x.isScalar /\ p.op = x.op /\ p.lhs = x.lhs
      /\ p.rhs = x.rhs /\ p.match = x.match /\ p.scalarL = x.scalarL /\ p.scalarR = x.scalarR
      /\ p.valL = x.valL /\ p.valR = x.valR
  BY DEF AgreeBut, Fields
<1>7. x.isScalar = FALSE
  <2>1. x["isScalar"] = Blank["isScalar"]
    BY <1>5 DEF AgreeBut, Fields
  <2>2. QED
    BY <2>1, BlankFields
<1>8. \A s \in {b.lhs, b.rhs} : \A w \in plans[s] :
        /\ w.isScalar \in BOOLEAN /\ (w.isScalar <=> s.kind = "number")
        /\ s.kind = "number" => w.val = s.v
  <2>1. SUFFICES ASSUME NEW s \in {b.lhs, b.rhs}, NEW w \in plans[s]
                 PROVE  /\ w.isScalar \in BOOLEAN /\ (w.isScalar <=> s.kind = "number")
                        /\ (s.kind = "number" => w.val = s.v)
    OBVIOUS
  <2>2. (w.isScalar <=> s.kind = "number") /\ w.isScalar \in BOOLEAN
    BY <1>4, <2>1, LiteralPlan DEF plans
  <2>3. ASSUME s.kind = "number"  PROVE w.val = s.v
    <3>1. TranspileNode(s, q, plans) = {Literal(s.v)}
      BY <2>3 DEF TranspileNode
    <3>2. w = Literal(s.v)
      BY <1>4, <2>1, <3>1, PlansAre DEF plans
    <3>3. QED
      BY <3>2, BasesAre
  <2>4. QED
    BY <2>2, <2>3
<1>9. /\ l.isScalar \in BOOLEAN /\ (l.isScalar <=> b.lhs.kind = "number")
      /\ r.isScalar \in BOOLEAN /\ (r.isScalar <=> b.rhs.kind = "number")
      /\ b.lhs.kind = "number" => l.val = b.lhs.v
      /\ b.rhs.kind = "number" => r.val = b.rhs.v
  BY <1>3, <1>8
<1>10. QED
  BY <1>4, <1>5, <1>6, <1>7, <1>9

\* The other side's result with a scalar.
IsScaled(new, res, op, scalar, onLeft) ==
  /\ IsResult(new) /\ new.type = res.type /\ TimesOf(new.points) \subseteq TimesOf(res.points)
  /\ \A t : RowsAt(new.points, t) = OneOver(op, RowsAt(res.points, t), scalar, onLeft)

\* An operation with a number, whichever side the number is on, is applied row by row.
LEMMA ScaledIs ==
  ASSUME NEW res, IsResult(res), NEW scalar, NEW op
  PROVE  /\ IsScaled(ApplyScalarBinary(res, scalar, op, FALSE), res, op, scalar, FALSE)
         /\ IsScaled(ApplyScalarBinary(res, scalar, op, TRUE), res, op, scalar, TRUE)
<1>1. ASSUME NEW onLeft  PROVE IsScaled(ApplyScalarBinary(res, scalar, op, onLeft), res, op, scalar, onLeft)
  BY ScalarBinaryIs DEF IsScaled
<1>2. QED
  BY <1>1

\* The value i of an operation b, on which p's functions go to work.
InnerOf(i, res, q, p, b) ==
  /\ IsResult(i) /\ Means(i, q, b) /\ res = WithMath(i, p)
  /\ ~Ranged(q) /\ (\A x \in Parts[b] : x.kind # "time") => i.type = "vector"

\* With a number on the right.
LEMMA RightLiteral ==
  ASSUME NEW q, IsQuery(q), q.start <= q.end, NEW b \in Exprs, b.kind = "binary", WellOrdered(q, b),
         \A x \in Below(b) : Meant(q, x),
         NEW x \in Transpile(q)[b], NEW p, AgreeBut(p, x, {"math"}),
         b.rhs.kind = "number", b.lhs.kind = "number" => ~Ranged(q),
         NEW res \in EvalPlan(p, q, Results(q))
  PROVE  \E i : InnerOf(i, res, q, p, b)
<1>1. /\ p.exprType = "binary" /\ ~p.isScalar /\ p.op = b.op /\ p.lhs = b.lhs
      /\ p.scalarR = TRUE /\ p.valR = b.rhs.v
      /\ b.lhs \in Exprs /\ b.lhs \in Below(b) /\ WellOrdered(q, b.lhs) /\ b.rhs \in Exprs
  BY SidesAre
<1>2. PICK l \in Results(q)[b.lhs] : res = WithMath(ApplyScalarBinary(l, p.valR, p.op, FALSE), p)
  BY <1>1 DEF EvalPlan
<1>3. IsResult(l) /\ Means(l, q, b.lhs)
  BY <1>1, ResultsAreResults DEF Meant
<1> DEFINE i == ApplyScalarBinary(l, b.rhs.v, b.op, FALSE)
<1>4. /\ IsResult(i) /\ i.type = l.type /\ TimesOf(i.points) \subseteq TimesOf(l.points)
      /\ \A t : RowsAt(i.points, t) = OneOver(b.op, RowsAt(l.points, t), b.rhs.v, FALSE)
  <2>1. IsScaled(i, l, b.op, b.rhs.v, FALSE)
    BY <1>3, ScaledIs
  <2> HIDE DEF i
  <2>2. QED
    BY <2>1 DEF IsScaled
<1>5. res = WithMath(i, p)
  BY <1>1, <1>2
<1> HIDE DEF i
<1>6. ASSUME NEW t \in ToSet(StepsOf(q))  PROVE RowsAt(i.points, t) = Meaning(t)[b]
  <2> DEFINE M == Meaning(t)
  <2>1. M[b] = MeaningNode(b, t, M)
    BY MeaningsAre
  <2>2. RowsAt(l.points, t) = M[b.lhs]
    BY <1>3 DEF Means
  <2>3. ScalarIn(M[b.rhs]) = b.rhs.v
    BY <1>1, ScalarMeaning DEF ScalarKinds
  <2> HIDE DEF M
  <2>4. M[b] = OneOver(b.op, M[b.lhs], ScalarIn(M[b.rhs]), FALSE)
    BY <2>1 DEF MeaningNode, ScalarKinds
  <2>5. QED
    BY <1>4, <2>2, <2>3, <2>4 DEF M
<1>7. Means(i, q, b)
  BY <1>3, <1>4, <1>6 DEF Means
<1>8. ASSUME ~Ranged(q), \A y \in Parts[b] : y.kind # "time"  PROVE i.type = "vector"
  <2>1. Parts[b.lhs] \subseteq Parts[b]
    BY <1>1, PartsAre DEF Below
  <2>2. QED
    BY <1>1, <1>4, <1>8, <2>1, VectorsAre
<1>9. QED
  BY <1>4, <1>5, <1>7, <1>8 DEF InnerOf

\* With a number on the left.
LEMMA LeftLiteral ==
  ASSUME NEW q, IsQuery(q), q.start <= q.end, NEW b \in Exprs, b.kind = "binary", WellOrdered(q, b),
         \A x \in Below(b) : Meant(q, x),
         NEW x \in Transpile(q)[b], NEW p, AgreeBut(p, x, {"math"}),
         b.lhs.kind = "number", b.rhs.kind # "number",
         NEW res \in EvalPlan(p, q, Results(q))
  PROVE  \E i : InnerOf(i, res, q, p, b)
<1>1. /\ p.exprType = "binary" /\ ~p.isScalar /\ p.op = b.op /\ p.rhs = b.rhs
      /\ p.scalarR = FALSE /\ p.scalarL = TRUE /\ p.valL = b.lhs.v
      /\ b.rhs \in Exprs /\ b.rhs \in Below(b) /\ WellOrdered(q, b.rhs) /\ b.lhs \in Exprs
  BY SidesAre
<1>2. PICK r \in Results(q)[b.rhs] : res = WithMath(ApplyScalarBinary(r, p.valL, p.op, TRUE), p)
  BY <1>1 DEF EvalPlan
<1>3. IsResult(r) /\ Means(r, q, b.rhs)
  BY <1>1, ResultsAreResults DEF Meant
<1> DEFINE i == ApplyScalarBinary(r, b.lhs.v, b.op, TRUE)
<1>4. /\ IsResult(i) /\ i.type = r.type /\ TimesOf(i.points) \subseteq TimesOf(r.points)
      /\ \A t : RowsAt(i.points, t) = OneOver(b.op, RowsAt(r.points, t), b.lhs.v, TRUE)
  <2>1. IsScaled(i, r, b.op, b.lhs.v, TRUE)
    BY <1>3, ScaledIs
  <2> HIDE DEF i
  <2>2. QED
    BY <2>1 DEF IsScaled
<1>5. res = WithMath(i, p)
  BY <1>1, <1>2
<1> HIDE DEF i
<1>6. ASSUME NEW t \in ToSet(StepsOf(q))  PROVE RowsAt(i.points, t) = Meaning(t)[b]
  <2> DEFINE M == Meaning(t)
  <2>1. M[b] = MeaningNode(b, t, M)
    BY MeaningsAre
  <2>2. RowsAt(r.points, t) = M[b.rhs]
    BY <1>3 DEF Means
  <2>3. ScalarIn(M[b.lhs]) = b.lhs.v /\ M[b.lhs] = {[labels |-> NoLabels, v |-> ScalarIn(M[b.lhs])]}
    BY <1>1, ScalarMeaning DEF ScalarKinds
  <2>4. CASE b.rhs.kind \notin ScalarKinds
    <3> HIDE DEF M
    <3>1. M[b] = OneOver(b.op, M[b.rhs], ScalarIn(M[b.lhs]), TRUE)
      BY <2>1, <2>4 DEF MeaningNode, ScalarKinds
    <3>2. QED
      BY <1>4, <2>2, <2>3, <3>1 DEF M
  <2>5. CASE b.rhs.kind \in ScalarKinds
    <3> DEFINE s == ScalarIn(M[b.rhs])
               n == b.lhs.v
    <3>1. M[b.rhs] = {[labels |-> NoLabels, v |-> s]}
      BY <1>1, <2>5, ScalarMeaning
    <3> HIDE DEF M
    <3>2. M[b] = OneOver(b.op, M[b.lhs], s, FALSE)
      BY <2>1, <2>5 DEF MeaningNode
    <3> HIDE DEF s, n
    <3>3. OneOver(b.op, {[labels |-> NoLabels, v |-> n]}, s, FALSE) = OneOver(b.op, {[labels |-> NoLabels, v |-> s]}, n, TRUE)
      BY Swapped
    <3>4. M[b.lhs] = {[labels |-> NoLabels, v |-> n]}
      BY <2>3 DEF n
    <3>5. RowsAt(i.points, t) = OneOver(b.op, {[labels |-> NoLabels, v |-> s]}, n, TRUE)
      BY <1>4, <2>2, <3>1 DEF n
    <3>6. QED
      BY <3>2, <3>3, <3>4, <3>5 DEF M
  <2>6. QED
    BY <2>4, <2>5
<1>7. Means(i, q, b)
  BY <1>3, <1>4, <1>6 DEF Means
<1>8. ASSUME ~Ranged(q), \A y \in Parts[b] : y.kind # "time"  PROVE i.type = "vector"
  <2>1. Parts[b.rhs] \subseteq Parts[b]
    BY <1>1, PartsAre DEF Below
  <2>2. QED
    BY <1>1, <1>4, <1>8, <2>1, VectorsAre
<1>9. QED
  BY <1>4, <1>5, <1>7, <1>8 DEF InnerOf

\* Of two sides that are matched row by row.
LEMMA MatchedSides ==
  ASSUME NEW q, IsQuery(q), q.start <= q.end, NEW b \in Exprs, b.kind = "binary", WellOrdered(q, b),
         \A x \in Below(b) : Meant(q, x),
         NEW x \in Transpile(q)[b], NEW p, AgreeBut(p, x, {"math"}), Matches(q, b),
         NEW res \in EvalPlan(p, q, Results(q))
  PROVE  \E i : InnerOf(i, res, q, p, b)
<1>1. /\ p.exprType = "binary" /\ ~p.isScalar /\ p.op = b.op /\ p.match = b.match
      /\ p.lhs = b.lhs /\ p.rhs = b.rhs
      /\ b.lhs \in Exprs /\ b.lhs \in Below(b) /\ b.rhs \in Exprs /\ b.rhs \in Below(b)
  <2>1. p.exprType = "binary" /\ ~p.isScalar /\ p.lhs = b.lhs /\ p.rhs = b.rhs
    BY SidesAre
  <2>2. p.op = b.op /\ p.match = b.match
    BY SidesAre
  <2>3. \A s \in {b.lhs, b.rhs} : s \in Exprs /\ s \in Below(b)
    BY SidesAre
  <2>4. QED
    BY <2>1, <2>2, <2>3
<1>2. /\ b.lhs.kind # "number" /\ b.rhs.kind # "number" /\ HasLabels(q, b.lhs) /\ HasLabels(q, b.rhs)
      /\ ~p.scalarL /\ ~p.scalarR
  <2>1. b.lhs.kind # "number" /\ b.rhs.kind # "number" /\ HasLabels(q, b.lhs) /\ HasLabels(q, b.rhs)
    BY <1>1, NumberIs DEF Matches
  <2>2. (p.scalarL <=> b.lhs.kind = "number") /\ (p.scalarR <=> b.rhs.kind = "number")
    BY SidesAre
  <2>3. QED
    BY <2>1, <2>2
<1>3. PICK l \in Results(q)[b.lhs], r \in Results(q)[b.rhs] : res \in Combine(p, l, r, q)
  BY <1>1, <1>2 DEF EvalPlan
<1>4. ~IsScalarResult(l) /\ ~IsScalarResult(r)
  BY <1>2, LabelledIs
<1>5. /\ b.lhs.kind \notin ScalarKinds /\ Means(l, q, b.lhs)
      /\ b.rhs.kind \notin ScalarKinds /\ Means(r, q, b.rhs)
  BY <1>1, <1>2, LabelledKinds
<1> DEFINE i == Joined(p, l, r, q)
<1>6. res = WithMath(i, p)
  <2> DEFINE new == WithMath(i, p)
  <2>1. Combine(p, l, r, q) \subseteq {new}
    BY <1>4, CombineIs
  <2> HIDE DEF new
  <2>2. res = new
    BY <1>3, <2>1
  <2>3. QED
    BY <2>2 DEF new
<1>7. /\ IsResult(i) /\ TimesOf(i.points) \subseteq ToSet(StepsOf(q))
      /\ \A t \in ToSet(StepsOf(q)) : RowsAt(i.points, t) = Unmarked(BothAt(p, l, r, t))
  BY JoinedIs
<1>8. ASSUME NEW t \in ToSet(StepsOf(q))  PROVE RowsAt(i.points, t) = Meaning(t)[b]
  <2> DEFINE M == Meaning(t)
             S == VectorSetOp(b.op, b.match, M[b.lhs], M[b.rhs])
             V == VectorBinaryOp(b.op, FALSE, b.match, M[b.lhs], M[b.rhs])
  <2>1. M[b] = MeaningNode(b, t, M) /\ AreRows(M[b])
    BY MeaningsAre, MeaningsAreRows
  <2>2. RowsAt(l.points, t) = M[b.lhs] /\ RowsAt(r.points, t) = M[b.rhs]
    BY <1>5 DEF Means
  <2> HIDE DEF M
  <2>3. M[b] = IF b.op \in SetOps THEN S ELSE Unmarked(V)
    BY <1>5, <2>1 DEF MeaningNode, ScalarKinds
  <2>4. BothAt(p, l, r, t) = IF b.op \in SetOps THEN S ELSE V
    BY <1>1, <2>2 DEF BothAt
  <2> HIDE DEF S, V
  <2>5. Unmarked(BothAt(p, l, r, t)) = M[b]
    BY <2>1, <2>3, <2>4, RowsStay
  <2>6. QED
    BY <1>7, <2>5 DEF M
<1>9. Means(i, q, b)
  BY <1>7, <1>8 DEF Means
<1>10. ASSUME ~Ranged(q)  PROVE i.type = "vector"
  <2>1. Len(StepsOf(q)) \in Nat \ {0}
    BY StepsAre
  <2>2. \A n \in Nat \ {0} : ~(n > 1) => n = 1
    OBVIOUS
  <2>3. Len(StepsOf(q)) = 1
    BY <1>10, <2>1, <2>2 DEF Ranged
  <2>4. Cardinality(ToSet(StepsOf(q))) = 1
    BY <2>3, StepsAre
  <2>5. QED
    BY <2>4 DEF Joined
<1> HIDE DEF i
<1>11. QED
  BY <1>6, <1>7, <1>9, <1>10 DEF InnerOf

\* Of a side that is one row, and what is taken for a scalar if it is one.
LEMMA InstantSide ==
  ASSUME NEW q, IsQuery(q), q.start <= q.end, q.step = 0 => q.start = q.end, ~Ranged(q),
         NEW x \in Exprs, NEW res \in Results(q)[x], Means(res, q, x)
  PROVE  /\ IsResult(res) /\ RowsAt(res.points, q.start) = Meaning(q.start)[x]
         /\ x.kind \in ScalarKinds =>
              /\ IsScalarResult(res) /\ ScalarValue(res) = ScalarIn(Meaning(q.start)[x])
              /\ Meaning(q.start)[x] = {[labels |-> NoLabels, v |-> ScalarValue(res)]}
         /\ HasOneOrLabels(q, x) /\ IsScalarResult(res) =>
              Meaning(q.start)[x] = {[labels |-> NoLabels, v |-> ScalarValue(res)]}
<1> DEFINE M == Meaning(q.start)[x]
<1>1. ToSet(StepsOf(q)) = {q.start} /\ q.start \in Int
  BY OneStep DEF IsQuery
<1>2. RowsAt(res.points, q.start) = M /\ TimesOf(res.points) \subseteq {q.start}
  BY <1>1 DEF Means
<1>3. IsResult(res)
  BY ResultsAreResults
<1>4. ASSUME x.kind \in ScalarKinds
      PROVE  /\ IsScalarResult(res) /\ ScalarValue(res) = ScalarIn(M)
             /\ M = {[labels |-> NoLabels, v |-> ScalarValue(res)]}
  <2> DEFINE v == ScalarIn(M)
  <2>1. M = {[labels |-> NoLabels, v |-> v]}
    BY <1>4, ScalarMeaning
  <2> HIDE DEF v, M
  <2>2. IsScalarResult(res) /\ ScalarValue(res) = v
    BY <1>1, <1>2, <1>3, <2>1, OneRow
  <2>3. QED
    BY <2>1, <2>2 DEF v
<1>5. ASSUME HasOneOrLabels(q, x), IsScalarResult(res)
      PROVE  M = {[labels |-> NoLabels, v |-> ScalarValue(res)]}
  <2>1. \A y, z \in res.points : y = z
    BY <1>5 DEF HasOneOrLabels
  <2>2. QED
    BY <1>1, <1>2, <1>3, <1>5, <2>1, ScalarRow
<1>6. QED
  BY <1>2, <1>3, <1>4, <1>5

\* What remains of the steps of an instant.
LEMMA ScaledMeans ==
  ASSUME NEW q, IsQuery(q), NEW e \in Exprs, NEW res, NEW new, NEW op, NEW scalar, NEW onLeft,
         IsScaled(new, res, op, scalar, onLeft), TimesOf(res.points) \subseteq ToSet(StepsOf(q)),
         \A t \in ToSet(StepsOf(q)) : OneOver(op, RowsAt(res.points, t), scalar, onLeft) = Meaning(t)[e]
  PROVE  Means(new, q, e)
BY DEF IsScaled, Means

\* A negation, also of a single row.
LEMMA NegationMeans ==
  ASSUME NEW q, IsQuery(q), q.start <= q.end, q.step = 0 => q.start = q.end,
         NEW e \in Exprs, e.kind = "neg", WellOrdered(q, e), \A x \in Below(e) : Meant(q, x),
         NEW p \in Transpile(q)[e], NEW res \in EvalPlan(p, q, Results(q))
  PROVE  Means(res, q, e)
<1>1. p = Negation(e)
  <2>1. TranspileNode(e, q, Transpile(q)) = {Negation(e) : x \in Transpile(q)[e.arg]}
    BY DEF TranspileNode
  <2>2. QED
    BY <2>1, PlansAre
<1>2. /\ AgreeBut(p, Blank, {"exprType", "op", "lhs", "rhs", "match"})
      /\ p.exprType = "binary" /\ p.op = "-" /\ p.lhs = Zero /\ p.rhs = e.arg
  BY <1>1, BasesAre
<1>3. ~p.isScalar /\ ~p.scalarL /\ ~p.scalarR
  BY <1>2, BlankFields DEF AgreeBut, Fields
<1>4. PICK l \in Results(q)[Zero], r \in Results(q)[e.arg] : res \in Combine(p, l, r, q)
  BY <1>2, <1>3 DEF EvalPlan
<1>5. /\ Zero \in Below(e) /\ e.arg \in Below(e) /\ Zero \in Exprs /\ e.arg \in Exprs
      /\ Zero.kind = "number" /\ Zero.v = 0
  BY OperandsAre DEF Zero
<1>6. IsScalarResult(l) /\ ScalarValue(l) = 0
  BY <1>5, NumberIs
<1>7. IF Ranged(q) THEN HasLabels(q, e.arg) ELSE HasOneOrLabels(q, e.arg)
  BY PartsAreOrdered DEF InOrderAt
<1>8. IsResult(l) /\ IsResult(r) /\ Means(r, q, e.arg)
  <2>1. IsResult(l) /\ IsResult(r)
    BY <1>5, ResultsAreResults
  <2>2. CASE Ranged(q)
    BY <1>5, <1>7, <2>1, <2>2, LabelledKinds
  <2>3. CASE ~Ranged(q)
    BY <1>5, <2>1, <2>3 DEF Meant
  <2>4. QED
    BY <2>2, <2>3
<1>9. \A t : Meaning(t)[e] = OneOver("-", Meaning(t)[e.arg], 0, TRUE)
  BY MeaningsAre DEF MeaningNode
<1>10. CASE ~IsScalarResult(r)
  <2> DEFINE new == ApplyScalarBinary(r, 0, "-", TRUE)
  <2>1. Combine(p, l, r, q) = {new}
    <3>1. Combine(p, l, r, q) = {ApplyScalarBinary(r, ScalarValue(l), p.op, TRUE)}
      BY <1>6, <1>10, CombineIs
    <3>2. QED
      BY <1>2, <1>6, <3>1
  <2>2. IsScaled(new, r, "-", 0, TRUE)
    BY <1>8, ScaledIs
  <2> HIDE DEF new
  <2>3. \A t \in ToSet(StepsOf(q)) : OneOver("-", RowsAt(r.points, t), 0, TRUE) = Meaning(t)[e]
    BY <1>8, <1>9 DEF Means
  <2>4. Means(new, q, e)
    <3>1. TimesOf(r.points) \subseteq ToSet(StepsOf(q))
      BY <1>8 DEF Means
    <3>2. QED
      BY <2>2, <2>3, <3>1 DEF IsScaled, Means
  <2>5. QED
    BY <1>4, <2>1, <2>4
<1>11. CASE IsScalarResult(r)
  <2> DEFINE v == ScalarValue(r)
             new == ApplyScalarBinary(l, v, "-", FALSE)
  <2>1. ~Ranged(q)
    BY <1>7, <1>11, LabelledIs
  <2>2. Combine(p, l, r, q) = {new}
    <3>1. Combine(p, l, r, q) = {ApplyScalarBinary(l, v, p.op, FALSE)}
      BY <1>11, CombineIs
    <3>2. QED
      BY <1>2, <3>1
  <2>3. IsScaled(new, l, "-", v, FALSE)
    BY <1>8, ScaledIs
  <2>4. Meaning(q.start)[e.arg] = {[labels |-> NoLabels, v |-> v]}
    BY <1>5, <1>7, <1>8, <1>11, <2>1, InstantSide
  <2>5. Means(l, q, Zero)
    BY <1>5, <2>1 DEF Meant
  <2>6. RowsAt(l.points, q.start) = {[labels |-> NoLabels, v |-> 0]}
    <3>1. RowsAt(l.points, q.start) = Meaning(q.start)[Zero]
      BY <1>5, <2>1, <2>5, InstantSide
    <3>2. Meaning(q.start)[Zero] = {[labels |-> NoLabels, v |-> ScalarIn(Meaning(q.start)[Zero])]}
          /\ ScalarIn(Meaning(q.start)[Zero]) = 0
      BY <1>5, ScalarMeaning DEF ScalarKinds
    <3>3. QED
      BY <3>1, <3>2
  <2> HIDE DEF new, v
  <2>7. ToSet(StepsOf(q)) = {q.start}
    BY <2>1, OneStep
  <2>8. OneOver("-", RowsAt(l.points, q.start), v, FALSE) = Meaning(q.start)[e]
    <3>1. OneOver("-", {[labels |-> NoLabels, v |-> 0]}, v, FALSE) = OneOver("-", {[labels |-> NoLabels, v |-> v]}, 0, TRUE)
      BY Swapped
    <3>2. QED
      BY <1>9, <2>4, <2>6, <3>1
  <2>9. TimesOf(l.points) \subseteq ToSet(StepsOf(q))
    BY <2>5 DEF Means
  <2>10. Means(new, q, e)
    BY <2>3, <2>7, <2>8, <2>9, ScaledMeans
  <2>11. QED
    BY <1>4, <2>2, <2>10
<1>12. QED
  BY <1>10, <1>11

\* An operation of which one side is the time or a vector's value.
LEMMA ScalarOperation ==
  ASSUME NEW q, IsQuery(q), q.start <= q.end, q.step = 0 => q.start = q.end, ~Ranged(q),
         NEW e \in Exprs, e.kind = "binary", WellOrdered(q, e), \A x \in Below(e) : Meant(q, x),
         NEW p \in Transpile(q)[e], e.lhs.kind # "number", e.rhs.kind # "number",
         \/ e.rhs.kind \in ScalarKinds
         \/ e.lhs.kind \in ScalarKinds /\ HasOneOrLabels(q, e.rhs),
         NEW res \in EvalPlan(p, q, Results(q))
  PROVE  Means(res, q, e)
<1> DEFINE u == q.start
           M == Meaning(u)
<1>1. AgreeBut(p, p, {"math"})
  BY DEF AgreeBut
<1>2. /\ p.exprType = "binary" /\ ~p.isScalar /\ p.op = e.op /\ p.lhs = e.lhs /\ p.rhs = e.rhs
      /\ ~p.scalarL /\ ~p.scalarR
  BY <1>1, SidesAre
<1>3. e.lhs \in Exprs /\ e.lhs \in Below(e) /\ e.rhs \in Exprs /\ e.rhs \in Below(e)
  BY OperandsAre
<1>4. PICK l \in Results(q)[e.lhs], r \in Results(q)[e.rhs] : res \in Combine(p, l, r, q)
  BY <1>2 DEF EvalPlan
<1>5. Means(l, q, e.lhs) /\ Means(r, q, e.rhs)
  BY <1>3 DEF Meant
<1>6. IsResult(l) /\ IsResult(r) /\ RowsAt(l.points, u) = M[e.lhs] /\ RowsAt(r.points, u) = M[e.rhs]
  BY <1>3, <1>5, InstantSide
<1>7. /\ ToSet(StepsOf(q)) = {u}
      /\ TimesOf(l.points) \subseteq ToSet(StepsOf(q)) /\ TimesOf(r.points) \subseteq ToSet(StepsOf(q))
  BY <1>5, OneStep DEF Means
<1>8. M[e] = MeaningNode(e, u, M)
  BY MeaningsAre
\* The right side is taken for a scalar.
<1>9. ASSUME IsScalarResult(r), OneOver(e.op, M[e.lhs], ScalarValue(r), FALSE) = M[e]
      PROVE  Means(res, q, e)
  <2> DEFINE v == ScalarValue(r)
             new == ApplyScalarBinary(l, v, e.op, FALSE)
  <2>1. Combine(p, l, r, q) = {new}
    <3>1. Combine(p, l, r, q) = {ApplyScalarBinary(l, v, p.op, FALSE)}
      BY <1>9, CombineIs
    <3>2. QED
      BY <1>2, <3>1
  <2>2. IsScaled(new, l, e.op, v, FALSE)
    BY <1>6, ScaledIs
  <2>3. OneOver(e.op, RowsAt(l.points, u), v, FALSE) = M[e]
    BY <1>6, <1>9
  <2> HIDE DEF new, v
  <2>4. Means(new, q, e)
    BY <1>7, <2>2, <2>3 DEF IsScaled, Means
  <2>5. QED
    BY <1>4, <2>1, <2>4
\* The left side is.
<1>10. ASSUME ~IsScalarResult(r), IsScalarResult(l), OneOver(e.op, M[e.rhs], ScalarValue(l), TRUE) = M[e]
       PROVE  Means(res, q, e)
  <2> DEFINE v == ScalarValue(l)
             new == ApplyScalarBinary(r, v, e.op, TRUE)
  <2>1. Combine(p, l, r, q) = {new}
    <3>1. Combine(p, l, r, q) = {ApplyScalarBinary(r, v, p.op, TRUE)}
      BY <1>10, CombineIs
    <3>2. QED
      BY <1>2, <3>1
  <2>2. IsScaled(new, r, e.op, v, TRUE)
    BY <1>6, ScaledIs
  <2>3. OneOver(e.op, RowsAt(r.points, u), v, TRUE) = M[e]
    BY <1>6, <1>10
  <2> HIDE DEF new, v
  <2>4. Means(new, q, e)
    BY <1>7, <2>2, <2>3 DEF IsScaled, Means
  <2>5. QED
    BY <1>4, <2>1, <2>4
<1>11. CASE e.rhs.kind \in ScalarKinds
  <2>1. IsScalarResult(r) /\ ScalarValue(r) = ScalarIn(M[e.rhs])
    BY <1>3, <1>5, <1>11, InstantSide
  <2> HIDE DEF M
  <2>2. M[e] = OneOver(e.op, M[e.lhs], ScalarIn(M[e.rhs]), FALSE)
    BY <1>8, <1>11 DEF MeaningNode
  <2>3. QED
    BY <1>9, <2>1, <2>2
<1>12. CASE e.rhs.kind \notin ScalarKinds /\ e.lhs.kind \in ScalarKinds /\ HasOneOrLabels(q, e.rhs)
  <2> DEFINE a == ScalarValue(l)
             b == ScalarValue(r)
  <2>1. /\ IsScalarResult(l) /\ a = ScalarIn(M[e.lhs])
        /\ M[e.lhs] = {[labels |-> NoLabels, v |-> a]}
    BY <1>3, <1>5, <1>12, InstantSide
  <2>2. IsScalarResult(r) => M[e.rhs] = {[labels |-> NoLabels, v |-> b]}
    BY <1>3, <1>5, <1>12, InstantSide
  <2> HIDE DEF M, a, b
  <2>3. M[e] = OneOver(e.op, M[e.rhs], a, TRUE)
    BY <1>8, <1>12, <2>1 DEF MeaningNode
  <2>4. CASE ~IsScalarResult(r)
    BY <1>10, <2>1, <2>3, <2>4 DEF a
  <2>5. CASE IsScalarResult(r)
    <3>1. OneOver(e.op, {[labels |-> NoLabels, v |-> a]}, b, FALSE) = OneOver(e.op, {[labels |-> NoLabels, v |-> b]}, a, TRUE)
      BY Swapped
    <3>2. OneOver(e.op, M[e.lhs], b, FALSE) = M[e]
      BY <2>1, <2>2, <2>3, <2>5, <3>1
    <3>3. QED
      BY <1>9, <2>5, <3>2 DEF b
  <2>6. QED
    BY <2>4, <2>5
<1>13. QED
  BY <1>11, <1>12

\* An operation with the functions that surround it.
LEMMA OperationMeans ==
  ASSUME NEW q, IsQuery(q), q.start <= q.end, q.step = 0 => q.start = q.end,
         NEW e \in Exprs, WellOrdered(q, e), \A x \in Below(e) : Meant(q, x),
         NEW p \in Transpile(q)[e], ~p.isScalar, p.exprType = "binary",
         NEW res \in EvalPlan(p, q, Results(q))
  PROVE  Means(res, q, e)
<1>1. PICK b \in Parts[e] : Surrounds(q, p, e, b)
  BY OperationSurrounded
<1>2. /\ b \in Exprs /\ b.kind \in {"neg", "binary"}
      /\ WellOrdered(q, b) /\ InOrderAt(q, b) /\ \A x \in Below(b) : Meant(q, x)
  <2>1. b \in Exprs /\ b.kind \in {"neg", "binary"}
    BY <1>1 DEF Surrounds
  <2>2. Below(b) \subseteq Below(e)
    BY <1>1, PartsAre
  <2>3. WellOrdered(q, b)
    BY <1>1, PartsAreOrdered
  <2>4. QED
    BY <2>1, <2>2, <2>3, PartsAreOrdered
<1>3. PICK x \in Transpile(q)[b] : AgreeBut(p, x, {"math"})
  BY <1>1 DEF Surrounds
\* The value of the operation, and what the functions make of it.
<1>4. ASSUME \E i : InnerOf(i, res, q, p, b)  PROVE Means(res, q, e)
  <2>1. PICK i : InnerOf(i, res, q, p, b)
    BY <1>4
  <2>2. IsResult(i) /\ Means(i, q, b) /\ res = WithMath(i, p)
    BY <2>1 DEF InnerOf
  <2>3. Len(p.math) \in Nat
    <3>1. p.math \in Seq(MathSteps(e))
      BY PlansAreDescribed DEF Describes, Chained
    <3>2. QED
      BY <3>1, LenProperties
  <2> DEFINE ranged == i.type = "matrix"
  <2>4. /\ TimesOf(res.points) = TimesOf(i.points)
        /\ \A t : RowsAt(res.points, t) = ApplyMathChain(RowsAt(i.points, t), p.math, ranged)
    BY <2>2, <2>3, WithMathIs
  <2>5. \A rows : ApplyMathChain(rows, p.math, ranged) = ApplyMathChain(rows, p.math, FALSE)
    <3>1. CASE \A rows : ApplyMathChain(rows, p.math, TRUE) = ApplyMathChain(rows, p.math, FALSE)
      <4>1. ranged = TRUE \/ ranged = FALSE
        OBVIOUS
      <4> HIDE DEF ranged
      <4>2. QED
        BY <3>1, <4>1
    <3>2. CASE ~Ranged(q) /\ \A z \in Parts[b] : z.kind # "time"
      <4>1. i.type = "vector"
        BY <2>1, <3>2 DEF InnerOf
      <4>2. ranged = FALSE
        BY <4>1
      <4> HIDE DEF ranged
      <4>3. QED
        BY <4>2
    <3>3. Exact(q, p, b)
      BY <1>1 DEF Surrounds
    <3>4. QED
      BY <3>1, <3>2, <3>3 DEF Exact
  <2> HIDE DEF ranged
  <2>6. ASSUME NEW t \in ToSet(StepsOf(q))  PROVE RowsAt(res.points, t) = Meaning(t)[e]
    <3>1. RowsAt(i.points, t) = Meaning(t)[b]
      BY <2>2 DEF Means
    <3>2. ApplyMathChain(Meaning(t)[b], p.math, FALSE) = Meaning(t)[e]
      BY <1>1 DEF Surrounds
    <3> DEFINE rows == Meaning(t)[b]
    <3> HIDE DEF rows
    <3>3. RowsAt(res.points, t) = ApplyMathChain(rows, p.math, FALSE)
      BY <2>4, <2>5, <3>1 DEF rows
    <3>4. QED
      BY <3>2, <3>3 DEF rows
  <2>7. QED
    BY <2>2, <2>4, <2>6 DEF Means
<1>5. CASE b.kind = "neg"
  <2>1. b = e
    BY <1>1, <1>5 DEF Surrounds
  <2>2. QED
    BY <1>5, <2>1, NegationMeans
<1>6. CASE b.kind = "binary"
  <2>1. CASE b.rhs.kind = "number" /\ (b.lhs.kind = "number" => ~Ranged(q))
    BY <1>2, <1>3, <1>4, <1>6, <2>1, RightLiteral
  <2>2. CASE b.lhs.kind = "number" /\ b.rhs.kind # "number"
    BY <1>2, <1>3, <1>4, <1>6, <2>2, LeftLiteral
  <2>3. CASE Matches(q, b)
    BY <1>2, <1>3, <1>4, <1>6, <2>3, MatchedSides
  <2>4. CASE b.lhs.kind # "number" /\ b.rhs.kind # "number" /\ ~Matches(q, b)
    <3>1. ~OneLiteral(b)
      BY <2>4 DEF OneLiteral
    <3>2. b = e
      BY <1>1, <2>4, <3>1 DEF Surrounds
    <3>3. /\ ~Ranged(q)
          /\ \/ b.rhs.kind \in ScalarKinds
             \/ b.lhs.kind \in ScalarKinds /\ HasOneOrLabels(q, b.rhs)
      BY <1>2, <1>6, <2>4, <3>1 DEF InOrderAt
    <3>4. QED
      BY <1>6, <2>4, <3>2, <3>3, ScalarOperation
  <2>5. ASSUME b.rhs.kind = "number", b.lhs.kind = "number", Ranged(q), ~Matches(q, b)  PROVE FALSE
    <3>1. ~OneLiteral(b)
      BY <2>5 DEF OneLiteral
    <3>2. QED
      BY <1>2, <1>6, <2>5, <3>1 DEF InOrderAt
  <2>6. QED
    BY <2>1, <2>2, <2>3, <2>4, <2>5
<1>7. QED
  BY <1>2, <1>5, <1>6

\* Whatever the evaluator answers for an expression means the expression, by induction on
\* the expression: a plan is a leaf, or an operation of two results and functions of it.
LEMMA ResultsMean ==
  ASSUME NEW q, IsQuery(q), q.step = 0 => q.start = q.end, NEW e \in Exprs, WellOrdered(q, e), FetchesFor(q, e)
  PROVE  Meant(q, e)
<1> DEFINE Is(y) == WellOrdered(q, y) /\ FetchesFor(q, y) => Meant(q, y)
           Good == {y \in Exprs : Is(y)}
<1>1. q.start <= q.end
  BY DEF FetchesFor
<1>2. ASSUME NEW y \in Exprs, Below(y) \subseteq Good  PROVE y \in Good
  <2>1. SUFFICES ASSUME WellOrdered(q, y), FetchesFor(q, y), y.kind = "number" => ~Ranged(q),
                        NEW res \in Results(q)[y]
                 PROVE  Means(res, q, y)
    BY DEF Meant
  <2>2. PICK p \in Transpile(q)[y] : res \in EvalPlan(p, q, Results(q))
    BY ResultsAre
  <2>3. CASE p.isScalar \/ p.exprType # "binary"
    <3>1. res = EvalLeaf(p, q)
      BY <2>2, <2>3 DEF EvalPlan
    <3>2. QED
      BY <2>1, <2>3, <3>1, LeafMeans
  <2>4. CASE ~p.isScalar /\ p.exprType = "binary"
    <3>1. \A x \in Below(y) : Meant(q, x)
      <4>1. \A x \in Below(y) : Is(x)
        BY <1>2
      <4>2. \A x \in Below(y) : x \in Parts[y]
        BY DEF Below
      <4>3. QED
        BY <2>1, <4>1, <4>2, PartsAreOrdered, PartsAreStepped
    <3> HIDE DEF Is, Good
    <3>2. QED
      BY <1>1, <2>1, <2>2, <2>4, <3>1, OperationMeans
  <2>5. QED
    BY <2>3, <2>4
<1>3. \A y \in Exprs : y \in Good
  <2> HIDE DEF Good
  <2>1. QED
    BY <1>2, TreeInduction
<1>4. QED
  BY <1>3

-----------------------------------------------------------------------------
(***************************************************************************)
(* A count from the label cache, and the answer.                           *)
(***************************************************************************)

\* There are as many rows as there are series, whose labels are their own.
LEMMA RowsOfSeries ==
  ASSUME NEW S, IsFiniteSet(S), \A r, s \in S : r.labels = s.labels => r = s, NEW w
  PROVE  Cardinality({[labels |-> s.labels, v |-> w[s]] : s \in S}) = Cardinality(S)
<1> DEFINE row(s) == [labels |-> s.labels, v |-> w[s]]
           f == [s \in S |-> row(s)]
           T == {row(s) : s \in S}
<1>1. \A r, s \in S : row(r) = row(s) => r = s
  <2>1. \A s : row(s).labels = s.labels
    OBVIOUS
  <2> HIDE DEF row
  <2>2. QED
    BY <2>1
<1> HIDE DEF row
<1>2. f \in [S -> T] /\ (\A x, y \in S : f[x] = f[y] => x = y) /\ \A y \in T : \E x \in S : f[x] = y
  BY <1>1
<1>3. f \in Bijection(S, T)
  BY <1>2 DEF Bijection, Injection, Surjection, IsInjective
<1>4. QED
  BY <1>3, FS_Bijection DEF ExistsBijection, row

\* Series with one value each, and the counts of their groups.
RowsWith(S, w) == {[labels |-> s.labels, v |-> w[s]] : s \in S}
CountsOf(S, a) ==
  LET H(s) == GroupLabels(s.labels, a.names, a.without)
  IN {[labels |-> H(s),
       v |-> IF a.op = "count" THEN Cardinality({r \in S : H(r) = H(s)}) ELSE 1] : s \in S}

\* A count does not depend on the values of what it counts.
LEMMA CountOf ==
  ASSUME NEW S, IsFiniteSet(S), \A r, s \in S : r.labels = s.labels => r = s, NEW w,
         NEW a, a.op \in {"count", "group"}
  PROVE  ApplyOneAggStep(RowsWith(S, w), a) = CountsOf(S, a)
<1> DEFINE row(s) == [labels |-> s.labels, v |-> w[s]]
           H(s) == GroupLabels(s.labels, a.names, a.without)
           R == {row(s) : s \in S}
           Of(g) == {r \in R : H(r) = g}
           In(g) == {s \in S : H(s) = g}
           N(g) == IF a.op = "count" THEN Cardinality(In(g)) ELSE 1
           new(g) == [labels |-> g, v |-> N(g)]
<1>1. ApplyOneAggStep(R, a) = {[labels |-> g, v |-> Aggregated(a.op, Of(g))] : g \in {H(r) : r \in R}}
  BY DEF ApplyOneAggStep, AggregateVector
<1>2. \A s \in S : H(row(s)) = H(s)
  OBVIOUS
<1>3. \A g : Cardinality({row(s) : s \in In(g)}) = Cardinality(In(g))
  <2>1. SUFFICES ASSUME NEW g  PROVE Cardinality({row(s) : s \in In(g)}) = Cardinality(In(g))
    OBVIOUS
  <2> DEFINE T == In(g)
  <2>2. IsFiniteSet(T) /\ \A r, s \in T : r.labels = s.labels => r = s
    BY FS_Subset
  <2> HIDE DEF T
  <2>3. Cardinality({[labels |-> s.labels, v |-> w[s]] : s \in T}) = Cardinality(T)
    BY <2>2, RowsOfSeries
  <2>4. QED
    BY <2>3 DEF T
<1> HIDE DEF row, H
<1>4. \A g : Of(g) = {row(s) : s \in In(g)}
  BY <1>2
<1>5. {H(r) : r \in R} = {H(s) : s \in S}
  BY <1>2
<1>6. \A g : Aggregated(a.op, Of(g)) = N(g)
  <2>1. SUFFICES ASSUME NEW g  PROVE Aggregated(a.op, Of(g)) = N(g)
    OBVIOUS
  <2>2. Cardinality(Of(g)) = Cardinality(In(g))
    BY <1>3, <1>4
  <2> HIDE DEF Of, In
  <2>3. CASE a.op = "count"
    BY <2>2, <2>3 DEF Aggregated
  <2>4. CASE a.op = "group"
    BY <2>4 DEF Aggregated
  <2>5. QED
    BY <2>3, <2>4
<1>7. ApplyOneAggStep(R, a) = {new(g) : g \in {H(s) : s \in S}}
  <2> DEFINE groups == {H(s) : s \in S}
  <2> HIDE DEF Of, N, R
  <2>1. \A g : [labels |-> g, v |-> Aggregated(a.op, Of(g))] = new(g)
    BY <1>6
  <2>2. ApplyOneAggStep(R, a) = {[labels |-> g, v |-> Aggregated(a.op, Of(g))] : g \in groups}
    BY <1>1, <1>5
  <2> HIDE DEF groups, new
  <2>3. {[labels |-> g, v |-> Aggregated(a.op, Of(g))] : g \in groups} = {new(g) : g \in groups}
    BY <2>1
  <2>4. QED
    BY <2>2, <2>3 DEF groups
<1> HIDE DEF N
<1>8. {new(g) : g \in {H(s) : s \in S}} = {[labels |-> H(s), v |-> N(H(s))] : s \in S}
  OBVIOUS
<1>9. R = RowsWith(S, w)
  BY DEF row, RowsWith
<1> HIDE DEF R
<1>10. CountsOf(S, a) = {[labels |-> H(s), v |-> N(H(s))] : s \in S}
  BY DEF CountsOf, H, N
<1>11. QED
  BY <1>7, <1>8, <1>9, <1>10

\* A count answered by the label cache is the count of the table, when every series it
\* counts has a sample at every step.
LEMMA CountMeans ==
  ASSUME NEW q, IsQuery(q), q.start <= q.end, NEW e \in Exprs, AllSeriesLive(e, q),
         NEW p \in Transpile(q)[e], CacheOnly(p)
  PROVE  Means(CacheOnlyAgg(p, q), q, e)
<1> DEFINE a == e.arg
           step == AggStep(e)
           S == Selected(a)
           T == ToSet(StepsOf(q))
           indexed == {[labels |-> s.labels, v |-> 1] : s \in S}
           rows == ApplyOneAggStep(indexed, step)
<1>1. e.kind = "agg" /\ a.kind = "selector" /\ \A s \in S, t \in T : LookedUp(s, t - a.offset) # {}
  BY DEF AllSeriesLive
<1>2. PICK x \in Transpile(q)[a] : Written(e, x, p) /\ a \in Exprs
  BY <1>1, WrapsAre DEF Wrapping
<1>3. /\ AgreeBut(x, Blank, {"exprType", "metric", "eq", "offset", "from", "to"})
      /\ x.metric = a.metric /\ x.eq = a.eq
  <2>1. TranspileNode(a, q, Transpile(q)) = {TranspileVectorSelector(a, q)}
    BY <1>1 DEF TranspileNode
  <2>2. x = TranspileVectorSelector(a, q)
    BY <1>2, <2>1, PlansAre
  <2>3. QED
    BY <2>2, BasesAre
<1>4. p.aggs = <<step>> /\ p.metric = a.metric /\ p.eq = a.eq
  <2>1. x.aggs = <<>>
    BY <1>3, BlankFields DEF AgreeBut, Fields
  <2>2. p.aggs = Append(x.aggs, step) /\ p.metric = x.metric /\ p.eq = x.eq
    BY <1>1, <1>2 DEF Written, AgreeBut, Fields
  <2>3. Append(<<>>, step) = <<step>>
    OBVIOUS
  <2>4. QED
    BY <1>3, <2>1, <2>2, <2>3
<1>5. a.metric # "" /\ a.metric \in DOMAIN Store /\ a.offset \in Int
  BY <1>1, <1>2, ExprsAssumption
<1>6. SelectedBy(p) = S /\ S \subseteq Store[a.metric]
  BY <1>1, <1>2, <1>4, SelectedIs
<1>7. IsFiniteSet(S) /\ \A r, s \in S : r.labels = s.labels => r = s
  <2>1. IsFiniteSet(Store[a.metric]) /\ \A r, s \in Store[a.metric] : r.labels = s.labels => r = s
    BY <1>5, StoreAssumption
  <2> HIDE DEF S
  <2>2. QED
    BY <1>6, <2>1, FS_Subset
<1>8. step.op \in {"count", "group"}
  <2>1. p.aggs[1].op \in {"count", "group"}
    BY DEF CacheOnly
  <2> HIDE DEF step
  <2>2. QED
    BY <1>4, <2>1
<1>9. CacheOnlyAgg(p, q).points = UNION {Stamped(rows, t) : t \in T}
  <2>1. p.aggs[1] = step
    BY <1>4
  <2>2. ~(q.step > 0 /\ q.end < q.start)
    BY DEF IsQuery
  <2> HIDE DEF S, step
  <2>3. QED
    BY <1>6, <2>1, <2>2 DEF CacheOnlyAgg
<1> DEFINE f == [t \in T |-> rows]
<1>10. UNION {Stamped(rows, t) : t \in T} = StepByStep(f, T)
  <2> HIDE DEF rows, T
  <2>1. QED
    BY DEF StepByStep
<1>11. /\ TimesOf(StepByStep(f, T)) \subseteq T
       /\ \A t \in T : RowsAt(StepByStep(f, T), t) = Unmarked(rows)
  <2>1. \A t \in T : f[t] = rows
    OBVIOUS
  <2> HIDE DEF f, rows, T
  <2>2. QED
    BY <2>1, StepByStepIs
<1>12. ASSUME NEW t \in T  PROVE Unmarked(rows) = Meaning(t)[e]
  <2> DEFINE U(s) == LookedUp(s, t - a.offset)
             w == [s \in S |-> CHOOSE v \in U(s) : TRUE]
             one == [s \in S |-> 1]
             live == {[labels |-> s.labels, v |-> w[s]] : s \in S}
             M == Meaning(t)
             row(s, v) == [labels |-> s.labels, v |-> v]
  <2>1. ASSUME NEW s \in S  PROVE U(s) = {w[s]}
    <3>1. IsSeries(s.samples)
      BY <1>5, <1>6, StoreIs
    <3>2. t - a.offset \in Int
      <4>1. t \in Int
        BY StepsAre
      <4>2. \A x1, y1 \in Int : x1 - y1 \in Int
        OBVIOUS
      <4> HIDE DEF U, S, a, T, w
      <4>3. QED
        BY <1>5, <4>1, <4>2
    <3>3. U(s) = InstantValue(s.samples, t - a.offset)
      BY <3>1, <3>2, LookedUpIs
    <3>4. \A x1, y1 \in U(s) : x1 = y1
      <4> HIDE DEF U
      <4>1. QED
        BY <3>3 DEF InstantValue
    <3>5. U(s) # {}
      BY <1>1
    <3> HIDE DEF U, S
    <3>6. w[s] \in U(s)
      BY <3>5
    <3>7. QED
      BY <3>4, <3>6
  <2>2. M[a] = live
    <3>1. M[a] = MeaningNode(a, t, M)
      BY <1>2, MeaningsAre
    <3> HIDE DEF M
    <3>2. M[a] = UNION {{row(s, v) : v \in U(s)} : s \in S}
      BY <1>1, <3>1 DEF MeaningNode, RowsOf
    <3> HIDE DEF U, S, w, row
    <3>3. M[a] = {row(s, w[s]) : s \in S}
      <4>1. \A s \in S : {row(s, v) : v \in U(s)} = {row(s, w[s])}
        BY <2>1
      <4>2. QED
        BY <3>2, <4>1
    <3>4. QED
      BY <3>3 DEF row
  <2>3. M[e] = ApplyOneAggStep(M[a], step) /\ AreRows(M[e])
    BY <1>1, MeaningsAre, MeaningsAreRows DEF MeaningNode
  <2>4. indexed = {[labels |-> s.labels, v |-> one[s]] : s \in S}
    <3>1. \A s \in S : one[s] = 1
      OBVIOUS
    <3> HIDE DEF one, S
    <3>2. QED
      BY <3>1
  <2>5. ApplyOneAggStep(live, step) = rows
    <3> HIDE DEF S, w, one, step, indexed
    <3>1. \A z : ApplyOneAggStep(RowsWith(S, z), step) = CountsOf(S, step)
      BY <1>7, <1>8, CountOf
    <3>2. live = RowsWith(S, w) /\ indexed = RowsWith(S, one)
      BY <2>4 DEF RowsWith
    <3>3. QED
      BY <3>1, <3>2
  <2> HIDE DEF M, live, rows
  <2>6. M[e] = rows
    BY <2>2, <2>3, <2>5
  <2>7. Unmarked(rows) = rows
    BY <2>3, <2>6, RowsStay
  <2>8. QED
    BY <2>6, <2>7 DEF M
<1> HIDE DEF rows, f
<1>13. QED
  BY <1>9, <1>10, <1>11, <1>12 DEF Means

\* The answer to a query is what its expression means at each of its steps, whenever its
\* functions and aggregations are nested as a plan applies them, and when the label cache
\* answers, every series it counts has a sample at every step.
THEOREM PlansKeepMeaning == Spec => []PlanKeepsMeaning
<1>1. Inv => PlanKeepsMeaning
  <2>1. SUFFICES ASSUME Inv, pc = "answered", FetchesAll(query), InOrder(query),
                        path = "labels" => AllSeriesLive(query.expr, query), NEW res \in answer
                 PROVE  res.points = UNION {MeantAt(query, t) : t \in ToSet(StepsOf(query))}
    BY DEF PlanKeepsMeaning
  <2> DEFINE q == query
             e == query.expr
             T == ToSet(StepsOf(query))
  <2>2. /\ q \in Queries /\ IsQuery(q) /\ e \in Exprs
        /\ q.step = 0 => q.start = q.end
        /\ plan = Transpile(q)[e]
    BY <2>1, QueryIs, QueriesAssumption DEF Inv
  <2>3. FetchesFor(q, e) /\ WellOrdered(q, e) /\ (e.kind = "number" => ~Ranged(q)) /\ q.start <= q.end
    BY <2>1 DEF FetchesAll, FetchesFor, InOrder, WellOrdered
  <2>4. IsResult(res) /\ Means(res, q, e)
    <3>1. CASE path = "eval"
      <4>1. res \in Results(q)[e]
        BY <2>1, <3>1 DEF Inv
      <4>2. Meant(q, e)
        BY <2>2, <2>3, ResultsMean
      <4>3. Means(res, q, e)
        BY <2>3, <4>1, <4>2 DEF Meant
      <4>4. QED
        BY <2>2, <4>1, <4>3, ResultsAreResults
    <3>2. CASE path = "labels"
      <4>1. PICK p \in Transpile(q)[e] : CacheOnly(p) /\ res = CacheOnlyAgg(p, q)
        BY <2>1, <2>2, <3>2 DEF Inv
      <4>2. AllSeriesLive(e, q)
        BY <2>1, <3>2
      <4>3. Means(CacheOnlyAgg(p, q), q, e)
        BY <2>2, <2>3, <4>1, <4>2, CountMeans
      <4>4. IsResult(CacheOnlyAgg(p, q))
        BY CountIsResult
      <4>5. QED
        BY <4>1, <4>3, <4>4
    <3>3. QED
      BY <2>1, <3>1, <3>2 DEF Inv
  <2>5. res.points = UNION {Stamped(RowsAt(res.points, t), t) : t \in T}
    BY <2>4, PointsAre DEF IsResult, Means
  <2>6. \A t \in T : Stamped(RowsAt(res.points, t), t) = MeantAt(q, t)
    BY <2>4 DEF Means, MeantAt
  <2> HIDE DEF T
  <2>7. QED
    BY <2>5, <2>6 DEF T
<1>2. QED
  BY <1>1, InvHolds, PTL
=============================================================================
