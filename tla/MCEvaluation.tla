----------------------------- MODULE MCEvaluation -----------------------------
(***************************************************************************)
(* A small instance of Evaluation: a metric of two series and one of two   *)
(* more, samples with gaps and a staleness marker, and queries of each     *)
(* shape at an instant and over a range.                                   *)
(***************************************************************************)
EXTENDS Evaluation

CONSTANT stale

\* A series with samples at the given times; it ends with a staleness marker at 3.
Samples(times, base) ==
  LET sorted == SetToSortSeq(times, <)
  IN [i \in DOMAIN sorted |->
        [t |-> sorted[i], v |-> IF sorted[i] = 3 THEN stale ELSE base + sorted[i]]]

Series(job, inst, times, base) ==
  {[labels |-> [job |-> job, inst |-> inst], samples |-> Samples(times, base)]}

MCStores ==
  {[a |-> Series("x", 1, ta, 0) \union Series("x", 2, {2, 4}, 1),
    b |-> Series("x", 1, tb, 0) \union Series("y", 1, {1, 3}, 2)
            \union (IF 1 \in tb THEN {} ELSE Series("y", 2, {0}, 2))]
     : ta \in {{0}, {1, 3}, {0, 1, 4}, {1, 3, 4}}, tb \in {{0, 4}, {1, 2, 4}}}

Plain(m) == [kind |-> "series", metric |-> m, fn |-> "last", range |-> 0, offset |-> 0,
             agg |-> "none", names |-> {}, without |-> FALSE]
Counted(m) == [Plain(m) EXCEPT !.fn = "count", !.range = 2]
Shifted(m) == [Plain(m) EXCEPT !.offset = 1]
Agg(op, names, e) == [e EXCEPT !.agg = op, !.names = names]
Number == [kind |-> "number", v |-> 3]

OneToOne == [card |-> "one-to-one", on |-> FALSE, names |-> {}, include |-> {}]
OnJob == [OneToOne EXCEPT !.on = TRUE, !.names = {"job"}]
ManyToOne == [OnJob EXCEPT !.card = "many-to-one", !.include = {"inst"}]
OneToMany == [OneToOne EXCEPT !.card = "one-to-many", !.on = FALSE, !.names = {"inst"}]

Times == {[start |-> 4, end |-> 4, step |-> 0],
          [start |-> 1, end |-> 4, step |-> 1],
          [start |-> 2, end |-> 5, step |-> 2],
          [start |-> 3, end |-> 2, step |-> 1],
          [start |-> 5, end |-> 2, step |-> 1]}

Query(op, bool, m, l, r, w) ==
  [op |-> op, bool |-> bool, match |-> m, left |-> l, right |-> r,
   start |-> w.start, end |-> w.end, step |-> w.step]

Leaves == {Plain("a"), Counted("a"), Shifted("a"), Agg("sum", {"job"}, Plain("a")),
           Agg("max", {}, Shifted("a")), Agg("count", {"inst"}, Counted("b")),
           [Agg("group", {"inst"}, Plain("b")) EXCEPT !.without = TRUE]}

Shapes ==
  {<<"none", FALSE, OneToOne, e, Number>> : e \in Leaves}
    \union {<<"-", FALSE, OneToOne, Plain("a"), Number>>, <<">", TRUE, OneToOne, Number, Plain("a")>>}
    \union {<<op, FALSE, OneToOne, Plain("a"), Plain("b")>> : op \in {"-", ">", "and", "or", "unless"}}
    \union {<<"-", FALSE, OnJob, Plain("a"), Plain("b")>>,
            <<"-", FALSE, ManyToOne, Plain("a"), Agg("sum", {"job"}, Plain("b"))>>,
            <<"-", FALSE, ManyToOne, Agg("max", {"job"}, Plain("a")), Plain("b")>>,
            <<">", TRUE, OneToMany, Agg("sum", {"job"}, Counted("a")), Shifted("b")>>,
            <<"-", FALSE, OneToOne, Agg("sum", {"job"}, Plain("a")), Agg("max", {}, Plain("b"))>>}

MCQueries == {Query(s[1], s[2], s[3], s[4], s[5], w) : s \in Shapes, w \in Times}
=============================================================================
