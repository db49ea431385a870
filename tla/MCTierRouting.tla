---------------------------- MODULE MCTierRouting ----------------------------
(***************************************************************************)
(* A small instance of TierRouting: two tiers, with boundaries five and    *)
(* nine slots before now, and ranges that begin and end on either side of  *)
(* them, on and off the buckets' edges.                                    *)
(***************************************************************************)
EXTENDS TierRouting

MCTiers == << [res |-> 2, after |-> 1, minStep |-> 2],
              [res |-> 4, after |-> 5, minStep |-> 4] >>

\* Every kind of function, over metrics whose type is known, wrong, or guessed.
MCFunctions ==
  {[fn |-> f[1], inner |-> f[2], type |-> f[3], named |-> f[4]] :
     f \in {<<"rate", "", "counter", "counter">>, <<"rate", "", "gauge", "counter">>,
            <<"avg_over_time", "", "", "unknown">>, <<"irate", "", "unknown", "counter">>,
            <<"irate", "", "", "unknown">>, <<"deriv", "", "gauge", "unknown">>,
            <<"resets", "", "counter", "counter">>,
            <<"histogram_quantile", "rate", "histogram", "histogram">>,
            <<"histogram_quantile", "irate", "", "histogram">>}}

MCWindows ==
  {q \in [start : {0, 1, 3, 4, 8}, end : {3, 6, 8, 9, 13}, step : {1, 3, 4}, range : {1, 2, 3, 5}] :
     q.start <= q.end}

\* The window matters to rate; to the others only in the choice of the tier.
MCQueries ==
  {q \in {[start |-> w.start, end |-> w.end, step |-> w.step, range |-> w.range,
           fn |-> f.fn, inner |-> f.inner, type |-> f.type, named |-> f.named] :
             w \in MCWindows, f \in MCFunctions} :
     q.fn = "rate" \/ q.range \in {2, 5}}
=============================================================================
