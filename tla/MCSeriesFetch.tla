---------------------------- MODULE MCSeriesFetch ----------------------------
(***************************************************************************)
(* A small instance of SeriesListing and SeriesFetch: a metric of up to    *)
(* four series, another one that shares a fingerprint with it, selectors   *)
(* that pick all of the first, some of it, and the second, and listings    *)
(* with and without a metric's name.                                       *)
(***************************************************************************)
EXTENDS SeriesListing

MCSeries == [metric : {"up"}, fp : 1..4] \union {[metric |-> "load", fp |-> 1]}

MCFirst == [metric : {"up"}, fp : 1..2]

MCSelectors ==
  [metric : {"up"}, fps : {1..4, {2, 3}}, counted : BOOLEAN]
    \union {[metric |-> "load", fps |-> 1..4, counted |-> FALSE]}

Match(metric, fps) == [metric |-> metric, fps |-> fps, parses |-> TRUE]

MCListings ==
  {<<Match("up", {1, 3}), Match("load", {1})>>, <<Match("up", {3}), Match("", {1, 2})>>,
   <<Match("", {1}), [metric |-> "", fps |-> {}, parses |-> FALSE]>>}
=============================================================================
