---------------------------- MODULE MCResultCache ----------------------------
(***************************************************************************)
(* A small instance of ResultCache: an instant query and range queries of  *)
(* the same expression, with keys that differ in one component only and    *)
(* windows that settle at different times.                                 *)
(***************************************************************************)
EXTENDS ResultCache

MCInstant == [query |-> "up", start |-> 0, end |-> 0, step |-> 0]
MCRange == [query |-> "up", start |-> 0, end |-> 1, step |-> 1]
MCCoarse == [query |-> "up", start |-> 0, end |-> 1, step |-> 2]

\* Three keys for two places: eviction and expiry, and flights with a follower.
MCRequests == {MCInstant, MCRange, MCCoarse}
=============================================================================
