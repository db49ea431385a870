---------------------------- MODULE MCRemoteWriter ----------------------------
(***************************************************************************)
(* A small instance of RemoteWriter.  Request 1 carries two metrics with   *)
(* the same labels (one fingerprint) and fills a batch of two; request 2   *)
(* repeats a series of request 1; request 3 repeats it without samples     *)
(* and leaves the batch short.                                             *)
(***************************************************************************)
EXTENDS RemoteWriter

MCRequest ==
  << << [metric |-> "up", labels |-> "a", samples |-> 1],
        [metric |-> "load", labels |-> "a", samples |-> 2] >>,
     << [metric |-> "up", labels |-> "a", samples |-> 1] >>,
     << [metric |-> "up", labels |-> "a", samples |-> 0] >> >>
=============================================================================
