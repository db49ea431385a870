---------------------------- MODULE IngestPromise ----------------------------
(***************************************************************************)
(* What the remote-write path promises about each accepted request, with   *)
(* the queue, the batch, the flush goroutine and the process left out.     *)
(*                                                                         *)
(* A delivery is one POST /api/v1/write.  It is taken into memory whole,   *)
(* at most once; what is in memory is later either stored in ClickHouse or *)
(* lost, once and for good.  Nothing is stored that was not accepted, and  *)
(* nothing that left memory comes back.                                    *)
(***************************************************************************)
CONSTANTS
  Deliveries,  \* the write requests
  Parts        \* Parts[d]: the time series with samples that request d carries

VARIABLES
  accepted,    \* deliveries taken into memory so far
  memory,      \* parts held in memory
  stored,      \* parts whose samples are in ClickHouse
  lost         \* parts dropped after they had been accepted

vars == <<accepted, memory, stored, lost>>

AllParts == UNION {Parts[d] : d \in Deliveries}

Init ==
  /\ accepted = {}
  /\ memory = {}
  /\ stored = {}
  /\ lost = {}

\* A whole request is taken into memory.
Accept(d) ==
  /\ d \notin accepted
  /\ accepted' = accepted \union {d}
  /\ memory' = memory \union Parts[d]
  /\ UNCHANGED <<stored, lost>>

\* One INSERT stores the parts in S.
Store(S) ==
  /\ memory' = memory \ S
  /\ stored' = stored \union S
  /\ UNCHANGED <<accepted, lost>>

\* A failed INSERT, or the end of the process, loses the parts in S.
Lose(S) ==
  /\ memory' = memory \ S
  /\ lost' = lost \union S
  /\ UNCHANGED <<accepted, stored>>

Next ==
  \/ \E d \in Deliveries : Accept(d)
  \/ \E S \in SUBSET memory : Store(S) \/ Lose(S)

Spec == Init /\ [][Next]_vars
=============================================================================
