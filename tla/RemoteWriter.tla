----------------------------- MODULE RemoteWriter -----------------------------
(***************************************************************************)
(* The remote-write server: proxy/clickhouse/writer.go (the batching       *)
(* Writer) driven by proxy/cmd/writer/main.go (the HTTP handler and the    *)
(* shutdown sequence).                                                     *)
(*                                                                         *)
(* Three kinds of goroutine share a bounded channel: one handler per       *)
(* request sends on it, Writer.run receives from it and flushes batches    *)
(* with two INSERTs, and main stops the server and cancels the writer's    *)
(* context.  ClickHouse (external) applies an INSERT or does not; Writer   *)
(* logs a failed INSERT and goes on, so an error and a lost answer differ  *)
(* only in whether the rows are there.                                     *)
(***************************************************************************)
EXTENDS Naturals, Sequences, Functions

CONSTANTS
  Deliveries,  \* write requests; a client's retry is a delivery of its own
  Metrics,     \* metric names (the value of __name__)
  LabelSets,   \* label sets without __name__; the fingerprint is a function of these
  Request,     \* Request[d]: the sequence of time series that request d carries
  Impatient,   \* deliveries whose client may hang up before it is answered
  BatchSize,   \* cfg.BatchSize
  QueueSize    \* cfg.QueueSize

\* prompb.TimeSeries, its samples abstracted to their number.
TimeSeries == [metric : Metrics, labels : LabelSets, samples : Nat]

\* NewWriter replaces sizes that are not positive by defaults, so both are positive.
ASSUME ConfigAssumption ==
  /\ Request \in [Deliveries -> Seq(TimeSeries)]
  /\ Impatient \in SUBSET Deliveries
  /\ BatchSize \in Nat \ {0}
  /\ QueueSize \in Nat \ {0}

VARIABLES
  handler,     \* per delivery: where its HTTP handler is
  gone,        \* deliveries whose client went away (r.Context() is cancelled)
  queue,       \* the channel w.queue: a sequence of deliveries
  batch,       \* run's local batch: a sequence of parts
  pc,          \* where the run goroutine is
  ctxDone,     \* writerCancel was called
  main,        \* where main is
  timeSeries,  \* rows of the time_series table
  samples,     \* parts whose rows are in the samples table
  accepted,    \* history: deliveries that were put on the channel
  lost,        \* history: accepted parts that left memory without being stored
  unlabelled   \* history: parts flushed by a flush whose time_series INSERT failed

procVars == <<handler, queue, batch, pc, ctxDone, main>>
dbVars == <<timeSeries, samples>>
histVars == <<accepted, lost, unlabelled>>
vars == <<handler, gone, queue, batch, pc, ctxDone, main,
          timeSeries, samples, accepted, lost, unlabelled>>

-----------------------------------------------------------------------------
(***************************************************************************)
(* A part is one time series of one request.                               *)
(***************************************************************************)
AllParts == UNION {{d} \X (1..Len(Request[d])) : d \in Deliveries}

TS(p) == Request[p[1]][p[2]]

HasSamples(p) == TS(p).samples > 0

\* b.series, as parts.
Series(d) == [i \in 1..Len(Request[d]) |-> <<d, i>>]

PartsOf(d) == {p \in AllParts : p[1] = d /\ HasSamples(p)}

\* The time_series row of a part: the dedup key holds the metric name as well as
\* the fingerprint, because metrics with equal labels share a fingerprint.
SeriesRow(p) == <<TS(p).metric, TS(p).labels>>

FirstWithFingerprint(ps) ==
  {i \in DOMAIN ps : \A j \in 1..(i - 1) : TS(ps[j]).labels # TS(ps[i]).labels}

\* Mutant: dedup by fingerprint alone.
SeriesRows_ByFingerprint(ps) == {SeriesRow(ps[i]) : i \in FirstWithFingerprint(ps)}

SeriesRows(ps) == {SeriesRow(p) : p \in Range(ps)}

SampleRows(ps) == {p \in Range(ps) : HasSamples(p)}

-----------------------------------------------------------------------------
Active == {d \in Deliveries : handler[d] \in {"sending", "enqueued"}}

Answered == {"acked", "refused", "broken"}

Flushing == {"series", "samples", "finalSeries", "finalSamples"}

Init ==
  /\ handler = [d \in Deliveries |-> "idle"]
  /\ gone = {}
  /\ queue = <<>>
  /\ batch = <<>>
  /\ pc = "select"
  /\ ctxDone = FALSE
  /\ main = "serving"
  /\ timeSeries = {}
  /\ samples = {}
  /\ accepted = {}
  /\ lost = {}
  /\ unlabelled = {}

-----------------------------------------------------------------------------
(***************************************************************************)
(* The HTTP handler of one request.                                        *)
(***************************************************************************)

\* The body is read, decompressed and decoded (a body that is not is answered with 400
\* and changes nothing here); the handler enters Writer.Write.  A handler that was still
\* reading when Shutdown was called gets here later, even after Shutdown has given up.
Arrive(d) ==
  /\ main # "exited"
  /\ handler[d] = "idle"
  /\ handler' = [handler EXCEPT ![d] = "sending"]
  /\ UNCHANGED <<gone, queue, batch, pc, ctxDone, main, dbVars, histVars>>

\* The client closes its connection while the handler runs.
ClientGone(d) ==
  /\ d \in (Active \intersect Impatient) \ gone
  /\ gone' = gone \union {d}
  /\ UNCHANGED <<procVars, dbVars, histVars>>

\* Mutant: the send never blocks, so the channel is unbounded.
Enqueue_Unbounded(d) ==
  /\ handler[d] = "sending"
  /\ queue' = Append(queue, d)
  /\ accepted' = accepted \union {d}
  /\ handler' = [handler EXCEPT ![d] = "enqueued"]
  /\ UNCHANGED <<gone, batch, pc, ctxDone, main, dbVars, lost, unlabelled>>

\* Writer.Write, first arm: the send on the channel succeeds.
Enqueue(d) ==
  /\ handler[d] = "sending"
  /\ Len(queue) < QueueSize
  /\ queue' = Append(queue, d)
  /\ accepted' = accepted \union {d}
  /\ handler' = [handler EXCEPT ![d] = "enqueued"]
  /\ UNCHANGED <<gone, batch, pc, ctxDone, main, dbVars, lost, unlabelled>>

\* Mutant: the error is returned after the request was put on the channel.
Refuse_AfterSend(d) ==
  /\ handler[d] = "sending"
  /\ d \in gone
  /\ queue' = Append(queue, d)
  /\ accepted' = accepted \union {d}
  /\ handler' = [handler EXCEPT ![d] = "refused"]
  /\ UNCHANGED <<gone, batch, pc, ctxDone, main, dbVars, lost, unlabelled>>

\* Writer.Write, second arm: the request's context is done; 500.
Refuse(d) ==
  /\ handler[d] = "sending"
  /\ d \in gone
  /\ handler' = [handler EXCEPT ![d] = "refused"]
  /\ UNCHANGED <<gone, queue, batch, pc, ctxDone, main, dbVars, histVars>>

\* Write returned nil: 204, which a client that went away never sees.
Reply(d) ==
  /\ handler[d] = "enqueued"
  /\ handler' = [handler EXCEPT ![d] = IF d \in gone THEN "broken" ELSE "acked"]
  /\ UNCHANGED <<gone, queue, batch, pc, ctxDone, main, dbVars, histVars>>

-----------------------------------------------------------------------------
(***************************************************************************)
(* The run goroutine: one select loop, flush in two INSERTs.               *)
(***************************************************************************)

\* Mutant: the batch is flushed only when it has outgrown BatchSize.
Receive_OffByOne ==
  /\ pc = "select"
  /\ queue # <<>>
  /\ batch' = batch \o Series(Head(queue))
  /\ queue' = Tail(queue)
  /\ pc' = IF Len(batch') > BatchSize THEN "series" ELSE "select"
  /\ UNCHANGED <<handler, gone, ctxDone, main, dbVars, histVars>>

\* case b := <-w.queue
Receive ==
  /\ pc = "select"
  /\ queue # <<>>
  /\ batch' = batch \o Series(Head(queue))
  /\ queue' = Tail(queue)
  /\ pc' = IF Len(batch') >= BatchSize THEN "series" ELSE "select"
  /\ UNCHANGED <<handler, gone, ctxDone, main, dbVars, histVars>>

\* Mutant: the ticker arm flushes full batches only.
Tick_OnlyFull ==
  /\ pc = "select"
  /\ Len(batch) >= BatchSize
  /\ pc' = "series"
  /\ UNCHANGED <<handler, gone, queue, batch, ctxDone, main, dbVars, histVars>>

\* case <-ticker.C (with an empty batch the arm does nothing)
Tick ==
  /\ pc = "select"
  /\ batch # <<>>
  /\ pc' = "series"
  /\ UNCHANGED <<handler, gone, queue, batch, ctxDone, main, dbVars, histVars>>

\* case <-ctx.Done(): flush the batch with a context of its own, or return.
Done ==
  /\ pc = "select"
  /\ ctxDone
  /\ pc' = IF batch # <<>> THEN "finalSeries" ELSE "stopped"
  /\ UNCHANGED <<handler, gone, queue, batch, ctxDone, main, dbVars, histVars>>

\* An INSERT under a cancelled context is not sent.  The last flush runs under
\* context.Background(), which is never cancelled.
ContextLive == pc \in {"finalSeries", "finalSamples"} \/ ~ctxDone

\* Mutant: the batch is reset before the second INSERT.
InsertTimeSeries_ResetsBatch ==
  /\ pc \in {"series", "finalSeries"}
  /\ \/ /\ ContextLive
        /\ timeSeries' = timeSeries \union SeriesRows(batch)
        /\ UNCHANGED unlabelled
     \/ /\ unlabelled' = unlabelled \union Range(batch)
        /\ UNCHANGED timeSeries
  /\ batch' = <<>>
  /\ pc' = IF pc = "series" THEN "samples" ELSE "finalSamples"
  /\ UNCHANGED <<handler, gone, queue, ctxDone, main, samples, accepted, lost>>

\* flush: insertTimeSeries; an error is only logged.
InsertTimeSeries ==
  /\ pc \in {"series", "finalSeries"}
  /\ \/ /\ ContextLive
        /\ timeSeries' = timeSeries \union SeriesRows(batch)
        /\ UNCHANGED unlabelled
     \/ /\ unlabelled' = unlabelled \union Range(batch)
        /\ UNCHANGED timeSeries
  /\ pc' = IF pc = "series" THEN "samples" ELSE "finalSamples"
  /\ UNCHANGED <<handler, gone, queue, batch, ctxDone, main, samples, accepted, lost>>

\* Mutant: the batch is kept after a flush.
InsertSamples_KeepBatch ==
  /\ pc \in {"samples", "finalSamples"}
  /\ \/ /\ ContextLive
        /\ samples' = samples \union SampleRows(batch)
        /\ UNCHANGED lost
     \/ /\ lost' = lost \union SampleRows(batch)
        /\ UNCHANGED samples
  /\ pc' = IF pc = "samples" THEN "select" ELSE "stopped"
  /\ UNCHANGED <<handler, gone, queue, batch, ctxDone, main, timeSeries, accepted,
                 unlabelled>>

\* Mutant: a failed INSERT ends the goroutine.
InsertSamples_ReturnsOnError ==
  /\ pc \in {"samples", "finalSamples"}
  /\ batch' = <<>>
  /\ \/ /\ ContextLive
        /\ samples' = samples \union SampleRows(batch)
        /\ pc' = IF pc = "samples" THEN "select" ELSE "stopped"
        /\ UNCHANGED lost
     \/ /\ lost' = lost \union SampleRows(batch)
        /\ pc' = "stopped"
        /\ UNCHANGED samples
  /\ UNCHANGED <<handler, gone, queue, ctxDone, main, timeSeries, accepted, unlabelled>>

\* flush: insertSamples; an error is only logged, and the batch is reset in any case.
InsertSamples ==
  /\ pc \in {"samples", "finalSamples"}
  /\ \/ /\ ContextLive
        /\ samples' = samples \union SampleRows(batch)
        /\ UNCHANGED lost
     \/ /\ lost' = lost \union SampleRows(batch)
        /\ UNCHANGED samples
  /\ batch' = <<>>
  /\ pc' = IF pc = "samples" THEN "select" ELSE "stopped"
  /\ UNCHANGED <<handler, gone, queue, ctxDone, main, timeSeries, accepted, unlabelled>>

-----------------------------------------------------------------------------
(***************************************************************************)
(* main.                                                                   *)
(***************************************************************************)

\* SIGINT or SIGTERM: ready.Store(false), httpSrv.Shutdown closes the listener.
Signal ==
  /\ main = "serving"
  /\ main' = "draining"
  /\ UNCHANGED <<handler, gone, queue, batch, pc, ctxDone, dbVars, histVars>>

\* Shutdown returns when no handler is active, or with an error after ten seconds;
\* either way main goes on to writerCancel().
CancelWriter ==
  /\ main' = "cancelled"
  /\ ctxDone' = TRUE
  /\ UNCHANGED <<handler, gone, queue, batch, pc, dbVars, histVars>>

ShutdownReturns ==
  /\ main = "draining"
  /\ Active = {}
  /\ CancelWriter

ShutdownTimesOut ==
  /\ main = "draining"
  /\ Active # {}
  /\ CancelWriter

\* The parts in a batch b and on a channel q.
Held(b, q) == Range(b) \union UNION {Range(Series(d)) : d \in Range(q)}

InMemory == Held(batch, queue)

UnstoredSamples == {p \in InMemory : HasSamples(p)}

\* The process ends: every goroutine with it.
ProcessEnds ==
  /\ main' = "exited"
  /\ pc' = "stopped"
  /\ ctxDone' = TRUE
  /\ queue' = <<>>
  /\ batch' = <<>>
  /\ lost' = lost \union UnstoredSamples
  /\ handler' = [d \in Deliveries |-> IF d \in Active THEN "broken" ELSE handler[d]]
  /\ UNCHANGED <<gone, dbVars, accepted, unlabelled>>

\* main logs "writer stopped" and returns, without waiting for the run goroutine.
Exit ==
  /\ main = "cancelled"
  /\ ProcessEnds

\* The process is killed (external).
Crash ==
  /\ main # "exited"
  /\ ProcessEnds

\* The process is started again: a new Writer with an empty channel and batch.
Restart ==
  /\ main = "exited"
  /\ main' = "serving"
  /\ pc' = "select"
  /\ ctxDone' = FALSE
  /\ UNCHANGED <<handler, gone, queue, batch, dbVars, histVars>>

-----------------------------------------------------------------------------
Handle(d) ==
  \/ Arrive(d)
  \/ ClientGone(d)
  \/ Enqueue(d)
  \/ Refuse(d)
  \/ Reply(d)

Run == Receive \/ Tick \/ Done \/ InsertTimeSeries \/ InsertSamples

Main == Signal \/ ShutdownReturns \/ ShutdownTimesOut \/ Exit

Next ==
  \/ \E d \in Deliveries : Handle(d)
  \/ Run
  \/ Main
  \/ Crash
  \/ Restart

Spec == Init /\ [][Next]_vars

(***************************************************************************)
(* The scheduler runs every goroutine that can run, and an INSERT returns. *)
(* A sender blocked on a full channel waits in the channel's FIFO queue,   *)
(* so it cannot be passed over for ever: strong fairness.  Clients,        *)
(* signals, crashes and restarts are not fair.                             *)
(***************************************************************************)
Fairness ==
  /\ \A d \in Deliveries :
       /\ SF_vars(Enqueue(d))
       /\ WF_vars(Reply(d))
  /\ WF_vars(Receive)
  /\ WF_vars(Tick)
  /\ WF_vars(Done)
  /\ WF_vars(InsertTimeSeries)
  /\ WF_vars(InsertSamples)
  /\ WF_vars(ShutdownReturns \/ ShutdownTimesOut)
  /\ WF_vars(Exit)

FairSpec == Spec /\ Fairness

-----------------------------------------------------------------------------
(***************************************************************************)
(* What is checked and proved.                                             *)
(***************************************************************************)

\* The variables have their types; the channel never holds more than its capacity.
TypeOK ==
  /\ handler \in [Deliveries -> {"idle", "sending", "enqueued"} \union Answered]
  /\ gone \in SUBSET Deliveries
  /\ queue \in Seq(Deliveries) /\ Len(queue) <= QueueSize
  /\ batch \in Seq(AllParts)
  /\ pc \in {"select", "stopped"} \union Flushing
  /\ ctxDone \in BOOLEAN
  /\ main \in {"serving", "draining", "cancelled", "exited"}
  /\ timeSeries \in SUBSET (Metrics \X LabelSets)
  /\ samples \in SUBSET AllParts
  /\ accepted \in SUBSET Deliveries
  /\ lost \in SUBSET AllParts
  /\ unlabelled \in SUBSET AllParts

\* Every part with samples of a request that was put on the channel is in exactly one
\* place: in memory (channel or batch), in the samples table, or lost.  A request that
\* was not put on the channel has left no trace.  Across batches, failed INSERTs,
\* shutdowns and crashes nothing is dropped silently, stored twice or resurrected.
OneFate ==
  \A d \in Deliveries : \A p \in PartsOf(d) :
    IF d \in accepted
    THEN \/ p \in UnstoredSamples /\ p \notin samples /\ p \notin lost
         \/ p \notin UnstoredSamples /\ p \in samples /\ p \notin lost
         \/ p \notin UnstoredSamples /\ p \notin samples /\ p \in lost
    ELSE p \notin UnstoredSamples /\ p \notin samples /\ p \notin lost

\* The answer tells the sender the truth: 204 only for a request that was accepted, and
\* an error status (after which the sender may retry) only for one that was not, so a
\* retry after an error status never duplicates samples.
AnswersAreTrue ==
  \A d \in Deliveries :
    /\ handler[d] \in {"enqueued", "acked"} => d \in accepted
    /\ handler[d] \in {"idle", "sending", "refused"} => d \notin accepted

\* Samples whose series has no row in time_series cannot be found by a query.  That
\* happens only to the samples of a flush whose own time_series INSERT failed: the
\* dedup of series rows never drops a (metric, labels) pair that the samples need.
SamplesHaveSeries ==
  \A p \in samples : SeriesRow(p) \in timeSeries \/ p \in unlabelled

\* While run waits in its select the batch is short of BatchSize, so a flush carries
\* fewer than BatchSize series plus one request.
BatchStaysShort == pc = "select" => Len(batch) < BatchSize

\* Every accepted request leaves memory: its samples are stored, or lost to a failed
\* INSERT or the end of the process.  A batch below BatchSize does not wait for ever.
AcceptedIsSettled ==
  \A d \in Deliveries : d \in accepted ~> PartsOf(d) \subseteq samples \union lost

\* A request blocked on a full channel is answered, or its process ends: the run loop
\* keeps receiving even when every INSERT fails.
SendersUnblock ==
  \A d \in Deliveries : handler[d] = "sending" ~> handler[d] \in Answered

\* The detailed protocol implements the promise.
Promise == INSTANCE IngestPromise WITH
  Parts <- [d \in Deliveries |-> PartsOf(d)],
  memory <- UnstoredSamples,
  stored <- samples

KeepsPromise == Promise!Spec

\* "// Drain remaining" (writer.go:88): when run returns after a shutdown that every
\* handler finished in time, no accepted request is left on the channel.
DrainsOnStop == pc = "stopped" /\ Active = {} => queue = <<>>
=============================================================================
