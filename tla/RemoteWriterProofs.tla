-------------------------- MODULE RemoteWriterProofs --------------------------
(***************************************************************************)
(* Theorems about RemoteWriter, for every value of its constants.          *)
(*                                                                         *)
(* The inductive invariant IInv says, besides the properties themselves,   *)
(* where a request can be: the channel holds a request at most once, the   *)
(* batch shares no part with the channel, and whatever is in memory was    *)
(* accepted.  Without it a flush could remove from memory, with its batch, *)
(* a part that is also waiting on the channel.                             *)
(***************************************************************************)
EXTENDS RemoteWriter, SequenceTheorems, TLAPS

-----------------------------------------------------------------------------
(***************************************************************************)
(* Sequences and their ranges.                                             *)
(***************************************************************************)

\* The elements of a sequence are those at its indices.
LEMMA RangeIsImage ==
  ASSUME NEW S, NEW q \in Seq(S)
  PROVE  /\ Range(q) = {q[i] : i \in 1..Len(q)}
         /\ Range(q) \subseteq S
BY RangeEquality, RangeOfSeq

\* Appending adds one element to the range.
LEMMA RangeAppend ==
  ASSUME NEW S, NEW q \in Seq(S), NEW e \in S
  PROVE  Range(Append(q, e)) = Range(q) \union {e}
<1>1. Append(q, e) = q \o <<e>>
  BY AppendIsConcat
<1>2. <<e>> \in Seq(S) /\ Range(<<e>>) = {e}
  BY DEF Range
<1>3. Range(q \o <<e>>) = Range(q) \union Range(<<e>>)
  <2> DEFINE r == <<e>>
  <2> HIDE DEF r
  <2>1. r \in Seq(S)
    BY <1>2 DEF r
  <2>2. Range(q \o r) = Range(q) \union Range(r)
    BY <2>1, RangeConcatenation
  <2>3. QED
    BY <2>2 DEF r
<1>4. QED
  BY <1>1, <1>2, <1>3

\* The head of a nonempty sequence and the elements of its tail are its elements.
LEMMA RangeHeadTail ==
  ASSUME NEW S, NEW q \in Seq(S), q # <<>>
  PROVE  Range(q) = {Head(q)} \union Range(Tail(q))
<1>1. Tail(q) \in Seq(S) /\ Len(Tail(q)) = Len(q) - 1 /\ Len(q) \in Nat \ {0}
  BY HeadTailProperties, EmptySeq
<1>2. \A i \in 1..Len(Tail(q)) : Tail(q)[i] = q[i + 1]
  BY HeadTailProperties
<1>3. Head(q) = q[1]
  OBVIOUS
<1>4. Range(Tail(q)) = {q[i + 1] : i \in 1..(Len(q) - 1)}
  <2>1. Range(Tail(q)) = {Tail(q)[i] : i \in 1..Len(Tail(q))}
    BY <1>1, RangeIsImage
  <2>2. QED
    BY <2>1, <1>1, <1>2
<1>5. Range(q) = {q[i] : i \in 1..Len(q)}
  BY RangeIsImage
<1>6. ASSUME NEW x \in Range(q)  PROVE x \in {Head(q)} \union Range(Tail(q))
  <2>1. PICK i \in 1..Len(q) : x = q[i]
    BY <1>5
  <2>2. CASE i = 1
    BY <2>1, <2>2, <1>3
  <2>3. CASE i # 1
    <3>1. i - 1 \in 1..(Len(q) - 1) /\ x = q[(i - 1) + 1]
      BY <2>1, <2>3, <1>1
    <3>2. QED
      BY <3>1, <1>4
  <2>4. QED
    BY <2>2, <2>3
<1>7. Range(Tail(q)) \subseteq Range(q)
  BY <1>1, <1>4, <1>5
<1>8. Head(q) \in Range(q)
  BY <1>1, <1>3, <1>5
<1>9. QED
  BY <1>6, <1>7, <1>8

\* No request is on the channel twice.
NoRepeats(q) == \A i, j \in 1..Len(q) : q[i] = q[j] => i = j

\* The head of a sequence without repetitions is not in its tail, and the tail has none.
LEMMA TailNoRepeats ==
  ASSUME NEW S, NEW q \in Seq(S), q # <<>>, NoRepeats(q)
  PROVE  NoRepeats(Tail(q)) /\ Head(q) \notin Range(Tail(q))
<1>1. Tail(q) \in Seq(S) /\ Len(Tail(q)) = Len(q) - 1 /\ Len(q) \in Nat \ {0}
  BY HeadTailProperties, EmptySeq
<1>2. \A i \in 1..Len(Tail(q)) : Tail(q)[i] = q[i + 1]
  BY HeadTailProperties
<1>3. NoRepeats(Tail(q))
  BY <1>1, <1>2 DEF NoRepeats
<1>4. ASSUME Head(q) \in Range(Tail(q))  PROVE FALSE
  <2>. Range(Tail(q)) = {Tail(q)[i] : i \in 1..Len(Tail(q))}
    BY <1>1, RangeIsImage
  <2>1. PICK i \in 1..Len(Tail(q)) : Head(q) = Tail(q)[i]
    BY <1>4
  <2>2. q[1] = q[i + 1] /\ i + 1 \in 1..Len(q) /\ 1 \in 1..Len(q)
    BY <2>1, <1>1, <1>2
  <2>3. QED
    BY <2>2 DEF NoRepeats
<1>5. QED
  BY <1>3, <1>4

\* Appending an element that is not there yet keeps a sequence without repetitions.
LEMMA AppendNoRepeats ==
  ASSUME NEW S, NEW q \in Seq(S), NEW e \in S, NoRepeats(q), e \notin Range(q)
  PROVE  NoRepeats(Append(q, e))
BY RangeIsImage, AppendProperties DEF NoRepeats

\* The parts of a request are a sequence of parts, one per time series.
LEMMA SeriesParts ==
  ASSUME NEW d \in Deliveries
  PROVE  /\ Series(d) \in Seq(AllParts)
         /\ Range(Series(d)) = {d} \X (1..Len(Request[d]))
         /\ Len(Request[d]) \in Nat
         /\ \A p \in AllParts : p \in Range(Series(d)) <=> p[1] = d
<1>1. Len(Request[d]) \in Nat
  BY ConfigAssumption
<1>2. \A i \in 1..Len(Request[d]) : <<d, i>> \in AllParts
  BY DEF AllParts
<1>3. Series(d) \in Seq(AllParts)
  BY <1>1, <1>2 DEF Series
<1>4. Range(Series(d)) = {d} \X (1..Len(Request[d]))
  <2>1. Range(Series(d)) = {<<d, i>> : i \in 1..Len(Request[d])}
    BY <1>1 DEF Series, Range
  <2>2. QED
    BY <2>1
<1>5. ASSUME NEW p \in AllParts  PROVE p \in Range(Series(d)) <=> p[1] = d
  BY <1>4 DEF AllParts
<1>6. QED
  BY <1>1, <1>3, <1>4, <1>5
-----------------------------------------------------------------------------
(***************************************************************************)
(* The inductive invariant.                                                *)
(***************************************************************************)

\* Whatever is in memory was accepted, the channel holds a request at most once, and no
\* request is on the channel and in the batch.
MemoryIsAccepted ==
  /\ NoRepeats(queue)
  /\ Range(queue) \subseteq accepted
  /\ \A p \in Range(batch) : p[1] \in accepted /\ p[1] \notin Range(queue)

\* Between the two INSERTs of a flush, the samples about to be inserted have their series.
BatchIsLabelled ==
  pc \in {"samples", "finalSamples"} =>
    \A p \in Range(batch) : SeriesRow(p) \in timeSeries \/ p \in unlabelled

\* A process that has ended holds nothing and runs nothing.
ExitedIsEmpty ==
  main = "exited" => pc = "stopped" /\ queue = <<>> /\ batch = <<>> /\ Active = {}

IInv ==
  /\ TypeOK
  /\ OneFate
  /\ AnswersAreTrue
  /\ MemoryIsAccepted
  /\ BatchIsLabelled
  /\ SamplesHaveSeries
  /\ ExitedIsEmpty
  /\ BatchStaysShort

\* A part is in memory when it is in the batch or its request is on the channel.
LEMMA HeldIs ==
  ASSUME NEW b \in Seq(AllParts), NEW q \in Seq(Deliveries)
  PROVE  /\ Held(b, q) \subseteq AllParts
         /\ \A p \in AllParts : p \in Held(b, q) <=> p \in Range(b) \/ p[1] \in Range(q)
<1>1. Range(q) \subseteq Deliveries
  BY RangeOfSeq
<1>2. Range(b) \subseteq AllParts
  BY RangeOfSeq
<1>3. \A d \in Range(q) : Range(Series(d)) \subseteq AllParts
  BY <1>1, SeriesParts, RangeOfSeq
<1>4. QED
  BY <1>1, <1>2, <1>3, SeriesParts DEF Held

\* The parts with samples of a request are the parts whose request it is.
LEMMA PartsOfIs ==
  ASSUME NEW d \in Deliveries
  PROVE  /\ PartsOf(d) \subseteq AllParts
         /\ \A p \in PartsOf(d) : p[1] = d /\ HasSamples(p)
BY DEF PartsOf

\* The rows a flush inserts are of the tables' types.
LEMMA RowTypes ==
  ASSUME NEW b \in Seq(AllParts)
  PROVE  /\ SeriesRows(b) \subseteq Metrics \X LabelSets
         /\ SampleRows(b) \subseteq Range(b)
         /\ Range(b) \subseteq AllParts
         /\ \A p \in Range(b) : SeriesRow(p) \in SeriesRows(b)
<1>1. Range(b) \subseteq AllParts
  BY RangeOfSeq
<1>2. ASSUME NEW p \in AllParts  PROVE SeriesRow(p) \in Metrics \X LabelSets
  <2>1. PICK d \in Deliveries : p \in {d} \X (1..Len(Request[d]))
    BY DEF AllParts
  <2>2. p[1] = d /\ p[2] \in 1..Len(Request[d]) /\ Request[d] \in Seq(TimeSeries)
    BY <2>1, ConfigAssumption
  <2>3. TS(p) \in TimeSeries
    BY <2>2, ElementOfSeq DEF TS
  <2>4. QED
    BY <2>3 DEF SeriesRow, TimeSeries
<1>3. QED
  BY <1>1, <1>2 DEF SeriesRows, SampleRows

-----------------------------------------------------------------------------
(***************************************************************************)
(* Types.                                                                  *)
(***************************************************************************)

\* A process starts in a state of the right types.
LEMMA InitTypeOK == Init => TypeOK
<1>1. <<>> \in Seq(Deliveries) /\ <<>> \in Seq(AllParts) /\ Len(<<>>) = 0
  BY EmptySeq
<1>2. 0 <= QueueSize
  BY ConfigAssumption
<1>3. QED
  BY <1>1, <1>2 DEF Init, TypeOK, Answered

\* Each step keeps the types; the channel bound is the guard of the send.
LEMMA NextTypeOK == TypeOK /\ [Next]_vars => TypeOK'
<1> SUFFICES ASSUME TypeOK, [Next]_vars  PROVE TypeOK'
  OBVIOUS
<1> USE DEF TypeOK, Answered, Flushing
<1>1. ASSUME NEW d \in Deliveries, Enqueue(d)  PROVE TypeOK'
  <2>1. Append(queue, d) \in Seq(Deliveries) /\ Len(Append(queue, d)) = Len(queue) + 1
    BY AppendProperties
  <2>2. QED
    BY <1>1, <2>1, ConfigAssumption DEF Enqueue, dbVars
<1>2. ASSUME NEW d \in Deliveries, Handle(d), ~Enqueue(d)  PROVE TypeOK'
  BY <1>2 DEF Handle, Arrive, ClientGone, Refuse, Reply, Active, procVars, dbVars, histVars
<1>3. CASE Receive
  <2>1. Head(queue) \in Deliveries /\ Tail(queue) \in Seq(Deliveries)
        /\ Len(Tail(queue)) = Len(queue) - 1
    BY <1>3, HeadTailProperties DEF Receive
  <2>2. Series(Head(queue)) \in Seq(AllParts)
    BY <2>1, SeriesParts
  <2>3. batch \o Series(Head(queue)) \in Seq(AllParts)
    BY <2>2, ConcatProperties
  <2>4. QED
    BY <1>3, <2>1, <2>3, ConfigAssumption DEF Receive, dbVars, histVars
<1>4. CASE Tick \/ Done
  BY <1>4 DEF Tick, Done, dbVars, histVars
<1>5. CASE InsertTimeSeries
  BY <1>5, RowTypes DEF InsertTimeSeries
<1>6. CASE InsertSamples
  BY <1>6, RowTypes, EmptySeq DEF InsertSamples
<1>7. CASE Signal \/ ShutdownReturns \/ ShutdownTimesOut \/ Restart
  BY <1>7 DEF Signal, ShutdownReturns, ShutdownTimesOut, CancelWriter, Restart, dbVars, histVars
<1>8. CASE ProcessEnds
  <2>1. UnstoredSamples \subseteq AllParts
    BY HeldIs DEF UnstoredSamples, InMemory
  <2>2. QED
    BY <1>8, <2>1, EmptySeq, ConfigAssumption DEF ProcessEnds, dbVars
<1>9. CASE UNCHANGED vars
  BY <1>9 DEF vars
<1>10. QED
  BY <1>1, <1>2, <1>3, <1>4, <1>5, <1>6, <1>7, <1>8, <1>9
     DEF Next, Run, Main, Exit, Crash

\* Type correctness of the writer: in particular the channel never exceeds its capacity.
THEOREM TypeCorrect == Spec => []TypeOK
BY InitTypeOK, NextTypeOK, PTL DEF Spec

-----------------------------------------------------------------------------
(***************************************************************************)
(* What the steps do to the channel and the batch, as sets.                *)
(***************************************************************************)

\* Steps that touch neither what is in memory nor what became of it.
QuietVars == <<queue, batch, accepted, samples, lost>>

\* Every step either leaves memory alone or is one of the four that do not.
LEMMA StepKinds ==
  ASSUME [Next]_vars
  PROVE  \/ UNCHANGED QuietVars
         \/ \E d \in Deliveries : Enqueue(d)
         \/ Receive
         \/ InsertSamples
         \/ ProcessEnds
BY DEF Next, Handle, Run, Main, Arrive, ClientGone, Refuse, Reply, Tick, Done, InsertTimeSeries,
       Signal, ShutdownReturns, ShutdownTimesOut, CancelWriter, Exit, Crash, Restart,
       vars, procVars, dbVars, histVars, QuietVars

\* A send adds one request to the channel.
LEMMA EnqueueEffect ==
  ASSUME TypeOK, NEW d \in Deliveries, Enqueue(d)
  PROVE  /\ Range(queue') = Range(queue) \union {d}
         /\ batch' = batch
         /\ accepted' = accepted \union {d}
         /\ UNCHANGED <<samples, lost>>
BY RangeAppend DEF TypeOK, Enqueue, dbVars

\* A receive moves the oldest request from the channel to the batch.
LEMMA ReceiveEffect ==
  ASSUME TypeOK, Receive
  PROVE  /\ Head(queue) \in Deliveries
         /\ Range(queue) = {Head(queue)} \union Range(queue')
         /\ Range(batch') = Range(batch) \union Range(Series(Head(queue)))
         /\ UNCHANGED <<accepted, samples, lost>>
<1>1. /\ queue \in Seq(Deliveries) /\ batch \in Seq(AllParts) /\ queue # <<>>
      /\ queue' = Tail(queue) /\ batch' = batch \o Series(Head(queue))
      /\ UNCHANGED <<accepted, samples, lost>>
  BY DEF TypeOK, Receive, dbVars, histVars
<1>2. Head(queue) \in Deliveries
  BY <1>1, HeadTailProperties
<1>3. Series(Head(queue)) \in Seq(AllParts)
  BY <1>2, SeriesParts
<1>4. Range(batch \o Series(Head(queue))) = Range(batch) \union Range(Series(Head(queue)))
  BY <1>1, <1>3, RangeConcatenation
<1>5. Range(queue) = {Head(queue)} \union Range(Tail(queue))
  BY <1>1, RangeHeadTail
<1>6. QED
  BY <1>1, <1>2, <1>4, <1>5

\* The end of a flush empties the batch; the end of the process empties both.
LEMMA EmptyRange == Range(<<>>) = {}
BY DEF Range

-----------------------------------------------------------------------------
(***************************************************************************)
(* The conjuncts of IInv, one lemma each.                                  *)
(***************************************************************************)

\* A process starts with nothing in memory and nothing in the tables.
LEMMA InitIInv == Init => IInv
<1> SUFFICES ASSUME Init  PROVE IInv
  OBVIOUS
<1>1. TypeOK
  BY InitTypeOK
<1>2. InMemory = {}
  BY EmptyRange DEF Init, InMemory, Held
<1>3. OneFate
  BY <1>2 DEF Init, OneFate, UnstoredSamples
<1>4. MemoryIsAccepted
  BY EmptyRange, EmptySeq DEF Init, MemoryIsAccepted, NoRepeats
<1>5. AnswersAreTrue /\ BatchIsLabelled /\ SamplesHaveSeries /\ ExitedIsEmpty
  BY DEF Init, AnswersAreTrue, BatchIsLabelled, SamplesHaveSeries, ExitedIsEmpty
<1>6. BatchStaysShort
  BY ConfigAssumption, EmptySeq DEF Init, BatchStaysShort
<1>7. QED
  BY <1>1, <1>3, <1>4, <1>5, <1>6 DEF IInv

\* A send puts a request on the channel that was never there before; a receive moves it to
\* the batch; a flush and the end of the process only remove.
LEMMA NextMemoryIsAccepted ==
  TypeOK /\ AnswersAreTrue /\ MemoryIsAccepted /\ [Next]_vars => MemoryIsAccepted'
<1> SUFFICES ASSUME TypeOK, AnswersAreTrue, MemoryIsAccepted, [Next]_vars
             PROVE  MemoryIsAccepted'
  OBVIOUS
<1>1. CASE UNCHANGED QuietVars
  BY <1>1 DEF QuietVars, MemoryIsAccepted, NoRepeats
<1>2. ASSUME NEW d \in Deliveries, Enqueue(d)  PROVE MemoryIsAccepted'
  <2>1. d \notin accepted
    BY <1>2 DEF Enqueue, AnswersAreTrue
  <2>2. NoRepeats(queue')
    BY <1>2, <2>1, AppendNoRepeats DEF Enqueue, MemoryIsAccepted, TypeOK
  <2>3. QED
    BY <1>2, <2>1, <2>2, EnqueueEffect DEF MemoryIsAccepted
<1>3. CASE Receive
  <2>1. NoRepeats(queue') /\ Head(queue) \notin Range(queue')
    BY <1>3, TailNoRepeats DEF Receive, MemoryIsAccepted, TypeOK
  <2>2. \A p \in Range(Series(Head(queue))) : p[1] = Head(queue)
    BY <1>3, ReceiveEffect, SeriesParts
  <2>3. QED
    BY <1>3, <2>1, <2>2, ReceiveEffect DEF MemoryIsAccepted
<1>4. CASE InsertSamples
  BY <1>4, EmptyRange DEF InsertSamples, MemoryIsAccepted
<1>5. CASE ProcessEnds
  BY <1>5, EmptyRange, EmptySeq DEF ProcessEnds, MemoryIsAccepted, NoRepeats
<1>6. QED
  BY <1>1, <1>2, <1>3, <1>4, <1>5, StepKinds

\* The answer follows the arm of the select that Write took.
LEMMA NextAnswersAreTrue == TypeOK /\ AnswersAreTrue /\ [Next]_vars => AnswersAreTrue'
<1> SUFFICES ASSUME TypeOK, AnswersAreTrue, [Next]_vars  PROVE AnswersAreTrue'
  OBVIOUS
<1> USE DEF AnswersAreTrue
<1>1. ASSUME NEW d \in Deliveries, Handle(d)  PROVE AnswersAreTrue'
  BY <1>1 DEF TypeOK, Handle, Arrive, ClientGone, Enqueue, Refuse, Reply, Active, procVars, histVars
<1>2. CASE ProcessEnds
  BY <1>2 DEF TypeOK, ProcessEnds
<1>3. CASE UNCHANGED <<handler, accepted>>
  BY <1>3
<1>4. QED
  BY <1>1, <1>2, <1>3
     DEF Next, Run, Main, Receive, Tick, Done, InsertTimeSeries, InsertSamples, Signal,
         ShutdownReturns, ShutdownTimesOut, CancelWriter, Exit, Crash, Restart, vars, histVars

\* A step moves each part from one place to the next: in at a send, out at the end of a flush
\* or of the process.
LEMMA NextOneFate == IInv /\ [Next]_vars => OneFate'
<1> SUFFICES ASSUME IInv, [Next]_vars, NEW d \in Deliveries, NEW p \in PartsOf(d)
             PROVE  IF d \in accepted'
                    THEN \/ p \in UnstoredSamples' /\ p \notin samples' /\ p \notin lost'
                         \/ p \notin UnstoredSamples' /\ p \in samples' /\ p \notin lost'
                         \/ p \notin UnstoredSamples' /\ p \notin samples' /\ p \in lost'
                    ELSE p \notin UnstoredSamples' /\ p \notin samples' /\ p \notin lost'
  BY DEF OneFate
<1>1. p \in AllParts /\ p[1] = d /\ HasSamples(p)
  BY PartsOfIs
<1>2. TypeOK /\ TypeOK' /\ MemoryIsAccepted /\ OneFate
  BY NextTypeOK DEF IInv
<1>3. p \in UnstoredSamples <=> p \in Range(batch) \/ d \in Range(queue)
  BY <1>1, <1>2, HeldIs DEF UnstoredSamples, InMemory, TypeOK
<1>4. p \in UnstoredSamples' <=> p \in Range(batch') \/ d \in Range(queue')
  <2>1. batch' \in Seq(AllParts) /\ queue' \in Seq(Deliveries)
    BY <1>2 DEF TypeOK
  <2>2. p \in Held(batch', queue') <=> p \in Range(batch') \/ p[1] \in Range(queue')
    BY <1>1, <2>1, HeldIs
  <2>3. QED
    BY <1>1, <2>2 DEF UnstoredSamples, InMemory, Held, HasSamples, TS
<1>5. CASE UNCHANGED QuietVars
  BY <1>2, <1>3, <1>4, <1>5 DEF QuietVars, OneFate
<1>6. ASSUME NEW e \in Deliveries, Enqueue(e)
      PROVE  IF d \in accepted'
             THEN \/ p \in UnstoredSamples' /\ p \notin samples' /\ p \notin lost'
                  \/ p \notin UnstoredSamples' /\ p \in samples' /\ p \notin lost'
                  \/ p \notin UnstoredSamples' /\ p \notin samples' /\ p \in lost'
             ELSE p \notin UnstoredSamples' /\ p \notin samples' /\ p \notin lost'
  <2>1. e \notin accepted
    BY <1>6 DEF Enqueue, IInv, AnswersAreTrue
  <2>2. QED
    BY <1>2, <1>3, <1>4, <1>6, <2>1, EnqueueEffect DEF OneFate
<1>7. CASE Receive
  <2>1. p \in Range(Series(Head(queue))) <=> d = Head(queue)
    BY <1>1, <1>2, <1>7, ReceiveEffect, SeriesParts
  <2>2. QED
    BY <1>2, <1>3, <1>4, <1>7, <2>1, ReceiveEffect DEF OneFate
<1>8. CASE InsertSamples
  <2>1. p \in Range(batch) => d \in accepted /\ d \notin Range(queue)
    BY <1>1, <1>2 DEF MemoryIsAccepted
  <2>2. p \in SampleRows(batch) <=> p \in Range(batch)
    BY <1>1 DEF SampleRows
  <2>3. Range(batch') = {} /\ queue' = queue /\ accepted' = accepted
    BY <1>8, EmptyRange DEF InsertSamples
  <2>4. \/ samples' = samples \union SampleRows(batch) /\ lost' = lost
        \/ samples' = samples /\ lost' = lost \union SampleRows(batch)
    BY <1>8 DEF InsertSamples
  <2>5. QED
    BY <1>2, <1>3, <1>4, <2>1, <2>2, <2>3, <2>4 DEF OneFate
<1>9. CASE ProcessEnds
  <2>1. Range(batch') = {} /\ Range(queue') = {} /\ accepted' = accepted
        /\ samples' = samples /\ lost' = lost \union UnstoredSamples
    BY <1>9, EmptyRange DEF ProcessEnds, dbVars
  <2>2. QED
    BY <1>2, <1>3, <1>4, <2>1 DEF OneFate
<1>10. QED
  BY <1>5, <1>6, <1>7, <1>8, <1>9, StepKinds

\* The time_series INSERT either adds the rows of the whole batch or marks the whole batch.
LEMMA NextBatchIsLabelled == TypeOK /\ BatchIsLabelled /\ [Next]_vars => BatchIsLabelled'
<1> SUFFICES ASSUME TypeOK, BatchIsLabelled, [Next]_vars  PROVE BatchIsLabelled'
  OBVIOUS
<1> USE DEF BatchIsLabelled
<1>1. ASSUME UNCHANGED <<pc, batch, timeSeries, unlabelled>>  PROVE BatchIsLabelled'
  BY <1>1 DEF SeriesRow, TS
<1>2. CASE Receive \/ Tick \/ Done \/ InsertSamples \/ ProcessEnds \/ Restart
  BY <1>2 DEF Receive, Tick, Done, InsertSamples, ProcessEnds, Restart
<1>3. CASE InsertTimeSeries
  BY <1>3, RowTypes DEF InsertTimeSeries, TypeOK, SeriesRow, TS
<1>4. QED
  BY <1>1, <1>2, <1>3
     DEF Next, Handle, Run, Main, Arrive, ClientGone, Enqueue, Refuse, Reply, Signal,
         ShutdownReturns, ShutdownTimesOut, CancelWriter, Exit, Crash,
         vars, procVars, dbVars, histVars

\* The samples INSERT stores a batch that the time_series INSERT has dealt with.
LEMMA NextSamplesHaveSeries ==
  TypeOK /\ BatchIsLabelled /\ SamplesHaveSeries /\ [Next]_vars => SamplesHaveSeries'
<1> SUFFICES ASSUME TypeOK, BatchIsLabelled, SamplesHaveSeries, [Next]_vars
             PROVE  SamplesHaveSeries'
  OBVIOUS
<1> USE DEF SamplesHaveSeries
<1>1. ASSUME UNCHANGED <<samples, timeSeries, unlabelled>>  PROVE SamplesHaveSeries'
  BY <1>1 DEF SeriesRow, TS
<1>2. CASE InsertTimeSeries
  BY <1>2 DEF InsertTimeSeries, SeriesRow, TS
<1>3. CASE InsertSamples
  BY <1>3, RowTypes DEF InsertSamples, BatchIsLabelled, TypeOK, SeriesRow, TS
<1>4. QED
  BY <1>1, <1>2, <1>3
     DEF Next, Handle, Run, Main, Arrive, ClientGone, Enqueue, Refuse, Reply, Receive, Tick, Done,
         Signal, ShutdownReturns, ShutdownTimesOut, CancelWriter, Exit, Crash, Restart, ProcessEnds,
         vars, procVars, dbVars, histVars

\* When the process ends its handlers, channel and batch end with it.
LEMMA NextExitedIsEmpty == TypeOK /\ ExitedIsEmpty /\ [Next]_vars => ExitedIsEmpty'
<1> SUFFICES ASSUME TypeOK, ExitedIsEmpty, [Next]_vars  PROVE ExitedIsEmpty'
  OBVIOUS
<1> USE DEF ExitedIsEmpty
<1>1. ASSUME NEW d \in Deliveries, Handle(d)  PROVE main' # "exited"
  BY <1>1 DEF Handle, Arrive, ClientGone, Enqueue, Refuse, Reply, Active, procVars
<1>2. CASE Run
  BY <1>2 DEF Run, Receive, Tick, Done, InsertTimeSeries, InsertSamples
<1>3. CASE Signal \/ ShutdownReturns \/ ShutdownTimesOut \/ Restart
  BY <1>3 DEF Signal, ShutdownReturns, ShutdownTimesOut, CancelWriter, Restart
<1>4. CASE ProcessEnds
  BY <1>4 DEF ProcessEnds, Active, TypeOK
<1>5. CASE UNCHANGED vars
  BY <1>5 DEF vars, Active
<1>6. QED
  BY <1>1, <1>2, <1>3, <1>4, <1>5 DEF Next, Main, Exit, Crash

\* A receive that fills the batch leaves the select; a flush comes back with an empty batch.
LEMMA NextBatchStaysShort ==
  TypeOK /\ ExitedIsEmpty /\ BatchStaysShort /\ [Next]_vars => BatchStaysShort'
<1> SUFFICES ASSUME TypeOK, ExitedIsEmpty, BatchStaysShort, [Next]_vars
             PROVE  BatchStaysShort'
  OBVIOUS
<1> USE DEF BatchStaysShort
<1>1. ASSUME UNCHANGED <<pc, batch>>  PROVE BatchStaysShort'
  BY <1>1
<1>2. CASE Receive
  <2>1. batch' \in Seq(AllParts)
    BY NextTypeOK DEF TypeOK
  <2>2. QED
    BY <1>2, <2>1, ConfigAssumption DEF Receive
<1>3. CASE Tick \/ Done \/ InsertTimeSeries \/ ProcessEnds
  BY <1>3 DEF Tick, Done, InsertTimeSeries, ProcessEnds
<1>4. CASE InsertSamples
  BY <1>4, EmptySeq, ConfigAssumption DEF InsertSamples
<1>5. CASE Restart
  BY <1>5, EmptySeq, ConfigAssumption DEF Restart, ExitedIsEmpty
<1>6. QED
  BY <1>1, <1>2, <1>3, <1>4, <1>5
     DEF Next, Handle, Run, Main, Arrive, ClientGone, Enqueue, Refuse, Reply, Signal,
         ShutdownReturns, ShutdownTimesOut, CancelWriter, Exit, Crash, vars, procVars

-----------------------------------------------------------------------------
(***************************************************************************)
(* The theorems.                                                           *)
(***************************************************************************)

\* The strengthened invariant holds in every reachable state.
THEOREM IInvHolds == Spec => []IInv
<1>1. IInv /\ [Next]_vars => IInv'
  BY NextTypeOK, NextOneFate, NextAnswersAreTrue, NextMemoryIsAccepted, NextBatchIsLabelled,
     NextSamplesHaveSeries, NextExitedIsEmpty, NextBatchStaysShort DEF IInv
<1>2. QED
  BY <1>1, InitIInv, PTL DEF Spec

\* Every accepted part with samples is in memory, stored or lost, in exactly one of the
\* three, through every flush, failed INSERT, shutdown, crash and restart.
THEOREM OneFateHolds == Spec => []OneFate
<1>1. IInv => OneFate
  BY DEF IInv
<1>2. QED
  BY <1>1, IInvHolds, PTL

\* A 204 is sent only for a request that is on its way to the tables, and an error status
\* only for one that is not.
THEOREM AnswersAreTrueHolds == Spec => []AnswersAreTrue
<1>1. IInv => AnswersAreTrue
  BY DEF IInv
<1>2. QED
  BY <1>1, IInvHolds, PTL

\* Stored samples can be found by a query unless their own flush failed to store their series.
THEOREM SamplesHaveSeriesHolds == Spec => []SamplesHaveSeries
<1>1. IInv => SamplesHaveSeries
  BY DEF IInv
<1>2. QED
  BY <1>1, IInvHolds, PTL

\* The batch is flushed as soon as it holds BatchSize series.
THEOREM BatchStaysShortHolds == Spec => []BatchStaysShort
<1>1. IInv => BatchStaysShort
  BY DEF IInv
<1>2. QED
  BY <1>1, IInvHolds, PTL

\* The writer's initial state is one of the promise's.
LEMMA InitKeepsPromise == Init => Promise!Init
<1> SUFFICES ASSUME Init  PROVE Promise!Init
  OBVIOUS
<1>1. InMemory = {}
  BY EmptyRange DEF Init, InMemory, Held
<1>2. QED
  BY <1>1 DEF Init, Promise!Init, UnstoredSamples

\* The parts with samples in a batch b and on a channel q.
LEMMA HeldWithSamples ==
  ASSUME NEW b \in Seq(AllParts), NEW q \in Seq(Deliveries)
  PROVE  {p \in Held(b, q) : HasSamples(p)} =
           {p \in AllParts : HasSamples(p) /\ (p \in Range(b) \/ p[1] \in Range(q))}
BY HeldIs

\* Every step of the writer is a step of the promise or leaves it unchanged.
LEMMA NextKeepsPromise == IInv /\ IInv' /\ [Next]_vars => [Promise!Next]_(Promise!vars)
<1> SUFFICES ASSUME IInv, IInv', [Next]_vars  PROVE [Promise!Next]_(Promise!vars)
  OBVIOUS
<1> DEFINE In(b, q) == {p \in AllParts : HasSamples(p) /\ (p \in Range(b) \/ p[1] \in Range(q))}
<1>1. /\ batch \in Seq(AllParts) /\ queue \in Seq(Deliveries)
      /\ batch' \in Seq(AllParts) /\ queue' \in Seq(Deliveries)
      /\ TypeOK /\ MemoryIsAccepted
  BY DEF IInv, TypeOK
<1>2. UnstoredSamples = In(batch, queue)
  BY <1>1, HeldWithSamples DEF UnstoredSamples, InMemory
<1>3. UnstoredSamples' = In(batch', queue')
  <2>1. UnstoredSamples' = {p \in Held(batch', queue') : HasSamples(p)}
    BY DEF UnstoredSamples, InMemory, Held, HasSamples, TS
  <2>2. QED
    BY <1>1, <2>1, HeldWithSamples
<1>4. CASE UNCHANGED QuietVars
  BY <1>2, <1>3, <1>4 DEF QuietVars, Promise!vars
<1>5. ASSUME NEW d \in Deliveries, Enqueue(d)  PROVE Promise!Next
  <2>1. In(batch', queue') = In(batch, queue) \union PartsOf(d)
    BY <1>1, <1>5, EnqueueEffect DEF PartsOf
  <2>2. d \notin accepted
    BY <1>5 DEF Enqueue, IInv, AnswersAreTrue
  <2>3. Promise!Accept(d)
    BY <1>1, <1>2, <1>3, <1>5, <2>1, <2>2, EnqueueEffect DEF Promise!Accept
  <2>4. QED
    BY <2>3 DEF Promise!Next
<1>6. CASE Receive
  <2>1. \A p \in AllParts : p \in Range(Series(Head(queue))) <=> p[1] = Head(queue)
    BY <1>1, <1>6, ReceiveEffect, SeriesParts
  <2>2. In(batch', queue') = In(batch, queue)
    BY <1>1, <1>6, <2>1, ReceiveEffect
  <2>3. QED
    BY <1>1, <1>2, <1>3, <1>6, <2>2, ReceiveEffect DEF Promise!vars
<1>7. CASE InsertSamples
  <2> DEFINE S == SampleRows(batch)
  <2>1. Range(batch') = {} /\ queue' = queue /\ accepted' = accepted
    BY <1>7, EmptyRange DEF InsertSamples
  <2>2. \A p \in Range(batch) : p \in AllParts /\ p[1] \notin Range(queue)
    BY <1>1, RowTypes DEF MemoryIsAccepted
  <2>3. S \subseteq UnstoredSamples /\ UnstoredSamples' = UnstoredSamples \ S
    BY <1>2, <1>3, <2>1, <2>2 DEF SampleRows
  <2>4. \/ samples' = samples \union S /\ lost' = lost
        \/ samples' = samples /\ lost' = lost \union S
    BY <1>7 DEF InsertSamples
  <2>5. Promise!Store(S) \/ Promise!Lose(S)
    BY <2>1, <2>3, <2>4 DEF Promise!Store, Promise!Lose
  <2>6. S \in SUBSET UnstoredSamples
    BY <2>3
  <2>7. QED
    BY <2>5, <2>6 DEF Promise!Next
<1>8. CASE ProcessEnds
  <2>1. Range(batch') = {} /\ Range(queue') = {}
    BY <1>8, EmptyRange DEF ProcessEnds
  <2>2. UnstoredSamples' = {}
    BY <1>3, <2>1
  <2>3. Promise!Lose(UnstoredSamples)
    BY <1>8, <2>2 DEF ProcessEnds, dbVars, Promise!Lose
  <2>4. QED
    BY <2>3 DEF Promise!Next
<1>9. QED
  BY <1>4, <1>5, <1>6, <1>7, <1>8, StepKinds

\* The writer implements the promise: a request is taken whole and at most once, and what
\* was taken is stored or lost once and for good.
THEOREM WriterKeepsPromise == Spec => KeepsPromise
<1>1. Init => Promise!Init
  BY InitKeepsPromise
<1>2. Spec => []IInv
  BY IInvHolds
<1>3. IInv /\ IInv' /\ [Next]_vars => [Promise!Next]_(Promise!vars)
  BY NextKeepsPromise
<1>4. QED
  BY <1>1, <1>2, <1>3, PTL DEF Spec, KeepsPromise, Promise!Spec
=============================================================================
