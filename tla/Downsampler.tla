----------------------------- MODULE Downsampler -----------------------------
(***************************************************************************)
(* The downsampler: ApplyDownsamplingConfig of                             *)
(* proxy/clickhouse/downsampling.go, run once or periodically by           *)
(* proxy/cmd/downsampler/main.go.                                          *)
(*                                                                         *)
(* A pass is a sequence of statements, none of them in a transaction.  Any *)
(* statement can fail, before or after ClickHouse applied it, and the      *)
(* process can die; the next pass starts from whatever is in the database, *)
(* perhaps with another configuration file.  Exec does not cancel what it  *)
(* has sent: when the HTTP client's timeout of five minutes passes, or the *)
(* process dies, during the INSERT of a backfill, ClickHouse goes on with  *)
(* it.  The statements about tables, views and checksums are over at once: *)
(* they are taken to have ended when the client gives up on them.          *)
(*                                                                         *)
(* Meanwhile ClickHouse refreshes the views (external): a view is created  *)
(* without APPEND, so a refresh replaces the rows of its target table.     *)
(*                                                                         *)
(* Time is in slots, parts of an hour, which is the unit of compact_after  *)
(* in the generated SQL and of the backfill's chunks.  TTL statements are  *)
(* steps that can fail; what they delete is left out.                      *)
(***************************************************************************)
EXTENDS Integers, Sequences, Functions, FiniteSetsExt

CONSTANTS
  Configs,      \* configurations the operator may use: sequences of tiers
  Resolution,   \* of each tier table, in slots; no configuration changes it
  PerHour,      \* slots in an hour
  Raw,          \* the slots that have raw samples
  Refreshing,   \* names of the views that ClickHouse refreshes
  Start,        \* the slot at which the model starts
  MaxNow,       \* bound: the slot at which the clock stops
  MaxAbandoned  \* bound: INSERTs of a slot that the downsampler gives up on

Samples == "samples"
ChecksumTable == "proxy_mv_checksums"

Slots == 0..MaxNow

\* INTERVAL n HOUR
Span(n) == PerHour * n

\* toStartOfInterval, for buckets of w slots.
BucketOf(t, w) == t - (t % w)

AllTiers == UNION {Range(c) : c \in Configs}
Names == {t.name : t \in AllTiers}
TierTables == {t.table : t \in AllTiers}

\* Validate: there is a tier, and the tiers reach further and further back.
Valid(c) ==
  /\ c # <<>>
  /\ \A i \in 1..(Len(c) - 1) : c[i].after < c[i + 1].after

ASSUME DownsamplerAssumption ==
  /\ \A c \in Configs : c \in Seq([name : Names, table : TierTables, after : Nat])
  /\ \A c \in Configs : Valid(c)
  /\ Resolution \in [TierTables -> Nat \ {0}] /\ PerHour \in Nat \ {0}
  /\ Raw \in SUBSET Slots
  /\ Refreshing \in SUBSET Names
  /\ MaxNow \in Nat /\ Start \in Slots /\ MaxAbandoned \in Nat

VARIABLES
  now,        \* the slot
  config,     \* the configuration the process has read
  pc,         \* the statement that is next
  at,         \* the tier the current loop is at
  chunk,      \* backfillRawInChunks: chunkStart
  end,        \* backfillRawInChunks: endMs
  tables,     \* tables that exist
  view,       \* per name: the definition of the installed view, {} for none
  sums,       \* per name: the checksum on record, {} for none
  rows,       \* per tier table and slot: how many times it holds the slot's samples
  late,       \* the same, of what INSERTs that were given up on have yet to put in
  abandoned,  \* history: per tier table and slot, the INSERTs of it that were given up on
  unsettled   \* history: views dropped whose new checksum has not been recorded since

passVars == <<config, pc, at, chunk, end>>
tierVars == <<rows, late, abandoned>>
dbVars == <<tables, view, sums, tierVars, unsettled>>
vars == <<now, config, pc, at, chunk, end, tables, view, sums, rows, late, abandoned, unsettled>>

-----------------------------------------------------------------------------
Tier == config[at]

Source(c, i) == IF i = 1 THEN Samples ELSE c[i - 1].table

\* What the SQL of a view depends on, and what mvConfigChecksum hashes.
Definitions == [table : TierTables, source : TierTables \union {Samples}, after : Nat]

Definition(c, i) == [table |-> c[i].table, source |-> Source(c, i), after |-> c[i].after]

RawNow == {h \in Raw : h <= now}

\* Raw samples a refresh aggregates: the inner query wants them older than compact_after,
\* the outer one no older than that.
RawWindow(after) ==
  {h \in RawNow : h >= now - Span(after + 1) /\ h < now - Span(after) /\ h >= now - Span(after)}

\* What the buckets of tier s hold up to the bucket of tier t in which `after' hours ago is.
Before(s, t, after) ==
  {h \in Slots : BucketOf(h, Resolution[s]) < BucketOf(now - Span(after), Resolution[t])}

\* What a refresh of tier t's view aggregates of the tier before it.
TierWindow(s, t, after) == Before(s, t, after) \ Before(s, t, after + 4)

\* What the query of a view returns, as copies of each slot.
Selected(d) ==
  [h \in Slots |->
     IF d.source = Samples
     THEN IF h \in RawWindow(d.after) THEN 1 ELSE 0
     ELSE IF h \in TierWindow(d.source, d.table, d.after) THEN rows[d.source][h] ELSE 0]

None == [h \in Slots |-> 0]

Plus(f, g) == [h \in Slots |-> f[h] + g[h]]

Of(f, hs) == [h \in Slots |-> IF h \in hs THEN f[h] ELSE 0]

Held(f) == {h \in Slots : f[h] > 0}

Empty(t) == Held(rows[t]) = {}

Init ==
  /\ now = Start
  /\ config \in Configs
  /\ pc = "idle"
  /\ at = 1
  /\ chunk = 0
  /\ end = 0
  /\ tables = {Samples}
  /\ view = [n \in Names |-> {}]
  /\ sums = [n \in Names |-> {}]
  /\ rows = [t \in TierTables |-> None]
  /\ late = [t \in TierTables |-> None]
  /\ abandoned = [t \in TierTables |-> None]
  /\ unsettled = {}

-----------------------------------------------------------------------------
(***************************************************************************)
(* The control of a pass.                                                  *)
(***************************************************************************)

Goto(l) == pc' = l /\ UNCHANGED at

\* The pass returns an error: the process exits, or the daemon waits for its ticker.
Abort == pc' = "idle" /\ at' = 1

\* Mutant: the loop runs one tier too far.
Loop_OffByOne(same, next) ==
  IF at <= Len(config) THEN pc' = same /\ at' = at + 1 ELSE pc' = next /\ at' = 1

\* The end of a loop's body: the next tier, or the next phase.
Loop(same, next) ==
  IF at < Len(config) THEN pc' = same /\ at' = at + 1 ELSE pc' = next /\ at' = 1

\* A pass starts: at process start, or when the daemon's ticker fires.
Begin ==
  /\ pc = "idle"
  /\ Goto("checksumTable")
  /\ chunk' = 0
  /\ end' = 0
  /\ UNCHANGED <<now, config, dbVars>>

\* A process starts with a configuration file that may have changed.
Reconfigure(c) ==
  /\ pc = "idle"
  /\ config' = c
  /\ UNCHANGED <<now, pc, at, chunk, end, dbVars>>

\* The process is killed between two statements (external); during one, the statement's
\* step ends the pass.
Crash ==
  /\ pc # "idle"
  /\ Abort
  /\ UNCHANGED <<now, config, chunk, end, dbVars>>

-----------------------------------------------------------------------------
(***************************************************************************)
(* Tables.                                                                 *)
(***************************************************************************)

\* CREATE TABLE IF NOT EXISTS metrics.proxy_mv_checksums
EnsureChecksumTable ==
  /\ pc = "checksumTable"
  /\ \/ tables' = tables \union {ChecksumTable} /\ (Goto("table") \/ Abort)
     \/ UNCHANGED tables /\ Abort
  /\ UNCHANGED <<now, config, chunk, end, view, sums, tierVars, unsettled>>

\* Mutant: an error of CREATE TABLE is ignored.
EnsureTierTable_IgnoresError ==
  /\ pc = "table"
  /\ tables' \in {tables, tables \union {Tier.table}}
  /\ Loop("table", "ttl")
  /\ UNCHANGED <<now, config, chunk, end, view, sums, tierVars, unsettled>>

\* CREATE TABLE IF NOT EXISTS metrics.<tier>
EnsureTierTable ==
  /\ pc = "table"
  /\ \/ tables' = tables \union {Tier.table} /\ (Loop("table", "ttl") \/ Abort)
     \/ UNCHANGED tables /\ Abort
  /\ UNCHANGED <<now, config, chunk, end, view, sums, tierVars, unsettled>>

\* ALTER TABLE ... MODIFY TTL, for the samples and each tier.
ApplyTTLs ==
  /\ pc = "ttl"
  /\ Goto("read") \/ Abort
  /\ UNCHANGED <<now, config, chunk, end, dbVars>>

-----------------------------------------------------------------------------
(***************************************************************************)
(* createOrReplaceMVIfChanged.                                             *)
(***************************************************************************)

\* SELECT checksum: equal, the view is left alone; different, missing or not readable
\* (an error), it is replaced.
ReadChecksum ==
  /\ pc = "read"
  /\ \/ sums[Tier.name] = {Definition(config, at)} /\ Loop("read", "count")
     \/ sums[Tier.name] # {Definition(config, at)} /\ Goto("drop")
     \/ Goto("drop")
  /\ UNCHANGED <<now, config, chunk, end, dbVars>>

\* DROP VIEW IF EXISTS; its error is ignored.
DropView ==
  /\ pc = "drop"
  /\ view' \in {view, [view EXCEPT ![Tier.name] = {}]}
  /\ unsettled' = unsettled \union {Tier.name}
  /\ Goto("create")
  /\ UNCHANGED <<now, config, chunk, end, tables, sums, tierVars>>

\* Mutant: an error of CREATE MATERIALIZED VIEW is ignored.
CreateView_IgnoresError ==
  /\ pc = "create"
  /\ \/ /\ view[Tier.name] = {}
        /\ view' = [view EXCEPT ![Tier.name] = {Definition(config, at)}]
     \/ UNCHANGED view
  /\ Goto("save")
  /\ UNCHANGED <<now, config, chunk, end, tables, sums, tierVars, unsettled>>

\* CREATE MATERIALIZED VIEW, an error when the view exists.
CreateView ==
  /\ pc = "create"
  /\ \/ /\ view[Tier.name] = {}
        /\ view' = [view EXCEPT ![Tier.name] = {Definition(config, at)}]
        /\ Goto("save") \/ Abort
     \/ UNCHANGED view /\ Abort
  /\ UNCHANGED <<now, config, chunk, end, tables, sums, tierVars, unsettled>>

\* INSERT INTO metrics.proxy_mv_checksums
SaveChecksum ==
  /\ pc = "save"
  /\ \/ /\ sums' = [sums EXCEPT ![Tier.name] = {Definition(config, at)}]
        /\ unsettled' = unsettled \ {Tier.name}
        /\ Loop("read", "count") \/ Abort
     \/ UNCHANGED <<sums, unsettled>> /\ Abort
  /\ UNCHANGED <<now, config, chunk, end, tables, view, tierVars>>

-----------------------------------------------------------------------------
(***************************************************************************)
(* backfillTierIfEmpty.                                                    *)
(***************************************************************************)

NextBackfill == Loop("count", "applied")

\* Mutant: a tier is backfilled whether it has rows or not.
CountRows_NoCheck ==
  /\ pc = "count"
  /\ \/ Goto(IF at = 1 THEN "range" ELSE "fill")
     \/ Abort
  /\ UNCHANGED <<now, config, chunk, end, dbVars>>

\* SELECT count(): a tier with rows is skipped.
CountRows ==
  /\ pc = "count"
  /\ \/ IF Empty(Tier.table) THEN Goto(IF at = 1 THEN "range" ELSE "fill") ELSE NextBackfill
     \/ Abort
  /\ UNCHANGED <<now, config, chunk, end, dbVars>>

\* SELECT min(unix_milli), max(unix_milli): from the oldest sample up to compact_after
\* before now, or up to the newest sample when that is older.
FindRange ==
  /\ pc = "range"
  /\ \/ /\ RawNow # {}
        /\ chunk' = Min(RawNow)
        /\ end' = Min({now - Span(Tier.after), Max(RawNow)})
        /\ Goto("chunk")
     \/ RawNow = {} /\ NextBackfill /\ UNCHANGED <<chunk, end>>
     \/ Abort /\ UNCHANGED <<chunk, end>>
  /\ UNCHANGED <<now, config, dbVars>>

\* What an INSERT has selected is in the table.
Insert(t, selected) ==
  /\ rows' = [rows EXCEPT ![t] = Plus(@, selected)]
  /\ UNCHANGED <<late, abandoned>>

\* The client gives up on an INSERT, or is killed, and the statement goes on.
GiveUp(t, selected) ==
  /\ \A h \in Held(selected) : abandoned[t][h] < MaxAbandoned
  /\ late' = [late EXCEPT ![t] = Plus(@, selected)]
  /\ abandoned' = [abandoned EXCEPT ![t] = [h \in Slots |-> IF selected[h] > 0 THEN @[h] + 1 ELSE @[h]]]
  /\ UNCHANGED rows

\* The answer to an INSERT is an error, or is lost: it has put in all, some or nothing.
Fail(t, selected) ==
  \/ \E hs \in SUBSET Held(selected) : Insert(t, Of(selected, hs))
  \/ GiveUp(t, selected)

\* Mutant: the last chunk is not cut.
BackfillChunk_NoClip ==
  /\ pc = "chunk"
  /\ chunk < end
  /\ LET to == chunk + PerHour
         selected == [h \in Slots |-> IF h \in RawNow /\ chunk <= h /\ h < to THEN 1 ELSE 0]
     IN /\ \/ Insert(Tier.table, selected) /\ Goto("chunk")
           \/ Fail(Tier.table, selected) /\ Abort
        /\ chunk' = to
  /\ UNCHANGED <<now, config, end, tables, view, sums, unsettled>>

\* INSERT INTO the first tier, the raw samples of one hour or of what is left of the range.
BackfillChunk ==
  /\ pc = "chunk"
  /\ chunk < end
  /\ LET to == Min({chunk + PerHour, end})
         selected == [h \in Slots |-> IF h \in RawNow /\ chunk <= h /\ h < to THEN 1 ELSE 0]
     IN /\ \/ Insert(Tier.table, selected) /\ Goto("chunk")
           \/ Fail(Tier.table, selected) /\ Abort
        /\ chunk' = to
  /\ UNCHANGED <<now, config, end, tables, view, sums, unsettled>>

BackfillDone ==
  /\ pc = "chunk"
  /\ chunk >= end
  /\ NextBackfill
  /\ UNCHANGED <<now, config, chunk, end, dbVars>>

\* INSERT INTO a coarser tier everything its source has beyond compact_after.
BackfillTier ==
  /\ pc = "fill"
  /\ LET s == Source(config, at)
         selected == Of(rows[s], Before(s, Tier.table, Tier.after))
     IN \/ Insert(Tier.table, selected) /\ NextBackfill
        \/ Fail(Tier.table, selected) /\ Abort
  /\ UNCHANGED <<now, config, chunk, end, tables, view, sums, unsettled>>

\* "downsampling config applied successfully".
Applied ==
  /\ pc = "applied"
  /\ Goto("idle")
  /\ UNCHANGED <<now, config, chunk, end, dbVars>>

-----------------------------------------------------------------------------
(***************************************************************************)
(* ClickHouse and time.                                                    *)
(***************************************************************************)

\* A scheduled refresh of view n replaces its target's rows by what its query returns.
Refresh(n) ==
  /\ n \in Refreshing
  /\ \E d \in view[n] : rows' = [rows EXCEPT ![d.table] = Selected(d)]
  /\ UNCHANGED <<now, passVars, tables, view, sums, late, abandoned, unsettled>>

\* An INSERT that was given up on puts in more of what it has selected ...
Land(t) ==
  /\ \E hs \in SUBSET Held(late[t]) :
       /\ hs # {}
       /\ rows' = [rows EXCEPT ![t] = Plus(@, Of(late[t], hs))]
       /\ late' = [late EXCEPT ![t] = Of(@, Slots \ hs)]
  /\ UNCHANGED <<now, passVars, tables, view, sums, abandoned, unsettled>>

\* ... and ends with an error, or finds that a refresh has replaced the table.
Drop(t) ==
  /\ Held(late[t]) # {}
  /\ late' = [late EXCEPT ![t] = None]
  /\ UNCHANGED <<now, passVars, tables, view, sums, rows, abandoned, unsettled>>

Tick ==
  /\ now < MaxNow
  /\ now' = now + 1
  /\ UNCHANGED <<passVars, dbVars>>

Pass ==
  \/ Begin
  \/ EnsureChecksumTable
  \/ EnsureTierTable
  \/ ApplyTTLs
  \/ ReadChecksum
  \/ DropView
  \/ CreateView
  \/ SaveChecksum
  \/ CountRows
  \/ FindRange
  \/ BackfillChunk
  \/ BackfillDone
  \/ BackfillTier
  \/ Applied

Next ==
  \/ Pass
  \/ \E c \in Configs : Reconfigure(c)
  \/ Crash
  \/ \E n \in Names : Refresh(n)
  \/ \E t \in TierTables : Land(t) \/ Drop(t)
  \/ Tick

Spec == Init /\ [][Next]_vars

-----------------------------------------------------------------------------
(***************************************************************************)
(* What is checked.                                                        *)
(***************************************************************************)

Phases == {"idle", "checksumTable", "table", "ttl", "read", "drop", "create", "save",
           "count", "range", "chunk", "fill", "applied"}

\* The variables have their types; the loops stay within the configured tiers.
TypeOK ==
  /\ now \in Slots
  /\ config \in Configs
  /\ pc \in Phases
  /\ at \in DOMAIN config
  /\ chunk \in Nat
  /\ end \in Int
  /\ tables \subseteq TierTables \union {Samples, ChecksumTable}
  /\ view \in [Names -> SUBSET Definitions]
  /\ sums \in [Names -> SUBSET Definitions]
  /\ rows \in [TierTables -> [Slots -> Nat]]
  /\ late \in [TierTables -> [Slots -> Nat]]
  /\ abandoned \in [TierTables -> [Slots -> Nat]]
  /\ unsettled \subseteq Names

\* The checksum on record is that of the installed view, unless the view was dropped
\* and the new checksum has not been recorded since: failed statements, lost answers,
\* crashes and configuration changes at any other point never separate the two.
ChecksumIsTrue == \A n \in Names : n \in unsettled \/ sums[n] = view[n]

\* An installed view reads from and writes to tables that exist.
SourcesExist ==
  \A n \in Names : \A d \in view[n] : {d.table, d.source} \subseteq tables

\* The first tier holds no sample twice (val_sum, val_count and counter_total would be
\* doubled), but for one more copy for each INSERT of it that was given up on while
\* ClickHouse went on with it: a pass that is retried after an error, a lost answer or a
\* crash in the middle of the backfill does not repeat what is there.
BackfilledOnce ==
  \A c \in Configs : \A h \in Slots : rows[c[1].table][h] <= 1 + abandoned[c[1].table][h]

\* A tier holds no sample that is younger than compact_after, so what a tier says of an
\* hour was computed when the hour was complete.
OnlyOldHours ==
  \A t \in TierTables : \A h \in Slots :
    rows[t][h] > 0 => \E u \in AllTiers : u.table = t /\ h < now - Span(u.after)

\* "downsampling config applied successfully" (cmd/downsampler/main.go:68): the views
\* of the configuration are installed as configured.
AppliedMeansInstalled ==
  pc = "applied" =>
    \A i \in DOMAIN config : view[config[i].name] = {Definition(config, i)}

\* "re-apply periodically (idempotent)" (cmd/downsampler/main.go:75): however often a
\* pass failed before, one that succeeds leaves the history backfilled, up to the newest
\* sample.
BackfillIsComplete ==
  pc = "applied" =>
    \A h \in RawNow :
      h < now - Span(config[1].after) /\ h < Max(RawNow) => rows[config[1].table][h] > 0

\* "Raw samples -> REFRESH MV every 5m -> samples_5m" (README.md:402-405): a refresh of
\* the first tier's view selects the samples that have just grown older than
\* compact_after.
RefreshDelivers ==
  \A n \in Names : \A d \in view[n] :
    LET h == now - Span(d.after) - 1 IN
      d.source = Samples /\ h \in RawNow => Selected(d)[h] > 0
=============================================================================
