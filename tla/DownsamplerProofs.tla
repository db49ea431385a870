-------------------------- MODULE DownsamplerProofs --------------------------
(***************************************************************************)
(* Theorems about Downsampler, for every value of its constants.           *)
(*                                                                         *)
(* The inductive invariant IInv adds to the properties where a pass is:    *)
(* which tables it has made, which view it has dropped or installed, and   *)
(* that every installed view comes from some configuration.  What the      *)
(* tiers hold has two invariants of its own, which count what INSERTs that *)
(* were given up on have yet to put in as if it were there.                *)
(***************************************************************************)
EXTENDS Downsampler, SetLemmas

-----------------------------------------------------------------------------
(***************************************************************************)
(* The first and the last of a set of slots; hours and buckets.            *)
(***************************************************************************)

\* Of slots there is a first and a last.
LEMMA FirstAndLast ==
  ASSUME NEW S \in SUBSET Slots, S # {}
  PROVE  /\ Min(S) \in S /\ \A h \in S : Min(S) <= h
         /\ Max(S) \in S /\ \A h \in S : h <= Max(S)
<1>1. MaxNow \in Nat /\ \A h \in S : h \in Nat /\ h <= MaxNow
  BY DownsamplerAssumption DEF Slots
<1>2. IsFiniteSet(S) /\ S \in SUBSET Int
  <2>1. IsFiniteSet(0..MaxNow) /\ S \subseteq 0..MaxNow
    BY <1>1, FS_Interval
  <2>2. IsFiniteSet(S)
    BY <2>1, FS_Subset
  <2>3. QED
    BY <2>2, <1>1
<1>3. QED
  BY <1>2, ExtremesAre

\* The earlier of two times.
LEMMA EarlierOf ==
  ASSUME NEW a \in Int, NEW b \in Int
  PROVE  Min({a, b}) \in {a, b} /\ Min({a, b}) <= a /\ Min({a, b}) <= b
<1>1. \E x \in {a, b} : \A y \in {a, b} : x <= y
  OBVIOUS
<1>2. QED
  BY <1>1 DEF Min

\* A number of hours is a number of slots.
LEMMA SpanIs == \A n \in Nat : Span(n) \in Nat
BY DownsamplerAssumption DEF Span

\* What is in an earlier bucket than t is, is earlier than t, when buckets nest.
LEMMA EarlierBucket ==
  ASSUME NEW h \in Nat, NEW t \in Int, NEW v \in Nat \ {0}, NEW w \in Nat \ {0}, v % w = 0,
         BucketOf(h, w) < BucketOf(t, v)
  PROVE  h < t
<1>1. h % w \in 0..(w - 1) /\ t % v \in 0..(v - 1) /\ BucketOf(h, w) \in Int /\ BucketOf(t, v) \in Int
  BY DEF BucketOf
<1>2. BucketOf(t, v) <= t /\ h < BucketOf(h, w) + w
  BY <1>1 DEF BucketOf
<1>3. \E j \in Int : BucketOf(h, w) = w * j
  <2>1. h = w * (h \div w) + (h % w) /\ h \div w \in Int
    OBVIOUS
  <2>2. BucketOf(h, w) = w * (h \div w)
    BY <2>1, <1>1 DEF BucketOf
  <2>3. QED
    BY <2>1, <2>2
<1>4. \E k \in Int : BucketOf(t, v) = w * k
  <2>1. t = v * (t \div v) + (t % v) /\ t \div v \in Int
    OBVIOUS
  <2>2. BucketOf(t, v) = v * (t \div v)
    BY <2>1, <1>1 DEF BucketOf
  <2>3. v = w * (v \div w) /\ v \div w \in Int
    OBVIOUS
  <2>4. v * (t \div v) = w * ((v \div w) * (t \div v))
    BY <2>1, <2>3
  <2>5. QED
    BY <2>1, <2>2, <2>3, <2>4
<1>5. PICK j \in Int : BucketOf(h, w) = w * j
  BY <1>3
<1>6. PICK k \in Int : BucketOf(t, v) = w * k
  BY <1>4
<1>7. j + 1 <= k
  <2>1. SUFFICES ASSUME k <= j  PROVE FALSE
    OBVIOUS
  <2>2. w * k <= w * j
    BY <2>1
  <2>3. QED
    BY <2>2, <1>5, <1>6
<1>8. w * (j + 1) <= w * k /\ w * (j + 1) = w * j + w
  BY <1>7
<1>9. QED
  BY <1>1, <1>2, <1>5, <1>6, <1>8

-----------------------------------------------------------------------------
(***************************************************************************)
(* Configurations.                                                         *)
(***************************************************************************)

\* What the assumption on the constants says of one configuration.
LEMMA ConfigIs ==
  ASSUME NEW c \in Configs
  PROVE  /\ Len(c) \in Nat \ {0} /\ DOMAIN c = 1..Len(c) /\ 1 \in DOMAIN c
         /\ \A i \in DOMAIN c : /\ c[i] \in AllTiers
                                /\ c[i].name \in Names
                                /\ c[i].table \in TierTables
                                /\ c[i].after \in Nat
<1>1. c \in Seq([name : Names, table : TierTables, after : Nat]) /\ c # <<>>
  BY DownsamplerAssumption DEF Valid
<1>2. Len(c) \in Nat \ {0} /\ DOMAIN c = 1..Len(c)
  BY <1>1, LenProperties, EmptySeq
<1>3. \A i \in DOMAIN c : c[i] \in [name : Names, table : TierTables, after : Nat]
  BY <1>1, <1>2, ElementOfSeq
<1>4. \A i \in DOMAIN c : c[i] \in AllTiers
  BY DEF AllTiers, Range
<1>5. QED
  BY <1>2, <1>3, <1>4

\* A view reads from the samples or from the tier before its own.
LEMMA DefinitionIs ==
  ASSUME NEW c \in Configs, NEW i \in DOMAIN c
  PROVE  /\ Definition(c, i) \in Definitions
         /\ Definition(c, i).table = c[i].table
         /\ Definition(c, i).source = Source(c, i)
         /\ Definition(c, i).after = c[i].after
         /\ i = 1 => Source(c, i) = Samples
         /\ i # 1 => i - 1 \in DOMAIN c /\ Source(c, i) = c[i - 1].table
<1>1. i # 1 => i - 1 \in DOMAIN c
  BY ConfigIs
<1>2. Source(c, i) \in TierTables \union {Samples}
  BY <1>1, ConfigIs DEF Source
<1>3. QED
  BY <1>1, <1>2, ConfigIs DEF Definition, Definitions, Source

-----------------------------------------------------------------------------
(***************************************************************************)
(* The inductive invariant.                                                *)
(***************************************************************************)

\* Between its loops a pass is at the first tier, and that one alone is filled from samples.
AtFirst ==
  /\ pc \in {"idle", "checksumTable", "ttl", "range", "chunk", "applied"} => at = 1
  /\ pc = "fill" => at # 1

\* The tables of the configuration exist once the pass has gone through their loop.
TablesMade ==
  /\ Samples \in tables
  /\ pc \notin {"idle", "checksumTable", "table"} =>
       \A i \in DOMAIN config : config[i].table \in tables
  /\ pc = "table" => \A i \in DOMAIN config : i < at => config[i].table \in tables

\* A view that is about to be created, or recorded, has been dropped; one about to be
\* recorded is installed.
Replacing ==
  /\ pc \in {"create", "save"} => Tier.name \in unsettled
  /\ pc = "save" => view[Tier.name] = {Definition(config, at)}

\* Every installed view is the one some configuration asks for.
ViewsConfigured ==
  \A n \in Names : \A d \in view[n] : \E c \in Configs : \E i \in DOMAIN c : d = Definition(c, i)

IInv ==
  /\ TypeOK
  /\ AtFirst
  /\ TablesMade
  /\ Replacing
  /\ ViewsConfigured
  /\ ChecksumIsTrue
  /\ SourcesExist

\* The tier a loop is at is one of the configuration's.
LEMMA TierIs ==
  ASSUME TypeOK
  PROVE  /\ config \in Configs /\ at \in DOMAIN config
         /\ at \in Nat /\ Len(config) \in Nat \ {0} /\ DOMAIN config = 1..Len(config)
         /\ Tier = config[at] /\ Tier \in AllTiers
         /\ Tier.name \in Names /\ Tier.table \in TierTables /\ Tier.after \in Nat
         /\ Definition(config, at) \in Definitions
         /\ now \in Nat
<1>1. config \in Configs /\ at \in DOMAIN config /\ now \in Nat
  BY DEF TypeOK, Slots
<1>2. QED
  BY <1>1, ConfigIs, DefinitionIs DEF Tier

\* The invariant holds before the first pass.
LEMMA InitInv == Init => IInv
<1> SUFFICES ASSUME Init  PROVE IInv
  OBVIOUS
<1>1. config \in Configs /\ at = 1 /\ pc = "idle" /\ view = [n \in Names |-> {}]
  BY DEF Init
<1>2. 1 \in DOMAIN config
  BY <1>1, ConfigIs
<1>3. TypeOK
  BY <1>1, <1>2, DownsamplerAssumption DEF Init, TypeOK, Phases, Slots, None
<1>4. AtFirst /\ TablesMade /\ Replacing
  BY <1>1 DEF Init, AtFirst, TablesMade, Replacing
<1>5. ViewsConfigured /\ SourcesExist
  BY <1>1 DEF ViewsConfigured, SourcesExist
<1>6. ChecksumIsTrue
  BY DEF Init, ChecksumIsTrue
<1>7. QED
  BY <1>3, <1>4, <1>5, <1>6 DEF IInv

-----------------------------------------------------------------------------
(***************************************************************************)
(* Types and control.                                                      *)
(***************************************************************************)

\* Where a pass can go from a step of its loops.
LEMMA LoopIs ==
  ASSUME TypeOK, UNCHANGED config, NEW same \in Phases, NEW next \in Phases, Loop(same, next)
  PROVE  /\ pc' \in {same, next} /\ at' \in DOMAIN config'
         /\ pc' = same /\ same # next => at' = at + 1 /\ at < Len(config)
         /\ pc' = next /\ same # next => at' = 1 /\ at = Len(config)
BY TierIs DEF Loop

\* What an INSERT does to the tables, whether it is answered, fails or is given up on: it
\* puts in no more than it has selected, now or later, and more than that is counted.
LEMMA InsertIs ==
  ASSUME TypeOK, NEW t \in TierTables, NEW f \in [Slots -> Nat], Insert(t, f) \/ Fail(t, f)
  PROVE  /\ {rows', late', abandoned'} \subseteq [TierTables -> [Slots -> Nat]]
         /\ \A u \in TierTables \ {t} :
              rows'[u] = rows[u] /\ late'[u] = late[u] /\ abandoned'[u] = abandoned[u]
         /\ \A h \in Slots :
              /\ rows'[t][h] + late'[t][h] <= rows[t][h] + late[t][h] + f[h]
              /\ rows'[t][h] >= rows[t][h] /\ late'[t][h] >= late[t][h]
              /\ abandoned'[t][h] >= abandoned[t][h]
              /\ f[h] <= 1 => late'[t][h] + abandoned[t][h] <= late[t][h] + abandoned'[t][h]
<1>1. /\ rows \in [TierTables -> [Slots -> Nat]] /\ late \in [TierTables -> [Slots -> Nat]]
      /\ abandoned \in [TierTables -> [Slots -> Nat]]
  BY DEF TypeOK
<1>2. ASSUME NEW g \in [Slots -> Nat], \A h \in Slots : g[h] <= f[h], Insert(t, g)
      PROVE  /\ rows' \in [TierTables -> [Slots -> Nat]] /\ UNCHANGED <<late, abandoned>>
             /\ \A u \in TierTables \ {t} : rows'[u] = rows[u]
             /\ \A h \in Slots : rows'[t][h] = rows[t][h] + g[h]
  <2>1. Plus(rows[t], g) \in [Slots -> Nat] /\ \A h \in Slots : Plus(rows[t], g)[h] = rows[t][h] + g[h]
    BY <1>1 DEF Plus
  <2>2. rows' = [rows EXCEPT ![t] = Plus(rows[t], g)] /\ UNCHANGED <<late, abandoned>>
    BY <1>2 DEF Insert
  <2>3. QED
    BY <1>1, <2>1, <2>2
<1>3. CASE \E g \in [Slots -> Nat] : (\A h \in Slots : g[h] <= f[h]) /\ Insert(t, g)
  <2>1. PICK g \in [Slots -> Nat] : (\A h \in Slots : g[h] <= f[h]) /\ Insert(t, g)
    BY <1>3
  <2>2. /\ rows' \in [TierTables -> [Slots -> Nat]] /\ UNCHANGED <<late, abandoned>>
        /\ \A u \in TierTables \ {t} : rows'[u] = rows[u]
        /\ \A h \in Slots : rows'[t][h] = rows[t][h] + g[h]
    BY <1>2, <2>1
  <2>3. ASSUME NEW h \in Slots
        PROVE  /\ rows'[t][h] + late'[t][h] <= rows[t][h] + late[t][h] + f[h]
               /\ rows'[t][h] >= rows[t][h] /\ late'[t][h] >= late[t][h]
               /\ abandoned'[t][h] >= abandoned[t][h]
               /\ late'[t][h] + abandoned[t][h] <= late[t][h] + abandoned'[t][h]
    <3>1. /\ rows[t][h] \in Nat /\ late[t][h] \in Nat /\ abandoned[t][h] \in Nat
          /\ f[h] \in Nat /\ g[h] \in Nat /\ g[h] <= f[h]
      BY <1>1, <2>1
    <3>2. late'[t][h] = late[t][h] /\ abandoned'[t][h] = abandoned[t][h] /\ rows'[t][h] = rows[t][h] + g[h]
      BY <2>2
    <3>3. QED
      BY <3>1, <3>2
  <2>4. QED
    BY <1>1, <2>2, <2>3
<1>4. CASE GiveUp(t, f)
  <2> DEFINE counted == [h \in Slots |-> IF f[h] > 0 THEN abandoned[t][h] + 1 ELSE abandoned[t][h]]
  <2>1. /\ UNCHANGED rows /\ late' = [late EXCEPT ![t] = Plus(late[t], f)]
        /\ abandoned' = [abandoned EXCEPT ![t] = counted]
    BY <1>4 DEF GiveUp
  <2>2. Plus(late[t], f) \in [Slots -> Nat] /\ \A h \in Slots : Plus(late[t], f)[h] = late[t][h] + f[h]
    BY <1>1 DEF Plus
  <2>3. counted \in [Slots -> Nat]
    BY <1>1
  <2>4. ASSUME NEW h \in Slots
        PROVE  counted[h] >= abandoned[t][h] /\ (f[h] > 0 => counted[h] = abandoned[t][h] + 1)
    BY <1>1
  <2> HIDE DEF counted
  <2>5. /\ late' \in [TierTables -> [Slots -> Nat]] /\ abandoned' \in [TierTables -> [Slots -> Nat]]
        /\ \A u \in TierTables \ {t} : late'[u] = late[u] /\ abandoned'[u] = abandoned[u]
        /\ \A h \in Slots : late'[t][h] = late[t][h] + f[h] /\ abandoned'[t][h] = counted[h]
    BY <1>1, <2>1, <2>2, <2>3
  <2>6. ASSUME NEW h \in Slots
        PROVE  /\ rows'[t][h] + late'[t][h] <= rows[t][h] + late[t][h] + f[h]
               /\ rows'[t][h] >= rows[t][h] /\ late'[t][h] >= late[t][h]
               /\ abandoned'[t][h] >= abandoned[t][h]
               /\ f[h] <= 1 => late'[t][h] + abandoned[t][h] <= late[t][h] + abandoned'[t][h]
    <3>1. rows[t][h] \in Nat /\ late[t][h] \in Nat /\ abandoned[t][h] \in Nat /\ f[h] \in Nat /\ counted[h] \in Nat
      BY <1>1, <2>3
    <3>2. rows'[t][h] = rows[t][h] /\ late'[t][h] = late[t][h] + f[h] /\ abandoned'[t][h] = counted[h]
      BY <2>1, <2>5
    <3>3. counted[h] >= abandoned[t][h] /\ (f[h] > 0 => counted[h] = abandoned[t][h] + 1)
      BY <2>4
    <3>4. QED
      BY <3>1, <3>2, <3>3
  <2>7. QED
    BY <1>1, <2>1, <2>5, <2>6
<1>5. Insert(t, f) => \E g \in [Slots -> Nat] : (\A h \in Slots : g[h] <= f[h]) /\ Insert(t, g)
  OBVIOUS
<1>6. ASSUME NEW hs, Insert(t, Of(f, hs))
      PROVE  \E g \in [Slots -> Nat] : (\A h \in Slots : g[h] <= f[h]) /\ Insert(t, g)
  <2>1. Of(f, hs) \in [Slots -> Nat] /\ \A h \in Slots : Of(f, hs)[h] <= f[h]
    BY DEF Of
  <2>2. QED
    BY <1>6, <2>1
<1>7. QED
  BY <1>3, <1>4, <1>5, <1>6 DEF Fail

\* What a chunk of the backfill selects, and where it ends.
ChunkTo == Min({chunk + PerHour, end})

ChunkRows == [h \in Slots |-> IF h \in RawNow /\ chunk <= h /\ h < ChunkTo THEN 1 ELSE 0]

\* A chunk is one INSERT, after which the pass goes on to the next one or ends.
LEMMA ChunkIs ==
  ASSUME TypeOK, AtFirst, BackfillChunk
  PROVE  /\ pc = "chunk" /\ chunk < end /\ UNCHANGED <<now, config, end, tables, view, sums, unsettled>>
         /\ ChunkRows \in [Slots -> Nat] /\ Tier.table \in TierTables
         /\ Insert(Tier.table, ChunkRows) \/ Fail(Tier.table, ChunkRows)
         /\ pc' \in {"chunk", "idle"} /\ at = 1 /\ at' = 1
         /\ chunk' = ChunkTo /\ ChunkTo \in Nat /\ chunk <= ChunkTo /\ ChunkTo <= end
         /\ \A h \in Slots : /\ ChunkRows[h] \in {0, 1}
                             /\ ChunkRows[h] > 0 => chunk <= h /\ h < ChunkTo
<1>1. chunk \in Nat /\ end \in Int /\ PerHour \in Nat \ {0}
  BY DownsamplerAssumption DEF TypeOK
<1>2. chunk < end /\ pc = "chunk" /\ chunk' = ChunkTo
  BY DEF BackfillChunk, ChunkTo
<1>3. ChunkTo \in {chunk + PerHour, end} /\ ChunkTo <= end
  <2>1. chunk + PerHour \in Int /\ end \in Int
    BY <1>1
  <2>2. QED
    BY <2>1, EarlierOf DEF ChunkTo
<1>4. ChunkTo \in Nat /\ chunk <= ChunkTo
  BY <1>1, <1>2, <1>3
<1>5. /\ \/ Insert(Tier.table, ChunkRows) /\ Goto("chunk")
         \/ Fail(Tier.table, ChunkRows) /\ Abort
      /\ UNCHANGED <<now, config, end, tables, view, sums, unsettled>>
  BY DEF BackfillChunk, ChunkTo, ChunkRows
<1>6. ASSUME NEW h \in Slots
      PROVE  ChunkRows[h] \in {0, 1} /\ (ChunkRows[h] > 0 => chunk <= h /\ h < ChunkTo)
  BY DEF ChunkRows
<1>7. ChunkRows \in [Slots -> Nat]
  BY DEF ChunkRows
<1>8. at = 1 /\ at' = 1 /\ pc' \in {"chunk", "idle"}
  BY <1>2, <1>5 DEF Goto, Abort, AtFirst
<1>9. QED
  BY <1>2, <1>3, <1>4, <1>5, <1>6, <1>7, <1>8, TierIs

\* What the backfill of a coarser tier selects.
TierRows == LET s == Source(config, at) IN Of(rows[s], Before(s, Tier.table, Tier.after))

\* The backfill of a coarser tier is one INSERT, after which the pass goes on or ends.
LEMMA FillIs ==
  ASSUME TypeOK, AtFirst, BackfillTier
  PROVE  /\ pc = "fill" /\ at # 1 /\ UNCHANGED <<now, config, chunk, end, tables, view, sums, unsettled>>
         /\ TierRows \in [Slots -> Nat] /\ Tier.table \in TierTables
         /\ Insert(Tier.table, TierRows) \/ Fail(Tier.table, TierRows)
         /\ pc' \in {"count", "applied", "idle"} /\ at' \in DOMAIN config /\ (pc' # "count" => at' = 1)
         /\ at - 1 \in DOMAIN config /\ Source(config, at) = config[at - 1].table
         /\ \A h \in Slots : TierRows[h] > 0 =>
              /\ h \in Before(config[at - 1].table, config[at].table, config[at].after)
              /\ rows[config[at - 1].table][h] > 0
<1>1. /\ config \in Configs /\ at \in DOMAIN config /\ 1 \in DOMAIN config /\ Tier = config[at]
      /\ at \in Nat /\ Len(config) \in Nat \ {0} /\ DOMAIN config = 1..Len(config)
      /\ Tier.table \in TierTables
      /\ rows \in [TierTables -> [Slots -> Nat]]
  BY TierIs, ConfigIs DEF TypeOK
<1>2. pc = "fill" /\ at # 1 /\ UNCHANGED <<now, config, chunk, end, tables, view, sums, unsettled>>
  BY DEF BackfillTier, AtFirst
<1>3. at - 1 \in DOMAIN config /\ Source(config, at) = config[at - 1].table
  BY <1>1, <1>2, DefinitionIs
<1>4. \/ Insert(Tier.table, TierRows) /\ NextBackfill
      \/ Fail(Tier.table, TierRows) /\ Abort
  BY DEF BackfillTier, TierRows
<1>5. pc' \in {"count", "applied", "idle"} /\ at' \in DOMAIN config /\ (pc' # "count" => at' = 1)
  BY <1>1, <1>4 DEF NextBackfill, Loop, Abort
<1>6. config[at - 1].table \in TierTables
  BY <1>1, <1>3, ConfigIs
<1>7. TierRows = Of(rows[config[at - 1].table], Before(config[at - 1].table, config[at].table, config[at].after))
  BY <1>1, <1>3 DEF TierRows
<1>8. rows[config[at - 1].table] \in [Slots -> Nat]
  BY <1>1, <1>6
<1>9. ASSUME NEW S, NEW f \in [Slots -> Nat]
      PROVE  Of(f, S) \in [Slots -> Nat] /\ \A h \in Slots : Of(f, S)[h] > 0 => h \in S /\ f[h] > 0
  BY DEF Of
<1>10. /\ TierRows \in [Slots -> Nat]
       /\ \A h \in Slots : TierRows[h] > 0 =>
            /\ h \in Before(config[at - 1].table, config[at].table, config[at].after)
            /\ rows[config[at - 1].table][h] > 0
  BY <1>7, <1>8, <1>9
<1>11. QED
  BY <1>1, <1>2, <1>3, <1>4, <1>5, <1>10

\* What becomes of an INSERT that was given up on: what it puts in is no longer to come.
LEMMA LateIs ==
  ASSUME TypeOK, NEW t \in TierTables, Land(t) \/ Drop(t)
  PROVE  /\ rows' \in [TierTables -> [Slots -> Nat]] /\ late' \in [TierTables -> [Slots -> Nat]]
         /\ UNCHANGED <<now, passVars, tables, view, sums, abandoned, unsettled>>
         /\ \A u \in TierTables : \A h \in Slots :
              /\ rows'[u][h] + late'[u][h] <= rows[u][h] + late[u][h]
              /\ late'[u][h] <= late[u][h]
<1>1. rows \in [TierTables -> [Slots -> Nat]] /\ late \in [TierTables -> [Slots -> Nat]]
  BY DEF TypeOK
<1>2. CASE Land(t)
  <2>1. PICK hs : /\ rows' = [rows EXCEPT ![t] = Plus(rows[t], Of(late[t], hs))]
                  /\ late' = [late EXCEPT ![t] = Of(late[t], Slots \ hs)]
    BY <1>2 DEF Land
  <2>2. UNCHANGED <<now, passVars, tables, view, sums, abandoned, unsettled>>
    BY <1>2 DEF Land
  <2>3. ASSUME NEW f \in [Slots -> Nat], NEW g \in [Slots -> Nat]
        PROVE  /\ Plus(f, Of(g, hs)) \in [Slots -> Nat] /\ Of(g, Slots \ hs) \in [Slots -> Nat]
               /\ \A h \in Slots : /\ Plus(f, Of(g, hs))[h] + Of(g, Slots \ hs)[h] = f[h] + g[h]
                                   /\ Of(g, Slots \ hs)[h] <= g[h]
    BY DEF Plus, Of
  <2> DEFINE p == Plus(rows[t], Of(late[t], hs))
             q == Of(late[t], Slots \ hs)
  <2>4. /\ p \in [Slots -> Nat] /\ q \in [Slots -> Nat]
        /\ \A h \in Slots : p[h] + q[h] = rows[t][h] + late[t][h] /\ q[h] <= late[t][h]
    BY <1>1, <2>3
  <2> HIDE DEF p, q
  <2>5. rows' = [rows EXCEPT ![t] = p] /\ late' = [late EXCEPT ![t] = q]
    BY <2>1 DEF p, q
  <2>6. ASSUME NEW u \in TierTables, NEW h \in Slots
        PROVE  /\ rows'[u][h] + late'[u][h] <= rows[u][h] + late[u][h]
               /\ late'[u][h] <= late[u][h]
    <3>1. CASE u = t
      <4>1. rows'[u][h] = p[h] /\ late'[u][h] = q[h] /\ rows[t][h] \in Nat /\ late[t][h] \in Nat
        BY <1>1, <2>4, <2>5, <3>1
      <4>2. QED
        BY <4>1, <2>4, <3>1
    <3>2. CASE u # t
      <4>1. rows'[u] = rows[u] /\ late'[u] = late[u] /\ rows[u][h] \in Nat /\ late[u][h] \in Nat
        BY <1>1, <2>5, <3>2
      <4>2. QED
        BY <4>1
    <3>3. QED
      BY <3>1, <3>2
  <2>7. QED
    BY <1>1, <2>2, <2>4, <2>5, <2>6
<1>3. CASE Drop(t)
  <2>1. late' = [late EXCEPT ![t] = None] /\ UNCHANGED <<now, passVars, tables, view, sums, rows, abandoned, unsettled>>
    BY <1>3 DEF Drop
  <2>2. None \in [Slots -> Nat] /\ \A h \in Slots : None[h] = 0
    BY DEF None
  <2>3. late' \in [TierTables -> [Slots -> Nat]] /\ \A u \in TierTables : late'[u] = late[u] \/ late'[u] = None
    BY <1>1, <2>1, <2>2
  <2>4. ASSUME NEW u \in TierTables, NEW h \in Slots
        PROVE  rows'[u][h] + late'[u][h] <= rows[u][h] + late[u][h] /\ late'[u][h] <= late[u][h]
    <3>1. rows'[u][h] = rows[u][h] /\ rows[u][h] \in Nat /\ late[u][h] \in Nat
      BY <1>1, <2>1
    <3>2. late'[u][h] = late[u][h] \/ late'[u][h] = 0
      BY <2>2, <2>3
    <3>3. QED
      BY <3>1, <3>2
  <2>5. QED
    BY <1>1, <2>1, <2>3, <2>4
<1>4. QED
  BY <1>2, <1>3

\* Types, and the tier at which the pass is between its loops.
LEMMA ControlStep == TypeOK /\ AtFirst /\ [Next]_vars => TypeOK' /\ AtFirst'
<1> SUFFICES ASSUME TypeOK, AtFirst, [Next]_vars  PROVE TypeOK' /\ AtFirst'
  OBVIOUS
<1>0. /\ config \in Configs /\ at \in DOMAIN config /\ 1 \in DOMAIN config
      /\ at \in Nat /\ Len(config) \in Nat \ {0} /\ DOMAIN config = 1..Len(config)
      /\ Tier.name \in Names /\ Tier.table \in TierTables /\ Tier.after \in Nat
      /\ Definition(config, at) \in Definitions
      /\ now \in Nat
  BY TierIs, ConfigIs DEF TypeOK
<1>00. now - Span(Tier.after) \in Int
  <2>1. Span(Tier.after) \in Nat
    BY <1>0, SpanIs
  <2>2. QED
    BY <1>0, <2>1
<1> USE DEF TypeOK, AtFirst, Phases
<1>1. CASE Begin \/ Applied
  BY <1>0, <1>1 DEF Begin, Applied, Goto, dbVars, tierVars
<1>2. CASE EnsureChecksumTable
  BY <1>0, <1>2 DEF EnsureChecksumTable, Goto, Abort, tierVars
<1>3. CASE EnsureTierTable
  BY <1>0, <1>3 DEF EnsureTierTable, Loop, Abort, tierVars
<1>4. CASE ApplyTTLs
  BY <1>0, <1>4 DEF ApplyTTLs, Goto, Abort, dbVars, tierVars
<1>5. CASE ReadChecksum
  BY <1>0, <1>5 DEF ReadChecksum, Goto, Loop, dbVars, tierVars
<1>6. CASE DropView
  BY <1>0, <1>6 DEF DropView, Goto, tierVars
<1>7. CASE CreateView
  <2>1. /\ view' \in {view, [view EXCEPT ![Tier.name] = {Definition(config, at)}]}
        /\ pc' \in {"save", "idle"} /\ (pc' = "save" => at' = at) /\ (pc' = "idle" => at' = 1)
        /\ UNCHANGED <<now, config, chunk, end, tables, sums, rows, late, abandoned, unsettled>>
    BY <1>7 DEF CreateView, Goto, Abort, tierVars
  <2>2. view' \in [Names -> SUBSET Definitions]
    <3>1. ASSUME NEW n \in Names, NEW d \in Definitions
          PROVE  [view EXCEPT ![n] = {d}] \in [Names -> SUBSET Definitions]
      OBVIOUS
    <3>2. QED
      BY <1>0, <2>1, <3>1
  <2>3. QED
    BY <1>0, <2>1, <2>2
<1>8. CASE SaveChecksum
  BY <1>0, <1>8 DEF SaveChecksum, Loop, Abort, tierVars
<1>9. CASE CountRows
  BY <1>0, <1>9 DEF CountRows, NextBackfill, Goto, Loop, Abort, dbVars, tierVars
<1>10. CASE FindRange
  <2>1. ASSUME RawNow # {}
        PROVE  Min(RawNow) \in Nat /\ Min({now - Span(Tier.after), Max(RawNow)}) \in Int
    <3>1. RawNow \in SUBSET Slots
      BY DownsamplerAssumption DEF RawNow
    <3>2. Min(RawNow) \in Slots /\ Max(RawNow) \in Slots
      BY <2>1, <3>1, FirstAndLast
    <3>3. now - Span(Tier.after) \in Int
      BY <1>00
    <3>4. Slots \subseteq Nat /\ Slots \subseteq Int
      BY DEF Slots
    <3>5. Min({now - Span(Tier.after), Max(RawNow)}) \in {now - Span(Tier.after), Max(RawNow)}
      BY <3>2, <3>3, <3>4, EarlierOf
    <3>6. QED
      BY <3>2, <3>3, <3>4, <3>5
  <2>2. chunk' \in Nat /\ end' \in Int
    BY <2>1, <1>10 DEF FindRange
  <2>3. UNCHANGED <<now, config, tables, view, sums, rows, late, abandoned, unsettled>>
    BY <1>10 DEF FindRange, dbVars, tierVars
  <2>4. pc' \in {"chunk", "count", "applied", "idle"} /\ at' \in DOMAIN config /\ AtFirst'
    BY <1>0, <1>10 DEF FindRange, NextBackfill, Goto, Loop, Abort
  <2>5. QED
    BY <2>2, <2>3, <2>4
<1>11. CASE BackfillChunk
  <2>1. /\ UNCHANGED <<now, config, end, tables, view, sums, unsettled>> /\ chunk' \in Nat
        /\ pc' \in {"chunk", "idle"} /\ at' = 1
        /\ ChunkRows \in [Slots -> Nat]
        /\ Insert(Tier.table, ChunkRows) \/ Fail(Tier.table, ChunkRows)
    BY <1>11, ChunkIs
  <2>2. {rows', late', abandoned'} \subseteq [TierTables -> [Slots -> Nat]]
    BY <1>0, <2>1, InsertIs
  <2>3. QED
    BY <1>0, <2>1, <2>2
<1>12. CASE BackfillDone
  BY <1>0, <1>12 DEF BackfillDone, NextBackfill, Loop, dbVars, tierVars
<1>13. CASE BackfillTier
  <2>1. /\ UNCHANGED <<now, config, chunk, end, tables, view, sums, unsettled>>
        /\ pc' \in {"count", "applied", "idle"} /\ at' \in DOMAIN config /\ (pc' # "count" => at' = 1)
        /\ TierRows \in [Slots -> Nat]
        /\ Insert(Tier.table, TierRows) \/ Fail(Tier.table, TierRows)
    BY <1>13, FillIs
  <2>2. {rows', late', abandoned'} \subseteq [TierTables -> [Slots -> Nat]]
    BY <1>0, <2>1, InsertIs
  <2>3. QED
    BY <1>0, <2>1, <2>2
<1>14. CASE Crash
  BY <1>0, <1>14 DEF Crash, Abort, dbVars, tierVars
<1>15. ASSUME NEW c \in Configs, Reconfigure(c)  PROVE TypeOK' /\ AtFirst'
  BY <1>0, <1>15, ConfigIs DEF Reconfigure, dbVars, tierVars
<1>16. ASSUME NEW n \in Names, Refresh(n)  PROVE TypeOK' /\ AtFirst'
  <2>1. PICK d \in view[n] : rows' = [rows EXCEPT ![d.table] = Selected(d)]
    BY <1>16 DEF Refresh
  <2>2. d \in Definitions
    BY <2>1
  <2>3. Selected(d) \in [Slots -> Nat]
    BY <2>2 DEF Selected, Definitions
  <2>4. rows' \in [TierTables -> [Slots -> Nat]]
    BY <2>1, <2>3
  <2>5. UNCHANGED <<now, config, pc, at, chunk, end, tables, view, sums, late, abandoned, unsettled>>
    BY <1>16 DEF Refresh, passVars
  <2>6. QED
    BY <2>4, <2>5
<1>17. CASE Tick
  <2>1. now < MaxNow /\ now' = now + 1 /\ MaxNow \in Nat
    BY <1>17, DownsamplerAssumption DEF Tick
  <2>2. now' \in Slots
    BY <1>0, <2>1 DEF Slots
  <2>3. UNCHANGED <<config, pc, at, chunk, end, tables, view, sums, rows, late, abandoned, unsettled>>
    BY <1>17 DEF Tick, passVars, dbVars, tierVars
  <2>4. QED
    BY <2>2, <2>3
<1>18. CASE UNCHANGED vars
  BY <1>18 DEF vars
<1>19. ASSUME NEW t \in TierTables, Land(t) \/ Drop(t)  PROVE TypeOK' /\ AtFirst'
  <2>1. /\ rows' \in [TierTables -> [Slots -> Nat]] /\ late' \in [TierTables -> [Slots -> Nat]]
        /\ UNCHANGED <<now, config, pc, at, chunk, end, tables, view, sums, abandoned, unsettled>>
    BY <1>19, LateIs DEF passVars
  <2>2. QED
    BY <2>1
<1>20. QED
  BY <1>1, <1>2, <1>3, <1>4, <1>5, <1>6, <1>7, <1>8, <1>9, <1>10, <1>11, <1>12, <1>13,
     <1>14, <1>15, <1>16, <1>17, <1>18, <1>19 DEF Next, Pass

-----------------------------------------------------------------------------
(***************************************************************************)
(* Tables and views.                                                       *)
(***************************************************************************)

\* Tables are never dropped, and the loop over the tiers makes each of them.
LEMMA TablesStep == TypeOK /\ AtFirst /\ TablesMade /\ [Next]_vars => TablesMade'
<1> SUFFICES ASSUME TypeOK, AtFirst, TablesMade, [Next]_vars  PROVE TablesMade'
  OBVIOUS
<1>0. /\ at \in Nat /\ Len(config) \in Nat \ {0} /\ DOMAIN config = 1..Len(config)
      /\ at \in DOMAIN config /\ Tier = config[at]
  BY TierIs
<1> USE DEF TablesMade
<1>1. CASE EnsureChecksumTable
  BY <1>0, <1>1 DEF EnsureChecksumTable, AtFirst, Goto, Abort
<1>2. CASE EnsureTierTable
  <2>1. /\ pc = "table" /\ tables \subseteq tables' /\ UNCHANGED config
        /\ \/ pc' = "idle"
           \/ Loop("table", "ttl") /\ Tier.table \in tables'
    BY <1>2 DEF EnsureTierTable, Abort
  <2>2. CASE pc' = "idle"
    BY <2>1, <2>2
  <2>3. CASE Loop("table", "ttl") /\ Tier.table \in tables'
    <3>1. \A i \in DOMAIN config : i <= at => config[i].table \in tables'
      BY <1>0, <2>1, <2>3
    <3>2. \/ pc' = "table" /\ at' = at + 1
          \/ pc' = "ttl" /\ at = Len(config)
      <4>0. at \in 1..Len(config) /\ Len(config) \in Nat
        BY <1>0
      <4>1. at < Len(config) \/ at = Len(config)
        BY <4>0
      <4>2. QED
        BY <4>1, <2>3 DEF Loop
    <3>3. CASE pc' = "table" /\ at' = at + 1
      <4>1. \A i \in DOMAIN config : i < at + 1 => i <= at
        BY <1>0
      <4>2. QED
        BY <2>1, <3>1, <3>3, <4>1
    <3>4. CASE pc' = "ttl" /\ at = Len(config)
      <4>1. \A i \in DOMAIN config : i <= at
        BY <1>0, <3>4
      <4>2. QED
        BY <2>1, <3>1, <3>4, <4>1
    <3>5. QED
      BY <3>2, <3>3, <3>4
  <2>4. QED
    BY <2>1, <2>2, <2>3
<1>3. CASE Begin
  BY <1>3 DEF Begin, Goto, dbVars
<1>4. CASE ApplyTTLs
  BY <1>4 DEF ApplyTTLs, Goto, Abort, dbVars
<1>5. CASE ReadChecksum \/ DropView \/ CreateView \/ SaveChecksum
  BY <1>5 DEF ReadChecksum, DropView, CreateView, SaveChecksum, Goto, Loop, Abort, dbVars
<1>6. CASE CountRows \/ FindRange \/ BackfillChunk \/ BackfillDone \/ BackfillTier \/ Applied
  BY <1>6 DEF CountRows, FindRange, BackfillChunk, BackfillDone, BackfillTier, Applied,
              NextBackfill, Goto, Loop, Abort, dbVars
<1>7. CASE Crash
  BY <1>7 DEF Crash, Abort, dbVars
<1>8. ASSUME NEW c \in Configs, Reconfigure(c)  PROVE TablesMade'
  BY <1>8 DEF Reconfigure, dbVars
<1>9. ASSUME \/ \E n \in Names : Refresh(n)
             \/ \E t \in TierTables : Land(t) \/ Drop(t)
      PROVE  TablesMade'
  BY <1>9 DEF Refresh, Land, Drop, passVars
<1>10. CASE Tick
  BY <1>10 DEF Tick, passVars, dbVars
<1>11. CASE UNCHANGED vars
  BY <1>11 DEF vars
<1>12. QED
  BY <1>1, <1>2, <1>3, <1>4, <1>5, <1>6, <1>7, <1>8, <1>9, <1>10, <1>11 DEF Next, Pass

\* What the steps that replace a view have in common: the views and checksums of other
\* tiers, and what the tables hold, stay.
LEMMA ViewsStep ==
  IInv /\ [Next]_vars => Replacing' /\ ViewsConfigured' /\ ChecksumIsTrue' /\ SourcesExist'
<1> SUFFICES ASSUME IInv, [Next]_vars
             PROVE  Replacing' /\ ViewsConfigured' /\ ChecksumIsTrue' /\ SourcesExist'
  OBVIOUS
<1>0. /\ config \in Configs /\ at \in DOMAIN config /\ Tier = config[at]
      /\ Tier.name \in Names /\ Definition(config, at) \in Definitions
      /\ view \in [Names -> SUBSET Definitions] /\ sums \in [Names -> SUBSET Definitions]
      /\ unsettled \subseteq Names
  BY TierIs DEF IInv, TypeOK
<1>1. CASE UNCHANGED <<view, sums, unsettled>> /\ tables \subseteq tables'
           /\ pc' \notin {"create", "save"}
  BY <1>1 DEF IInv, Replacing, ViewsConfigured, ChecksumIsTrue, SourcesExist
<1>2. CASE DropView
  <2>1. /\ view' \in {view, [view EXCEPT ![Tier.name] = {}]}
        /\ unsettled' = unsettled \union {Tier.name}
        /\ pc' = "create" /\ UNCHANGED <<config, at, tables, sums>>
    BY <1>2 DEF DropView, Goto
  <2>2. Tier' = Tier
    BY <2>1 DEF Tier
  <2>3. \A n \in Names : view'[n] \subseteq view[n] /\ (n # Tier.name => view'[n] = view[n])
    BY <2>1, <1>0
  <2>4. Replacing'
    BY <2>1, <2>2 DEF Replacing
  <2>5. ViewsConfigured' /\ SourcesExist'
    BY <2>1, <2>3 DEF IInv, ViewsConfigured, SourcesExist
  <2>6. ChecksumIsTrue'
    BY <2>1, <2>3 DEF IInv, ChecksumIsTrue
  <2>7. QED
    BY <2>4, <2>5, <2>6
<1>3. CASE CreateView
  <2> DEFINE d == Definition(config, at)
  <2>1. /\ pc = "create" /\ UNCHANGED <<config, tables, sums, unsettled>>
        /\ \/ view' = view /\ pc' = "idle"
           \/ view' = [view EXCEPT ![Tier.name] = {d}] /\ pc' = "idle"
           \/ view' = [view EXCEPT ![Tier.name] = {d}] /\ pc' = "save" /\ at' = at
    BY <1>3 DEF CreateView, Goto, Abort
  <2>2. Tier.name \in unsettled
    BY <2>1 DEF IInv, Replacing
  <2>3. {d.table, d.source} \subseteq tables
    <3>1. d.table = config[at].table /\ d.source = Source(config, at)
      BY <1>0, DefinitionIs
    <3>2. /\ Samples \in tables
          /\ \A i \in DOMAIN config : config[i].table \in tables
      BY <2>1 DEF IInv, TablesMade
    <3>3. Source(config, at) \in tables
      BY <1>0, <3>2, DefinitionIs
    <3>4. QED
      BY <1>0, <3>1, <3>2, <3>3
  <2>4. \E c \in Configs : \E i \in DOMAIN c : d = Definition(c, i)
    BY <1>0
  <2>5. view'[Tier.name] = {d} \/ view'[Tier.name] = view[Tier.name]
    BY <1>0, <2>1
  <2>6. \A n \in Names : n # Tier.name => view'[n] = view[n]
    BY <1>0, <2>1
  <2>7. pc' = "save" => Tier' = Tier /\ Definition(config, at)' = d /\ view'[Tier.name] = {d}
    BY <1>0, <2>1 DEF Tier, Definition, Source
  <2> HIDE DEF d
  <2>8. Replacing'
    BY <2>1, <2>2, <2>7 DEF Replacing
  <2>9. ViewsConfigured'
    BY <2>4, <2>5, <2>6 DEF IInv, ViewsConfigured
  <2>10. SourcesExist'
    BY <2>1, <2>3, <2>5, <2>6 DEF IInv, SourcesExist
  <2>11. ChecksumIsTrue'
    BY <2>1, <2>2, <2>6 DEF IInv, ChecksumIsTrue
  <2>12. QED
    BY <2>8, <2>9, <2>10, <2>11
<1>4. CASE SaveChecksum
  <2>1. /\ pc = "save" /\ UNCHANGED <<config, view, tables>> /\ pc' \notin {"create", "save"}
        /\ \/ UNCHANGED <<sums, unsettled>>
           \/ /\ sums' = [sums EXCEPT ![Tier.name] = {Definition(config, at)}]
              /\ unsettled' = unsettled \ {Tier.name}
    BY <1>4 DEF SaveChecksum, Loop, Abort
  <2>2. view[Tier.name] = {Definition(config, at)}
    BY <2>1 DEF IInv, Replacing
  <2>3. Replacing' /\ ViewsConfigured' /\ SourcesExist'
    BY <2>1 DEF IInv, Replacing, ViewsConfigured, SourcesExist
  <2>4. ASSUME NEW n \in Names  PROVE n \in unsettled' \/ sums'[n] = view'[n]
    BY <1>0, <2>1, <2>2 DEF IInv, ChecksumIsTrue
  <2>5. QED
    BY <2>3, <2>4 DEF ChecksumIsTrue
<1>5. CASE UNCHANGED <<config, pc, at, tables, view, sums, unsettled>>
  <2>1. Tier' = Tier /\ Definition(config, at)' = Definition(config, at)
    BY <1>5 DEF Tier, Definition, Source
  <2>2. Replacing'
    BY <1>5, <2>1 DEF IInv, Replacing
  <2>3. QED
    BY <1>5, <2>2 DEF IInv, ViewsConfigured, ChecksumIsTrue, SourcesExist
<1>6. ASSUME Begin \/ EnsureChecksumTable \/ EnsureTierTable \/ ApplyTTLs \/ ReadChecksum
             \/ CountRows \/ FindRange \/ BackfillChunk \/ BackfillDone \/ BackfillTier
             \/ Applied \/ Crash \/ \E c \in Configs : Reconfigure(c)
      PROVE  UNCHANGED <<view, sums, unsettled>> /\ tables \subseteq tables'
             /\ pc' \notin {"create", "save"}
  <2> USE DEF Goto, Loop, Abort, NextBackfill, dbVars
  <2>1. CASE Begin \/ EnsureChecksumTable \/ EnsureTierTable \/ ApplyTTLs \/ ReadChecksum
    BY <2>1 DEF Begin, EnsureChecksumTable, EnsureTierTable, ApplyTTLs, ReadChecksum
  <2>2. CASE CountRows \/ FindRange \/ BackfillChunk \/ BackfillDone \/ BackfillTier
    BY <2>2 DEF CountRows, FindRange, BackfillChunk, BackfillDone, BackfillTier
  <2>3. CASE Applied \/ Crash \/ \E c \in Configs : Reconfigure(c)
    BY <2>3 DEF Applied, Crash, Reconfigure
  <2>4. QED
    BY <1>6, <2>1, <2>2, <2>3
<1>7. ASSUME \/ Tick \/ UNCHANGED vars \/ \E n \in Names : Refresh(n)
             \/ \E t \in TierTables : Land(t) \/ Drop(t)
      PROVE  UNCHANGED <<config, pc, at, tables, view, sums, unsettled>>
  BY <1>7 DEF Tick, Refresh, Land, Drop, vars, passVars, dbVars
<1>8. QED
  BY <1>1, <1>2, <1>3, <1>4, <1>5, <1>6, <1>7 DEF Next, Pass

-----------------------------------------------------------------------------
(***************************************************************************)
(* Theorems about the control.                                             *)
(***************************************************************************)

\* The inductive invariant holds in every state a pass, a crash, a change of the
\* configuration, a refresh or an INSERT that was given up on can reach.
THEOREM Invariance == Spec => []IInv
<1>1. Init => IInv
  BY InitInv
<1>2. IInv /\ [Next]_vars => IInv'
  <2>1. IInv /\ [Next]_vars => TypeOK' /\ AtFirst' /\ TablesMade'
    BY ControlStep, TablesStep DEF IInv
  <2>2. QED
    BY <2>1, ViewsStep DEF IInv
<1>3. QED
  BY <1>1, <1>2, PTL DEF Spec

\* The loops of a pass stay within the tiers of its configuration.
THEOREM TypeCorrect == Spec => []TypeOK
<1>1. IInv => TypeOK
  BY DEF IInv
<1>2. QED
  BY <1>1, Invariance, PTL

\* The checksum on record is that of the installed view, except between the view's drop
\* and the next recorded checksum: for any configurations, and whatever statement fails.
THEOREM ChecksumIsTrueHolds == Spec => []ChecksumIsTrue
<1>1. IInv => ChecksumIsTrue
  BY DEF IInv
<1>2. QED
  BY <1>1, Invariance, PTL

\* A view is installed only over tables that exist, those of earlier configurations too.
THEOREM SourcesExistHolds == Spec => []SourcesExist
<1>1. IInv => SourcesExist
  BY DEF IInv
<1>2. QED
  BY <1>1, Invariance, PTL

-----------------------------------------------------------------------------
(***************************************************************************)
(* Old hours only.                                                         *)
(***************************************************************************)

\* A bucket of a tier is made of whole buckets of the tier before it.
BucketsNest ==
  \A c \in Configs : \A i \in DOMAIN c :
    i # 1 => Resolution[c[i].table] % Resolution[c[i - 1].table] = 0

\* Slots beyond the reach of a tier: complete when the tier took them in.
Old(t, h) == \E u \in AllTiers : u.table = t /\ h < now - Span(u.after)

\* The backfill under way ends at compact_after before now.
EndIsOld == pc = "chunk" => end <= now - Span(Tier.after)

\* What a tier holds, and what INSERTs that were given up on will put in, is old.
HeldIsOld ==
  \A t \in TierTables : \A h \in Slots : rows[t][h] + late[t][h] > 0 => Old(t, h)

OldInv == IInv /\ EndIsOld /\ HeldIsOld

\* Whole buckets before the bucket of a time hold nothing younger than that time.
LEMMA BeforeIsOld ==
  ASSUME BucketsNest, now \in Nat, NEW c \in Configs, NEW i \in DOMAIN c, i # 1, NEW n \in Nat,
         NEW h \in Before(c[i - 1].table, c[i].table, n)
  PROVE  h < now - Span(n)
<1> DEFINE v == Resolution[c[i].table]
           w == Resolution[c[i - 1].table]
<1>1. i - 1 \in DOMAIN c /\ c[i].table \in TierTables /\ c[i - 1].table \in TierTables
  BY ConfigIs, DefinitionIs
<1>2. v \in Nat \ {0} /\ w \in Nat \ {0}
  BY <1>1, DownsamplerAssumption
<1>3. v % w = 0
  BY DEF BucketsNest
<1>4. h \in Nat /\ BucketOf(h, w) < BucketOf(now - Span(n), v)
  BY DEF Before, Slots
<1> HIDE DEF v, w
<1>5. now - Span(n) \in Int
  BY SpanIs
<1>6. QED
  BY <1>2, <1>3, <1>4, <1>5, EarlierBucket

\* Backfills and refreshes take in old slots only, and slots only grow older.
LEMMA OldStep ==
  ASSUME BucketsNest, OldInv, [Next]_vars
  PROVE  EndIsOld' /\ HeldIsOld'
<1>0. /\ config \in Configs /\ at \in DOMAIN config /\ Tier \in AllTiers /\ Tier = config[at]
      /\ Tier.table \in TierTables /\ Tier.after \in Nat
      /\ now \in Nat /\ end \in Int /\ chunk \in Nat
      /\ rows \in [TierTables -> [Slots -> Nat]] /\ late \in [TierTables -> [Slots -> Nat]]
      /\ view \in [Names -> SUBSET Definitions]
      /\ Slots \subseteq Nat /\ TypeOK /\ AtFirst /\ Span(Tier.after) \in Nat
  <2>1. TypeOK /\ AtFirst /\ Slots \subseteq Nat
    BY DEF OldInv, IInv, Slots
  <2>2. Span(Tier.after) \in Nat
    BY <2>1, TierIs, SpanIs
  <2>3. QED
    BY <2>1, <2>2, TierIs DEF TypeOK
<1>1. \A t \in TierTables : \A h \in Slots : rows[t][h] + late[t][h] > 0 => Old(t, h)
  BY DEF OldInv, HeldIsOld
<1>2. \A t \in TierTables : \A h \in Slots : rows[t][h] > 0 => Old(t, h)
  <2>1. ASSUME NEW t \in TierTables, NEW h \in Slots, rows[t][h] > 0  PROVE rows[t][h] + late[t][h] > 0
    <3>1. rows[t][h] \in Nat /\ late[t][h] \in Nat
      BY <1>0
    <3>2. QED
      BY <2>1, <3>1
  <2>2. QED
    BY <1>1, <2>1
<1>3. ASSUME now' = now,
             \A t \in TierTables : \A h \in Slots : rows'[t][h] + late'[t][h] > 0 => Old(t, h)
      PROVE  HeldIsOld'
  BY <1>3 DEF HeldIsOld, Old
<1>4. ASSUME now' = now, NEW f \in [Slots -> Nat], Insert(Tier.table, f) \/ Fail(Tier.table, f),
             \A h \in Slots : f[h] > 0 => Old(Tier.table, h)
      PROVE  HeldIsOld'
  <2>1. ASSUME NEW t \in TierTables, NEW h \in Slots, rows'[t][h] + late'[t][h] > 0  PROVE Old(t, h)
    <3>1. CASE t # Tier.table
      <4>1. rows'[t] = rows[t] /\ late'[t] = late[t]
        BY <1>0, <1>4, <3>1, InsertIs
      <4>2. QED
        BY <1>1, <2>1, <4>1
    <3>2. CASE t = Tier.table
      <4>1. /\ rows'[t][h] + late'[t][h] <= rows[t][h] + late[t][h] + f[h]
            /\ {rows', late'} \subseteq [TierTables -> [Slots -> Nat]]
        BY <1>0, <1>4, <3>2, InsertIs
      <4>2. rows'[t][h] \in Nat /\ late'[t][h] \in Nat /\ rows[t][h] \in Nat /\ late[t][h] \in Nat /\ f[h] \in Nat
        BY <1>0, <4>1
      <4>3. rows[t][h] + late[t][h] > 0 \/ f[h] > 0
        BY <2>1, <4>1, <4>2
      <4>4. QED
        BY <1>1, <1>4, <3>2, <4>3
    <3>3. QED
      BY <3>1, <3>2
  <2>2. QED
    BY <1>3, <1>4, <2>1
<1>5. CASE FindRange
  <2>1. UNCHANGED <<now, rows, late, config>>
    BY <1>5 DEF FindRange, dbVars, tierVars
  <2>2. ASSUME pc' = "chunk"  PROVE end' <= now' - Span(Tier.after)'
    <3>1. RawNow # {} /\ end' = Min({now - Span(Tier.after), Max(RawNow)}) /\ at' = at
      BY <1>5, <2>2 DEF FindRange, Goto, NextBackfill, Loop, Abort
    <3>2. RawNow \in SUBSET Slots
      BY DownsamplerAssumption DEF RawNow
    <3>3. Max(RawNow) \in Slots
      BY <3>1, <3>2, FirstAndLast
    <3>4. Max(RawNow) \in Int /\ now - Span(Tier.after) \in Int
      BY <1>0, <3>3 DEF Slots
    <3>5. end' <= now - Span(Tier.after)
      BY <3>1, <3>4, EarlierOf
    <3>6. Span(Tier.after)' = Span(Tier.after)
      BY <2>1, <3>1 DEF Tier, Span
    <3>7. QED
      BY <2>1, <3>5, <3>6
  <2>3. QED
    BY <1>1, <1>3, <2>1, <2>2 DEF EndIsOld
<1>6. CASE BackfillChunk
  <2>1. /\ pc = "chunk" /\ UNCHANGED <<now, config, end>> /\ at' = at
        /\ ChunkRows \in [Slots -> Nat]
        /\ Insert(Tier.table, ChunkRows) \/ Fail(Tier.table, ChunkRows)
        /\ ChunkTo \in Nat /\ ChunkTo <= end
        /\ \A h \in Slots : ChunkRows[h] > 0 => h < ChunkTo
    BY <1>0, <1>6, ChunkIs
  <2>2. end <= now - Span(Tier.after)
    BY <2>1 DEF OldInv, EndIsOld
  <2>3. EndIsOld'
    BY <2>1, <2>2 DEF EndIsOld, Tier, Span
  <2>4. ASSUME NEW h \in Slots, ChunkRows[h] > 0  PROVE Old(Tier.table, h)
    <3>1. h < ChunkTo /\ h \in Nat
      BY <1>0, <2>1, <2>4
    <3>2. h < now - Span(Tier.after)
      BY <1>0, <2>1, <2>2, <3>1
    <3>3. QED
      BY <1>0, <3>2 DEF Old
  <2>5. HeldIsOld'
    BY <1>4, <2>1, <2>4
  <2>6. QED
    BY <2>3, <2>5
<1>7. CASE BackfillTier
  <2>1. /\ pc' # "chunk" /\ UNCHANGED now /\ at # 1
        /\ TierRows \in [Slots -> Nat]
        /\ Insert(Tier.table, TierRows) \/ Fail(Tier.table, TierRows)
        /\ \A h \in Slots : TierRows[h] > 0 =>
             h \in Before(config[at - 1].table, config[at].table, config[at].after)
    BY <1>0, <1>7, FillIs
  <2>2. ASSUME NEW h \in Slots, TierRows[h] > 0  PROVE Old(Tier.table, h)
    <3>1. h < now - Span(Tier.after)
      BY <1>0, <2>1, <2>2, BeforeIsOld
    <3>2. QED
      BY <1>0, <3>1 DEF Old
  <2>3. HeldIsOld'
    BY <1>4, <2>1, <2>2
  <2>4. QED
    BY <2>1, <2>3 DEF EndIsOld
<1>8. ASSUME NEW n \in Names, Refresh(n)  PROVE EndIsOld' /\ HeldIsOld'
  <2>1. PICK d \in view[n] : rows' = [rows EXCEPT ![d.table] = Selected(d)]
    BY <1>8 DEF Refresh
  <2>2. PICK c \in Configs : \E i \in DOMAIN c : d = Definition(c, i)
    BY <2>1 DEF OldInv, IInv, ViewsConfigured
  <2>3. PICK i \in DOMAIN c : d = Definition(c, i)
    BY <2>2
  <2>4. /\ c[i] \in AllTiers /\ c[i].table = d.table /\ c[i].after = d.after /\ d.table \in TierTables
        /\ d.after \in Nat
    BY <2>3, ConfigIs, DefinitionIs
  <2>5. ASSUME NEW h \in Slots, Selected(d)[h] > 0  PROVE h < now - Span(d.after)
    <3>1. CASE d.source = Samples
      <4>1. h \in RawWindow(d.after)
        BY <2>5, <3>1 DEF Selected
      <4>2. QED
        BY <4>1 DEF RawWindow
    <3>2. CASE d.source # Samples
      <4>1. h \in TierWindow(d.source, d.table, d.after)
        BY <2>5, <3>2 DEF Selected
      <4>2. i # 1 /\ d.source = c[i - 1].table
        BY <2>3, <3>2, DefinitionIs
      <4>3. h \in Before(c[i - 1].table, c[i].table, d.after)
        BY <2>4, <4>1, <4>2 DEF TierWindow
      <4>4. QED
        BY <1>0, <2>4, <4>2, <4>3, BeforeIsOld
    <3>3. QED
      BY <3>1, <3>2
  <2>6. UNCHANGED <<now, config, pc, at, chunk, end, late>>
    BY <1>8 DEF Refresh, passVars
  <2>7. Selected(d) \in [Slots -> Nat]
    BY <1>0, <2>1 DEF Selected, Definitions
  <2>8. ASSUME NEW t \in TierTables, NEW h \in Slots, rows'[t][h] + late'[t][h] > 0  PROVE Old(t, h)
    <3>1. CASE t = d.table
      <4>1. rows'[t][h] = Selected(d)[h] /\ late'[t][h] = late[t][h]
        BY <1>0, <2>1, <2>6, <3>1
      <4>2. Selected(d)[h] \in Nat /\ late[t][h] \in Nat /\ rows[t][h] \in Nat
        BY <1>0, <2>7
      <4>3. Selected(d)[h] > 0 \/ rows[t][h] + late[t][h] > 0
        BY <2>8, <4>1, <4>2
      <4>4. CASE Selected(d)[h] > 0
        BY <2>4, <2>5, <3>1, <4>4 DEF Old
      <4>5. QED
        BY <1>1, <4>3, <4>4
    <3>2. CASE t # d.table
      <4>1. rows'[t] = rows[t] /\ late'[t] = late[t]
        BY <1>0, <2>1, <2>6, <3>2
      <4>2. QED
        BY <1>1, <2>8, <4>1
    <3>3. QED
      BY <3>1, <3>2
  <2>9. EndIsOld'
    BY <2>6 DEF OldInv, EndIsOld, Tier, Span
  <2>10. QED
    BY <1>3, <2>6, <2>8, <2>9
<1>9. ASSUME NEW t \in TierTables, Land(t) \/ Drop(t)  PROVE EndIsOld' /\ HeldIsOld'
  <2>1. /\ rows' \in [TierTables -> [Slots -> Nat]] /\ late' \in [TierTables -> [Slots -> Nat]]
        /\ UNCHANGED <<now, config, pc, at, chunk, end>>
        /\ \A u \in TierTables : \A h \in Slots : rows'[u][h] + late'[u][h] <= rows[u][h] + late[u][h]
    BY <1>0, <1>9, LateIs DEF passVars
  <2>2. ASSUME NEW u \in TierTables, NEW h \in Slots, rows'[u][h] + late'[u][h] > 0  PROVE Old(u, h)
    <3>1. rows'[u][h] \in Nat /\ late'[u][h] \in Nat /\ rows[u][h] \in Nat /\ late[u][h] \in Nat
      BY <1>0, <2>1
    <3>2. rows[u][h] + late[u][h] > 0
      BY <2>1, <2>2, <3>1
    <3>3. QED
      BY <1>1, <3>2
  <2>3. EndIsOld'
    BY <2>1 DEF OldInv, EndIsOld, Tier, Span
  <2>4. QED
    BY <1>3, <2>1, <2>2, <2>3
<1>10. CASE Tick
  <2>1. now' = now + 1 /\ UNCHANGED <<rows, late, config, pc, at, end>>
    BY <1>10 DEF Tick, passVars, dbVars, tierVars
  <2>2. Tier' = Tier
    BY <2>1 DEF Tier
  <2>3. EndIsOld'
    <3>1. ASSUME pc = "chunk"  PROVE end <= now + 1 - Span(Tier.after)
      <4>1. end <= now - Span(Tier.after)
        BY <3>1 DEF OldInv, EndIsOld
      <4>2. QED
        BY <4>1, <1>0
    <3>2. Span(Tier.after)' = Span(Tier.after)
      BY <2>2 DEF Span
    <3>3. ASSUME pc' = "chunk"  PROVE end' <= now' - Span(Tier.after)
      <4>1. pc = "chunk" /\ end' = end /\ now' = now + 1
        BY <2>1, <3>3
      <4>2. end <= now + 1 - Span(Tier.after)
        BY <3>1, <4>1
      <4>3. QED
        BY <1>0, <4>1, <4>2
    <3>4. QED
      BY <3>2, <3>3 DEF EndIsOld
  <2>4. ASSUME NEW t \in TierTables, NEW h \in Slots, Old(t, h)
        PROVE  \E u \in AllTiers : u.table = t /\ h < now' - Span(u.after)
    <3>1. PICK u \in AllTiers : u.table = t /\ h < now - Span(u.after)
      BY <2>4 DEF Old
    <3>2. Span(u.after) \in Nat /\ h \in Nat
      <4>1. u.after \in Nat
        BY ConfigIs DEF AllTiers, Range
      <4>2. QED
        BY <1>0, <4>1, SpanIs
    <3>3. h < now' - Span(u.after)
      BY <1>0, <2>1, <3>1, <3>2
    <3>4. QED
      BY <3>1, <3>3
  <2>5. HeldIsOld'
    BY <1>1, <2>1, <2>4 DEF HeldIsOld, Old, Span
  <2>6. QED
    BY <2>3, <2>5
<1>11. ASSUME UNCHANGED <<now, rows, late>>, pc' # "chunk" \/ UNCHANGED <<config, pc, at, end>>
       PROVE  EndIsOld' /\ HeldIsOld'
  <2>1. EndIsOld'
    BY <1>11 DEF OldInv, EndIsOld, Tier, Span
  <2>2. QED
    BY <1>1, <1>3, <1>11, <2>1
<1>12. ASSUME Begin \/ EnsureChecksumTable \/ EnsureTierTable \/ ApplyTTLs \/ ReadChecksum
              \/ DropView \/ CreateView \/ SaveChecksum \/ CountRows \/ BackfillDone
              \/ Applied \/ Crash \/ (\E c \in Configs : Reconfigure(c)) \/ UNCHANGED vars
       PROVE  UNCHANGED <<now, rows, late>> /\ (pc' # "chunk" \/ UNCHANGED <<config, pc, at, end>>)
  <2> USE DEF Goto, Loop, Abort, NextBackfill, dbVars, tierVars
  <2>1. CASE Begin \/ EnsureChecksumTable \/ EnsureTierTable \/ ApplyTTLs \/ ReadChecksum
    BY <2>1 DEF Begin, EnsureChecksumTable, EnsureTierTable, ApplyTTLs, ReadChecksum
  <2>2. CASE DropView \/ CreateView \/ SaveChecksum \/ CountRows \/ BackfillDone
    BY <2>2 DEF DropView, CreateView, SaveChecksum, CountRows, BackfillDone
  <2>3. CASE Applied \/ Crash \/ (\E c \in Configs : Reconfigure(c)) \/ UNCHANGED vars
    BY <2>3 DEF Applied, Crash, Reconfigure, vars
  <2>4. QED
    BY <1>12, <2>1, <2>2, <2>3
<1>13. QED
  BY <1>5, <1>6, <1>7, <1>8, <1>9, <1>10, <1>11, <1>12 DEF Next, Pass

\* Neither a backfill, nor a refresh, nor an INSERT that ends late puts an hour into a tier
\* before it is old enough, when the tiers' buckets nest.
THEOREM OnlyOldHoursHolds ==
  ASSUME BucketsNest
  PROVE  Spec => []OnlyOldHours
<1>1. Init => EndIsOld /\ HeldIsOld
  <2>1. ASSUME Init, NEW t \in TierTables, NEW h \in Slots  PROVE rows[t][h] = 0 /\ late[t][h] = 0
    BY <2>1 DEF Init, None
  <2>2. Init => EndIsOld
    BY DEF Init, EndIsOld
  <2>3. QED
    BY <2>1, <2>2 DEF HeldIsOld
<1>2. IInv /\ EndIsOld /\ HeldIsOld /\ [Next]_vars => EndIsOld' /\ HeldIsOld'
  BY OldStep DEF OldInv
<1>3. IInv /\ HeldIsOld => OnlyOldHours
  <2>1. ASSUME IInv, HeldIsOld, NEW t \in TierTables, NEW h \in Slots, rows[t][h] > 0
        PROVE  \E u \in AllTiers : u.table = t /\ h < now - Span(u.after)
    <3>1. rows[t][h] \in Nat /\ late[t][h] \in Nat
      BY <2>1 DEF IInv, TypeOK
    <3>2. rows[t][h] + late[t][h] > 0
      BY <2>1, <3>1
    <3>3. QED
      BY <2>1, <3>2 DEF HeldIsOld, Old
  <2>2. QED
    BY <2>1 DEF OnlyOldHours
<1>4. QED
  BY <1>1, <1>2, <1>3, Invariance, PTL DEF Spec

-----------------------------------------------------------------------------
(***************************************************************************)
(* Backfilled once.                                                        *)
(***************************************************************************)

\* No configuration's later tier writes to the table of a first tier.
TablesApart ==
  \A c, e \in Configs : \A i \in DOMAIN e : i # 1 => e[i].table # c[1].table

\* Of what a first tier holds, or will, all but one copy comes from INSERTs given up on.
Counted ==
  \A c \in Configs : \A h \in Slots :
    LET t == c[1].table IN
      /\ late[t][h] <= abandoned[t][h]
      /\ rows[t][h] + late[t][h] <= 1 + abandoned[t][h]

\* From the count on, a backfill has ahead of it only what such INSERTs put there: the
\* view of a first tier, which selects nothing, can be refreshed meanwhile.
FreshAhead ==
  /\ pc = "range" =>
       \A h \in Slots : rows[Tier.table][h] + late[Tier.table][h] <= abandoned[Tier.table][h]
  /\ pc = "chunk" =>
       \A h \in Slots : h >= chunk =>
         rows[Tier.table][h] + late[Tier.table][h] <= abandoned[Tier.table][h]

OnceInv == IInv /\ Counted /\ FreshAhead

\* No step puts a sample into a first tier for the second time without an INSERT of it
\* that was given up on.
LEMMA OnceStep ==
  ASSUME TablesApart, OnceInv, [Next]_vars
  PROVE  Counted' /\ FreshAhead'
<1>0. /\ config \in Configs /\ at \in DOMAIN config /\ Tier = config[at]
      /\ Tier.table \in TierTables /\ now \in Nat /\ chunk \in Nat
      /\ rows \in [TierTables -> [Slots -> Nat]] /\ late \in [TierTables -> [Slots -> Nat]]
      /\ abandoned \in [TierTables -> [Slots -> Nat]]
      /\ Slots \subseteq Nat /\ TypeOK /\ AtFirst
      /\ (pc \in {"range", "chunk"} => at = 1)
  BY TierIs DEF OnceInv, IInv, TypeOK, AtFirst, Slots
<1>1. \A c \in Configs : /\ c[1].table \in TierTables
                         /\ \A h \in Slots :
                              /\ late[c[1].table][h] <= abandoned[c[1].table][h]
                              /\ rows[c[1].table][h] + late[c[1].table][h] <= 1 + abandoned[c[1].table][h]
  BY ConfigIs DEF OnceInv, Counted
<1>2. CASE CountRows
  <2>1. UNCHANGED <<rows, late, abandoned, config>> /\ pc' # "chunk"
    BY <1>2 DEF CountRows, NextBackfill, Goto, Loop, Abort, dbVars, tierVars
  <2>2. pc' = "range" => at' = at /\ at = 1 /\ Empty(Tier.table)
    BY <1>2 DEF CountRows, NextBackfill, Goto, Loop, Abort
  <2>3. ASSUME at = 1, Empty(Tier.table), NEW h \in Slots
        PROVE  rows[Tier.table][h] + late[Tier.table][h] <= abandoned[Tier.table][h]
    <3>1. rows[Tier.table][h] \in Nat /\ late[Tier.table][h] \in Nat /\ abandoned[Tier.table][h] \in Nat
      BY <1>0
    <3>2. ~(rows[Tier.table][h] > 0)
      BY <2>3 DEF Empty, Held
    <3>3. late[Tier.table][h] <= abandoned[Tier.table][h]
      BY <1>0, <1>1, <2>3
    <3>4. QED
      BY <3>1, <3>2, <3>3
  <2>4. FreshAhead'
    BY <2>1, <2>2, <2>3 DEF FreshAhead, Tier
  <2>5. QED
    BY <2>1, <2>4 DEF OnceInv, Counted
<1>3. CASE FindRange
  <2>1. /\ pc = "range" /\ UNCHANGED <<rows, late, abandoned, config>>
        /\ pc' # "range" /\ (pc' = "chunk" => at' = at)
    BY <1>3 DEF FindRange, NextBackfill, Goto, Loop, Abort, dbVars, tierVars
  <2>2. FreshAhead'
    BY <2>1 DEF OnceInv, FreshAhead, Tier
  <2>3. QED
    BY <2>1, <2>2 DEF OnceInv, Counted
<1>4. CASE BackfillChunk
  <2> DEFINE t == Tier.table
  <2>1. /\ pc = "chunk" /\ UNCHANGED config /\ chunk' = ChunkTo /\ ChunkTo \in Nat /\ chunk <= ChunkTo
        /\ pc' # "range" /\ at' = at /\ at = 1
        /\ ChunkRows \in [Slots -> Nat]
        /\ Insert(t, ChunkRows) \/ Fail(t, ChunkRows)
        /\ \A h \in Slots : /\ ChunkRows[h] \in {0, 1}
                            /\ ChunkRows[h] > 0 => chunk <= h /\ h < ChunkTo
    BY <1>0, <1>4, ChunkIs
  <2>2. \A h \in Slots : h >= chunk => rows[t][h] + late[t][h] <= abandoned[t][h]
    BY <2>1 DEF OnceInv, FreshAhead
  <2>3. /\ {rows', late', abandoned'} \subseteq [TierTables -> [Slots -> Nat]]
        /\ \A u \in TierTables \ {t} :
             rows'[u] = rows[u] /\ late'[u] = late[u] /\ abandoned'[u] = abandoned[u]
        /\ \A h \in Slots :
             /\ rows'[t][h] + late'[t][h] <= rows[t][h] + late[t][h] + ChunkRows[h]
             /\ abandoned'[t][h] >= abandoned[t][h]
             /\ ChunkRows[h] <= 1 => late'[t][h] + abandoned[t][h] <= late[t][h] + abandoned'[t][h]
    BY <1>0, <2>1, InsertIs
  <2>4. t = config[1].table /\ t \in TierTables
    BY <1>0, <2>1
  <2> HIDE DEF t
  <2>5. ASSUME NEW h \in Slots
        PROVE  /\ late'[t][h] <= abandoned'[t][h]
               /\ rows'[t][h] + late'[t][h] <= 1 + abandoned'[t][h]
               /\ h >= ChunkTo => rows'[t][h] + late'[t][h] <= abandoned'[t][h]
    <3>1. /\ rows[t][h] \in Nat /\ late[t][h] \in Nat /\ abandoned[t][h] \in Nat
          /\ rows'[t][h] \in Nat /\ late'[t][h] \in Nat /\ abandoned'[t][h] \in Nat
          /\ h \in Nat /\ ChunkTo \in Nat /\ chunk \in Nat
      BY <1>0, <2>1, <2>3, <2>4
    <3>2. ChunkRows[h] \in {0, 1} /\ (ChunkRows[h] > 0 => chunk <= h /\ h < ChunkTo)
      BY <2>1
    <3>3. late[t][h] <= abandoned[t][h] /\ rows[t][h] + late[t][h] <= 1 + abandoned[t][h]
      BY <1>0, <1>1, <2>4
    <3>4. CASE ChunkRows[h] = 0
      <4>1. h >= ChunkTo => rows[t][h] + late[t][h] <= abandoned[t][h]
        <5>1. h >= ChunkTo => h >= chunk
          BY <2>1, <3>1
        <5>2. QED
          BY <2>2, <5>1
      <4>2. /\ rows'[t][h] + late'[t][h] <= rows[t][h] + late[t][h]
            /\ abandoned'[t][h] >= abandoned[t][h]
            /\ late'[t][h] + abandoned[t][h] <= late[t][h] + abandoned'[t][h]
        BY <2>3, <3>1, <3>4
      <4>3. QED
        BY <3>1, <3>3, <4>1, <4>2
    <3>5. CASE ChunkRows[h] = 1
      <4>1. h >= chunk /\ ~(h >= ChunkTo)
        BY <3>1, <3>2, <3>5
      <4>2. rows[t][h] + late[t][h] <= abandoned[t][h]
        BY <2>2, <4>1
      <4>3. /\ rows'[t][h] + late'[t][h] <= rows[t][h] + late[t][h] + 1
            /\ abandoned'[t][h] >= abandoned[t][h]
            /\ late'[t][h] + abandoned[t][h] <= late[t][h] + abandoned'[t][h]
        BY <2>3, <3>5
      <4>4. QED
        BY <3>1, <3>3, <4>1, <4>2, <4>3
    <3>6. QED
      BY <3>2, <3>4, <3>5
  <2>6. ASSUME NEW c \in Configs, NEW h \in Slots
        PROVE  /\ late'[c[1].table][h] <= abandoned'[c[1].table][h]
               /\ rows'[c[1].table][h] + late'[c[1].table][h] <= 1 + abandoned'[c[1].table][h]
    <3>1. CASE c[1].table = t
      BY <2>5, <3>1
    <3>2. CASE c[1].table # t
      BY <1>1, <2>3, <3>2
    <3>3. QED
      BY <3>1, <3>2
  <2>7. Counted'
    BY <2>6 DEF Counted
  <2>8. FreshAhead'
    BY <2>1, <2>5 DEF FreshAhead, Tier, t
  <2>9. QED
    BY <2>7, <2>8
<1>5. CASE BackfillTier
  <2>1. /\ at # 1 /\ pc' \notin {"range", "chunk"} /\ TierRows \in [Slots -> Nat]
        /\ Insert(Tier.table, TierRows) \/ Fail(Tier.table, TierRows)
    BY <1>0, <1>5, FillIs
  <2>2. \A c \in Configs : c[1].table # Tier.table
    BY <1>0, <2>1 DEF TablesApart
  <2>3. \A c \in Configs : /\ rows'[c[1].table] = rows[c[1].table]
                           /\ late'[c[1].table] = late[c[1].table]
                           /\ abandoned'[c[1].table] = abandoned[c[1].table]
    BY <1>0, <1>1, <2>1, <2>2, InsertIs
  <2>4. Counted'
    BY <1>1, <2>3 DEF Counted
  <2>5. QED
    BY <2>1, <2>4 DEF FreshAhead
<1>6. ASSUME NEW n \in Names, Refresh(n)  PROVE Counted' /\ FreshAhead'
  <2>1. PICK d \in view[n] : rows' = [rows EXCEPT ![d.table] = Selected(d)]
    BY <1>6 DEF Refresh
  <2>2. PICK c \in Configs : \E i \in DOMAIN c : d = Definition(c, i)
    BY <2>1 DEF OnceInv, IInv, ViewsConfigured
  <2>3. PICK i \in DOMAIN c : d = Definition(c, i)
    BY <2>2
  <2>4. d.table = c[i].table /\ d.after = c[i].after /\ d.after \in Nat /\ d.table \in TierTables
    BY <2>3, ConfigIs, DefinitionIs
  <2>5. ASSUME NEW e \in Configs, NEW h \in Slots
        PROVE  rows'[e[1].table][h] = rows[e[1].table][h] \/ rows'[e[1].table][h] = 0
    <3>1. CASE e[1].table # d.table
      BY <1>0, <1>1, <2>1, <3>1
    <3>2. CASE e[1].table = d.table
      <4>1. i = 1
        BY <2>4, <3>2 DEF TablesApart
      <4>2. d.source = Samples
        BY <2>3, <4>1, DefinitionIs
      <4>3. h \notin RawWindow(d.after)
        <5>1. Span(d.after) \in Nat /\ h \in Nat
          BY <1>0, <2>4, SpanIs
        <5>2. ~(h < now - Span(d.after) /\ h >= now - Span(d.after))
          BY <1>0, <5>1
        <5>3. QED
          BY <5>2 DEF RawWindow
      <4>4. Selected(d)[h] = 0
        BY <4>2, <4>3 DEF Selected
      <4>5. QED
        BY <1>0, <2>1, <2>4, <3>2, <4>4
    <3>3. QED
      BY <3>1, <3>2
  <2>6. UNCHANGED <<config, pc, at, chunk, late, abandoned>> /\ Tier' = Tier
    BY <1>6 DEF Refresh, passVars, Tier
  <2>7. ASSUME NEW e \in Configs, NEW h \in Slots
        PROVE  /\ late'[e[1].table][h] <= abandoned'[e[1].table][h]
               /\ rows'[e[1].table][h] + late'[e[1].table][h] <= 1 + abandoned'[e[1].table][h]
               /\ rows[e[1].table][h] + late[e[1].table][h] <= abandoned[e[1].table][h]
                    => rows'[e[1].table][h] + late'[e[1].table][h] <= abandoned'[e[1].table][h]
    <3>1. /\ rows[e[1].table][h] \in Nat /\ late[e[1].table][h] \in Nat
          /\ abandoned[e[1].table][h] \in Nat
      BY <1>0, <1>1
    <3>2. QED
      BY <1>1, <2>5, <2>6, <3>1
  <2>8. Counted'
    BY <2>7 DEF Counted
  <2>9. FreshAhead'
    <3>1. pc \in {"range", "chunk"} => Tier.table = config[1].table
      BY <1>0
    <3>2. QED
      BY <1>0, <2>6, <2>7, <3>1 DEF OnceInv, FreshAhead
  <2>10. QED
    BY <2>8, <2>9
<1>7. ASSUME NEW t \in TierTables, Land(t) \/ Drop(t)  PROVE Counted' /\ FreshAhead'
  <2>1. /\ rows' \in [TierTables -> [Slots -> Nat]] /\ late' \in [TierTables -> [Slots -> Nat]]
        /\ UNCHANGED <<config, pc, at, chunk, abandoned>>
        /\ \A u \in TierTables : \A h \in Slots :
             /\ rows'[u][h] + late'[u][h] <= rows[u][h] + late[u][h]
             /\ late'[u][h] <= late[u][h]
    BY <1>0, <1>7, LateIs DEF passVars
  <2>2. Tier' = Tier
    BY <2>1 DEF Tier
  <2>3. ASSUME NEW u \in TierTables, NEW h \in Slots, NEW k \in Nat
        PROVE  /\ late[u][h] <= k => late'[u][h] <= k
               /\ rows[u][h] + late[u][h] <= k => rows'[u][h] + late'[u][h] <= k
    <3>1. rows[u][h] \in Nat /\ late[u][h] \in Nat /\ rows'[u][h] \in Nat /\ late'[u][h] \in Nat
      BY <1>0, <2>1
    <3>2. QED
      BY <2>1, <3>1
  <2>4. \A u \in TierTables : \A h \in Slots : abandoned[u][h] \in Nat /\ 1 + abandoned[u][h] \in Nat
    BY <1>0
  <2>5. Counted'
    BY <1>1, <2>1, <2>3, <2>4 DEF Counted
  <2>6. FreshAhead'
    BY <1>0, <2>1, <2>2, <2>3, <2>4 DEF OnceInv, FreshAhead
  <2>7. QED
    BY <2>5, <2>6
<1>8. ASSUME UNCHANGED <<rows, late, abandoned>>,
             pc' \notin {"range", "chunk"} \/ UNCHANGED <<config, pc, at, chunk>>
      PROVE  Counted' /\ FreshAhead'
  <2>1. FreshAhead'
    BY <1>8 DEF OnceInv, FreshAhead, Tier
  <2>2. QED
    BY <1>8, <2>1 DEF OnceInv, Counted
<1>9. ASSUME Begin \/ EnsureChecksumTable \/ EnsureTierTable \/ ApplyTTLs \/ ReadChecksum
             \/ DropView \/ CreateView \/ SaveChecksum \/ BackfillDone \/ Applied \/ Crash
             \/ (\E c \in Configs : Reconfigure(c)) \/ Tick \/ UNCHANGED vars
      PROVE  /\ UNCHANGED <<rows, late, abandoned>>
             /\ pc' \notin {"range", "chunk"} \/ UNCHANGED <<config, pc, at, chunk>>
  <2> USE DEF Goto, Loop, Abort, NextBackfill, dbVars, tierVars
  <2>1. CASE Begin \/ EnsureChecksumTable \/ EnsureTierTable \/ ApplyTTLs \/ ReadChecksum
    BY <2>1 DEF Begin, EnsureChecksumTable, EnsureTierTable, ApplyTTLs, ReadChecksum
  <2>2. CASE DropView \/ CreateView \/ SaveChecksum \/ BackfillDone \/ Applied \/ Crash
    BY <2>2 DEF DropView, CreateView, SaveChecksum, BackfillDone, Applied, Crash
  <2>3. CASE (\E c \in Configs : Reconfigure(c)) \/ Tick \/ UNCHANGED vars
    BY <2>3 DEF Reconfigure, Tick, passVars, vars
  <2>4. QED
    BY <1>9, <2>1, <2>2, <2>3
<1>10. QED
  BY <1>2, <1>3, <1>4, <1>5, <1>6, <1>7, <1>8, <1>9 DEF Next, Pass

\* A first tier holds a sample once, and once more for each INSERT of it that was given up
\* on: the count finds rows left by a backfill that failed, and one that goes on has
\* nothing ahead of it but what such INSERTs put there.
THEOREM BackfilledOnceHolds ==
  ASSUME TablesApart
  PROVE  Spec => []BackfilledOnce
<1>1. Init => Counted /\ FreshAhead
  <2>1. ASSUME Init  PROVE Counted
    <3>1. ASSUME NEW t \in TierTables, NEW h \in Slots
          PROVE  rows[t][h] = 0 /\ late[t][h] = 0 /\ abandoned[t][h] = 0
      BY <2>1 DEF Init, None
    <3>2. QED
      BY <3>1, ConfigIs DEF Counted
  <2>2. ASSUME Init  PROVE FreshAhead
    BY <2>2 DEF Init, FreshAhead
  <2>3. QED
    BY <2>1, <2>2
<1>2. IInv /\ Counted /\ FreshAhead /\ [Next]_vars => Counted' /\ FreshAhead'
  BY OnceStep DEF OnceInv
<1>3. IInv /\ Counted => BackfilledOnce
  <2>1. ASSUME IInv, Counted, NEW c \in Configs, NEW h \in Slots
        PROVE  rows[c[1].table][h] <= 1 + abandoned[c[1].table][h]
    <3>1. /\ rows[c[1].table][h] \in Nat /\ late[c[1].table][h] \in Nat
          /\ abandoned[c[1].table][h] \in Nat
      BY <2>1, ConfigIs DEF IInv, TypeOK
    <3>2. rows[c[1].table][h] + late[c[1].table][h] <= 1 + abandoned[c[1].table][h]
      BY <2>1 DEF Counted
    <3>3. QED
      BY <3>1, <3>2
  <2>2. QED
    BY <2>1 DEF BackfilledOnce
<1>4. QED
  BY <1>1, <1>2, <1>3, Invariance, PTL DEF Spec
=============================================================================
