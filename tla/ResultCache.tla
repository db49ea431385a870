----------------------------- MODULE ResultCache -----------------------------
(***************************************************************************)
(* The proxy's query-result cache: proxy/cache/cache.go and its use by     *)
(* /api/v1/query and /api/v1/query_range in proxy/server/handlers/query.go. *)
(*                                                                         *)
(* Many handlers call Fetch at once.  Get and Set each run under c.mu; the *)
(* singleflight group lets one caller per key evaluate while the others    *)
(* wait for its outcome.  Between those critical sections anything can     *)
(* happen: entries expire, other flights end, windows settle.              *)
(*                                                                         *)
(* The 64-bit hash of a key is taken to be injective.  An evaluation reads *)
(* the data at one moment; it fails when ClickHouse does or when the       *)
(* leading request's own context ends (client gone, query timeout).        *)
(***************************************************************************)
EXTENDS Naturals, Sequences, SequencesExt, Functions

CONSTANTS
  Callers,       \* handler goroutines, each serving one request after the other
  Requests,      \* queries with their time bounds
  MaxSize,       \* cfg.Cache.MaxSize
  TTL,           \* cfg.Cache.TTL
  MaxFreshness,  \* cfg.Cache.MaxFreshness
  TicksPerMs,    \* clock ticks in a millisecond
  MaxTime        \* bound: the clock stops here

Times == 0..MaxTime

\* New treats a size below 1 as 1.  An instant query has start = end and step = 0.
ASSUME CacheAssumption ==
  /\ Requests # {}
  /\ \A r \in Requests : {"query", "start", "end", "step"} \subseteq DOMAIN r
  /\ \A r \in Requests : {r.start, r.end, r.step} \subseteq Nat
  /\ MaxSize \in Nat \ {0}
  /\ TTL \in Nat /\ MaxFreshness \in Nat
  /\ TicksPerMs \in Nat \ {0}
  /\ MaxTime \in Nat

VARIABLES
  clock,   \* time.Now()
  pc,      \* per caller: where its Fetch is
  req,     \* per caller: the request it serves
  keep,    \* per caller: the store argument of its Fetch
  result,  \* per caller: the entry its Fetch has found, {} when there is none
  flight,  \* the singleflight group: the keys that have a call in progress
  lru,     \* c.ll: keys, the most recently used first
  items    \* c.items: key -> entry and expiry; history: when it was Set, when last used

callVars == <<pc, req, keep, result>>
cacheVars == <<lru, items>>
vars == <<clock, pc, req, keep, result, flight, lru, items>>

-----------------------------------------------------------------------------
Ms(t) == t \div TicksPerMs

\* Mutant: the key leaves the step out.
KeyOf_NoStep(r) == <<r.query, Ms(r.start), Ms(r.end), 0>>

\* Key: the query and its bounds in whole milliseconds.
KeyOf(r) == <<r.query, Ms(r.start), Ms(r.end), Ms(r.step)>>

Keys == {KeyOf(r) : r \in Requests}

\* A rendered response: the request it answers and when its data were read.
Entries == [req : Requests, readAt : Times]

Instant(r) == r.step = 0

\* Mutant: everything whose window has ended is stored.
Storable_WhenEnded(r) == r.end <= clock

\* The store argument: Query has evalTime.Before(now - max_freshness), QueryRange
\* !end.After(now - max_freshness).
Storable(r) ==
  IF Instant(r) THEN r.end + MaxFreshness < clock ELSE r.end + MaxFreshness <= clock

Key(c) == KeyOf(req[c])

Leading == {"recheck", "evaluate", "store", "release"}

Followers(k) == {c \in Callers : pc[c] = "wait" /\ Key(c) = k}

-----------------------------------------------------------------------------
(***************************************************************************)
(* The LRU, under c.mu.                                                    *)
(***************************************************************************)

Live(k) == k \in DOMAIN items /\ ~(clock > items[k].expiresAt)

\* ll.Remove, or what MoveToFront does first: the list without the entry of a key.
Without(s, k) ==
  IF k \in ToSet(s) THEN RemoveAt(s, CHOOSE i \in DOMAIN s : s[i] = k) ELSE s

\* Mutant: every use of an entry prolongs its life.
Promote_Prolongs(k) ==
  /\ lru' = <<k>> \o Without(lru, k)
  /\ items' = [items EXCEPT ![k].usedAt = clock, ![k].expiresAt = @ + TTL]

\* Mutant: the list keeps the order of insertion.
Promote_Nothing(k) ==
  /\ items' = [items EXCEPT ![k].usedAt = clock]
  /\ UNCHANGED lru

\* Get of a live entry: MoveToFront.
Promote(k) ==
  /\ lru' = <<k>> \o Without(lru, k)
  /\ items' = [items EXCEPT ![k].usedAt = clock]

\* Get of a missing or an expired entry: an expired one is removed.
DropExpired(k) ==
  /\ lru' = Without(lru, k)
  /\ items' = Restrict(items, DOMAIN items \ {k})

NewItem(e) ==
  [entry |-> e, expiresAt |-> clock + TTL, setAt |-> clock, usedAt |-> clock]

\* Mutant: eviction starts one entry late.
Put_OffByOne(k, e) ==
  LET fronted == <<k>> \o Without(lru, k)
      kept == IF Len(fronted) > MaxSize + 1 THEN Front(fronted) ELSE fronted
  IN /\ lru' = kept
     /\ items' = [j \in ToSet(kept) |-> IF j = k THEN NewItem(e) ELSE items[j]]

\* Set: update in place or push to the front, then evict from the back.
Put(k, e) ==
  LET fronted == <<k>> \o Without(lru, k)
      kept == IF Len(fronted) > MaxSize THEN Front(fronted) ELSE fronted
  IN /\ lru' = kept
     /\ items' = [j \in ToSet(kept) |-> IF j = k THEN NewItem(e) ELSE items[j]]

-----------------------------------------------------------------------------
\* What req holds between two requests: some request, never looked at.
NoRequest == CHOOSE r \in Requests : TRUE

Init ==
  /\ clock = 0
  /\ pc = [c \in Callers |-> "idle"]
  /\ req = [c \in Callers |-> NoRequest]
  /\ keep = [c \in Callers |-> FALSE]
  /\ result = [c \in Callers |-> {}]
  /\ flight = {}
  /\ lru = <<>>
  /\ items = [k \in {} |-> {}]

\* Time passes.
Tick ==
  /\ clock < MaxTime
  /\ clock' = clock + 1
  /\ UNCHANGED <<callVars, flight, cacheVars>>

Goto(c, l) == pc' = [pc EXCEPT ![c] = l]

\* A request arrives at an idle handler, which reads the clock and calls Fetch.
Ask(c, r) ==
  /\ pc[c] = "idle"
  /\ Goto(c, "get")
  /\ req' = [req EXCEPT ![c] = r]
  /\ keep' = [keep EXCEPT ![c] = Storable(r)]
  /\ UNCHANGED <<clock, result, flight, cacheVars>>

\* The first Get.  A hit is the answer.
GetHit(c) ==
  /\ pc[c] = "get"
  /\ Live(Key(c))
  /\ Promote(Key(c))
  /\ result' = [result EXCEPT ![c] = {items[Key(c)].entry}]
  /\ Goto(c, "done")
  /\ UNCHANGED <<clock, req, keep, flight>>

GetMiss(c) ==
  /\ pc[c] = "get"
  /\ ~Live(Key(c))
  /\ DropExpired(Key(c))
  /\ Goto(c, "do")
  /\ UNCHANGED <<clock, req, keep, result, flight>>

\* singleflight.Do: without a call in progress the caller leads one.
Lead(c) ==
  /\ pc[c] = "do"
  /\ Key(c) \notin flight
  /\ flight' = flight \union {Key(c)}
  /\ Goto(c, "recheck")
  /\ UNCHANGED <<clock, req, keep, result, cacheVars>>

\* singleflight.Do: with a call in progress the caller waits for it.
Follow(c) ==
  /\ pc[c] = "do"
  /\ Key(c) \in flight
  /\ Goto(c, "wait")
  /\ UNCHANGED <<clock, req, keep, result, flight, cacheVars>>

\* The leader's second Get: another flight may have stored the entry meanwhile.
RecheckHit(c) ==
  /\ pc[c] = "recheck"
  /\ Live(Key(c))
  /\ Promote(Key(c))
  /\ result' = [result EXCEPT ![c] = {items[Key(c)].entry}]
  /\ Goto(c, "release")
  /\ UNCHANGED <<clock, req, keep, flight>>

\* Mutant: the leader does not look again.
RecheckMiss_Blind(c) ==
  /\ pc[c] = "recheck"
  /\ Goto(c, "evaluate")
  /\ UNCHANGED <<clock, req, keep, result, flight, cacheVars>>

RecheckMiss(c) ==
  /\ pc[c] = "recheck"
  /\ ~Live(Key(c))
  /\ DropExpired(Key(c))
  /\ Goto(c, "evaluate")
  /\ UNCHANGED <<clock, req, keep, result, flight>>

\* fn reads the data.
Evaluate(c) ==
  /\ pc[c] = "evaluate"
  /\ result' = [result EXCEPT ![c] = {[req |-> req[c], readAt |-> clock]}]
  /\ Goto(c, IF keep[c] THEN "store" ELSE "release")
  /\ UNCHANGED <<clock, req, keep, flight, cacheVars>>

\* fn fails: ClickHouse answers with an error, or the leader's context is done.
EvaluateFails(c) ==
  /\ pc[c] = "evaluate"
  /\ Goto(c, "release")
  /\ UNCHANGED <<clock, req, keep, result, flight, cacheVars>>

\* if store { c.Set(key, e) }
Store(c) ==
  /\ pc[c] = "store"
  /\ \E e \in result[c] : Put(Key(c), e)
  /\ Goto(c, "release")
  /\ UNCHANGED <<clock, req, keep, result, flight>>

\* Mutant: the call ends for its leader only.
Release_LeaderOnly(c) ==
  /\ pc[c] = "release"
  /\ flight' = flight \ {Key(c)}
  /\ Goto(c, "done")
  /\ UNCHANGED <<clock, req, keep, result, cacheVars>>

\* The call ends: under the group's mutex it is forgotten and all its callers go on
\* with the leader's outcome, entry or error.
Release(c) ==
  /\ pc[c] = "release"
  /\ flight' = flight \ {Key(c)}
  /\ LET served == Followers(Key(c)) \union {c} IN
       /\ pc' = [d \in Callers |-> IF d \in served THEN "done" ELSE pc[d]]
       /\ result' = [d \in Callers |-> IF d \in served THEN result[c] ELSE result[d]]
  /\ UNCHANGED <<clock, req, keep, cacheVars>>

\* The handler writes the response, or 422 for an error.
Respond(c) ==
  /\ pc[c] = "done"
  /\ Goto(c, "idle")
  /\ req' = [req EXCEPT ![c] = NoRequest]
  /\ keep' = [keep EXCEPT ![c] = FALSE]
  /\ result' = [result EXCEPT ![c] = {}]
  /\ UNCHANGED <<clock, flight, cacheVars>>

-----------------------------------------------------------------------------
Fetch(c) ==
  \/ GetHit(c)
  \/ GetMiss(c)
  \/ Lead(c)
  \/ Follow(c)
  \/ RecheckHit(c)
  \/ RecheckMiss(c)
  \/ Evaluate(c)
  \/ EvaluateFails(c)
  \/ Store(c)
  \/ Release(c)
  \/ Respond(c)

Next ==
  \/ Tick
  \/ \E c \in Callers : (\E r \in Requests : Ask(c, r)) \/ Fetch(c)

Spec == Init /\ [][Next]_vars

(***************************************************************************)
(* A handler that can run does, and an evaluation ends: its context has    *)
(* the query timeout.  Requests and time are not fair.                     *)
(***************************************************************************)
FairSpec == Spec /\ \A c \in Callers : WF_vars(Fetch(c))

-----------------------------------------------------------------------------
(***************************************************************************)
(* What is checked.                                                        *)
(***************************************************************************)

\* The variables have their types, and no entry lives longer than TTL from when it was
\* put there, however often it was used in between.
TypeOK ==
  /\ clock \in Times
  /\ pc \in [Callers -> {"idle", "get", "do", "wait", "done"} \union Leading]
  /\ req \in [Callers -> Requests]
  /\ keep \in [Callers -> BOOLEAN]
  /\ result \in [Callers -> SUBSET Entries]
  /\ flight \in SUBSET Keys
  /\ lru \in Seq(Keys)
  /\ DOMAIN items \subseteq Keys
  /\ \A k \in DOMAIN items :
       /\ items[k] \in [entry : Entries, expiresAt : 0..(clock + TTL),
                        setAt : Times, usedAt : Times]
       /\ items[k].expiresAt = items[k].setAt + TTL

\* The list and the map of the LRU agree entry by entry, no key is listed twice, and
\* the cache never outgrows its capacity, however Gets, Sets and expiries interleave.
CacheConsistent ==
  /\ ToSet(lru) = DOMAIN items
  /\ IsInjective(lru)
  /\ Len(lru) <= MaxSize

\* Concurrent misses are collapsed: while a caller evaluates a key, nobody else does,
\* and the cache holds no entry for it, not even one stored between the caller's miss
\* and the start of its flight.
NoDuplicateWork ==
  \A c \in Callers : pc[c] \in {"evaluate", "store"} =>
    /\ Key(c) \notin DOMAIN items
    /\ \A d \in Callers \ {c} : pc[d] \in Leading => Key(d) # Key(c)

\* Every answer, found in the cache, computed or taken over from another caller's
\* flight, is the answer to the request that was asked.
AnswersMatch == \A c \in Callers : \A e \in result[c] : e.req = req[c]

\* What the cache holds is final: it was read when the last sample of its window had
\* arrived (which max_freshness after its end it has), although the handler looks at
\* the clock first and the evaluation takes place later.
StoredIsSettled ==
  \A k \in DOMAIN items :
    LET e == items[k].entry IN e.readAt >= e.req.end + MaxFreshness

\* Eviction takes the least recently used: an entry that leaves the cache to make room
\* for another was last used no later than any entry that stays.
EvictsLeastRecent ==
  [][\A c \in Callers : Store(c) =>
       \A j \in DOMAIN items \ DOMAIN items', k \in DOMAIN items \intersect DOMAIN items' :
         items[j].usedAt <= items[k].usedAt]_vars

\* Every Fetch returns: a waiting caller is released even when the leader's evaluation
\* fails, and no flight is left behind.
EveryFetchReturns == \A c \in Callers : pc[c] = "get" ~> pc[c] = "done"
=============================================================================
