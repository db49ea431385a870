---------------------------- MODULE SeriesListing ----------------------------
(***************************************************************************)
(* The listing of series next to queries and refreshes: matchedSeries of   *)
(* proxy/server/handlers/series.go, on which /api/v1/series and the scoped *)
(* forms of /labels and /label/{name}/values rest, and SeriesMatch of      *)
(* meta.go.                                                                *)
(*                                                                         *)
(* A listing takes its selectors one after the other.  One that names its  *)
(* metric is resolved in the label cache, series by series; any other is   *)
(* a statement over the table.  In the answer a series is a metric with a  *)
(* label set, while the table and the cache tell label sets apart by       *)
(* fingerprint.  The schema of OpenTelemetry has no fingerprints and is    *)
(* left out.                                                               *)
(***************************************************************************)
EXTENDS SeriesFetch, FiniteSetsExt

CONSTANTS
  Listings,  \* requests: sequences of selectors [metric, fps, parses], metric "" for none
  Limit      \* seriesLimit

ASSUME ListingAssumption ==
  /\ \A ms \in Listings : ms \in Seq(ToSet(ms)) /\ ms # <<>>
  /\ \A ms \in Listings : \A m \in ToSet(ms) : {"metric", "fps", "parses"} \subseteq DOMAIN m
  /\ Limit \in Nat \ {0}

VARIABLES
  lpc,       \* where the listing is
  left,      \* the selectors that remain, the current one first
  useCache,  \* the cache was loaded when the request came
  toLook,    \* the fingerprints of the current selector whose labels are still to be found
  listed,    \* out
  asked,     \* history: the request
  known,     \* history: what there was to list when it came
  lost,      \* history: a selector did not parse, or its statement failed
  short      \* history: the selectors whose response ended before its last row

listVars == <<lpc, left, useCache, toLook, listed, asked, known, lost, short>>
allVars == <<vars, listVars>>

-----------------------------------------------------------------------------
Current == Head(left)

Named(m) == m.metric # ""

\* Mutant: series are told apart by their fingerprint.
Add_ByFingerprint(S, s) == IF s.fp \in Fps(S) THEN S ELSE S \union {s}

\* add: a set of labels, __name__ among them, is listed once.
Add(S, s) == S \union {s}

Full(S) == Cardinality(S) >= Limit

\* chMatcherWhere
Selected(S, m) == {s \in S : s.fp \in m.fps /\ (Named(m) => s.metric = m.metric)}

\* LIMIT 1 BY fingerprint LIMIT limit: of the series with equal labels, one.
Scanned(S) ==
  LET onePer == {T \in SUBSET S : Fps(T) = Fps(S) /\ Cardinality(T) = Cardinality(Fps(S))}
  IN UNION {kSubset(Min({Limit, Cardinality(T)}), T) : T \in onePer}

FromIndex(m) == useCache /\ Named(m) /\ ~TooMany(m)

-----------------------------------------------------------------------------
ListInit ==
  /\ Init
  /\ lpc = "idle"
  /\ left = <<>> /\ asked = <<>>
  /\ useCache = FALSE
  /\ toLook = {} /\ listed = {} /\ known = {}
  /\ lost = FALSE /\ short = {}

\* Series: a request with match[].
List(ms) ==
  /\ lpc = "idle"
  /\ asked' = ms
  /\ left' = ms
  /\ useCache' = loaded
  /\ known' = IF loaded THEN cached ELSE timeSeries
  /\ lpc' = "next"
  /\ UNCHANGED <<toLook, listed, lost, short>>

\* parseSelector refuses: 400, whatever has been found so far.
RefuseListing ==
  /\ lpc = "next" /\ left # <<>>
  /\ ~Current.parses
  /\ lost' = TRUE
  /\ lpc' = "listed"
  /\ UNCHANGED <<left, useCache, toLook, listed, asked, known, short>>

\* GetFingerprints
ResolveInIndex ==
  /\ lpc = "next" /\ left # <<>>
  /\ Current.parses /\ FromIndex(Current)
  /\ toLook' = Fps(Matching(cached, Current))
  /\ lpc' = "looking"
  /\ UNCHANGED <<left, useCache, listed, asked, known, lost, short>>

\* GetLabels, in whatever index is installed now; a fingerprint it does not know is
\* passed over.
Look ==
  /\ lpc = "looking"
  /\ \E fp \in toLook :
       /\ toLook' = toLook \ {fp}
       /\ listed' = IF Labelled(fp) THEN Add(listed, [metric |-> Current.metric, fp |-> fp]) ELSE listed
       /\ lpc' = IF Labelled(fp) /\ Full(listed') THEN "listed" ELSE "looking"
  /\ UNCHANGED <<left, useCache, asked, known, lost, short>>

Looked ==
  /\ lpc = "looking"
  /\ toLook = {}
  /\ left' = Tail(left)
  /\ lpc' = "next"
  /\ UNCHANGED <<useCache, toLook, listed, asked, known, lost, short>>

\* The current selector is a statement over the table.
Scanning == lpc = "next" /\ left # <<>> /\ Current.parses /\ ~FromIndex(Current)

\* The rows that SeriesMatch returns are added while there is room.
AddRows(rows) ==
  /\ LET new == rows \ listed
         room == Limit - Cardinality(listed)
     IN \E added \in kSubset(Min({room, Cardinality(new)}), new) : listed' = listed \union added
  /\ lpc' = IF Full(listed') THEN "listed" ELSE "next"
  /\ left' = Tail(left)
  /\ UNCHANGED <<useCache, toLook, asked, known, lost>>

ScanTable ==
  /\ Scanning
  /\ \E rows \in Scanned(Selected(timeSeries, Current)) : AddRows(rows)
  /\ UNCHANGED short

\* The response ends between two rows, or before the first: dec.More() is false, and the
\* rows so far are returned without an error.
ScanCutShort ==
  /\ Scanning
  /\ \E rows \in Scanned(Selected(timeSeries, Current)) :
       \E part \in SUBSET rows \ {rows} : AddRows(part)
  /\ short' = short \union {Current}

\* "clickhouse fallback failed": an empty answer, and no error.
ScanFails ==
  /\ Scanning
  /\ listed' = {}
  /\ lost' = TRUE
  /\ lpc' = "listed"
  /\ UNCHANGED <<left, useCache, toLook, asked, known, short>>

AllResolved ==
  /\ lpc = "next" /\ left = <<>>
  /\ lpc' = "listed"
  /\ UNCHANGED <<left, useCache, toLook, listed, asked, known, lost, short>>

RespondListing ==
  /\ lpc = "listed"
  /\ lpc' = "idle"
  /\ left' = <<>> /\ asked' = <<>>
  /\ useCache' = FALSE
  /\ toLook' = {} /\ listed' = {} /\ known' = {}
  /\ lost' = FALSE /\ short' = {}

ListingStep ==
  \/ RefuseListing
  \/ ResolveInIndex
  \/ Look
  \/ Looked
  \/ ScanTable
  \/ ScanCutShort
  \/ ScanFails
  \/ AllResolved
  \/ RespondListing

\* A query and a listing do not meet: both only read what they share.
ListNext ==
  \/ Next /\ (lpc # "idle" => pc' = "idle") /\ UNCHANGED listVars
  \/ pc = "idle" /\ (\E ms \in Listings : List(ms)) /\ UNCHANGED vars
  \/ ListingStep /\ UNCHANGED vars

\* FairSpec's fairness: a query that can go on does.
ListSpec == ListInit /\ [][ListNext]_allVars /\ WF_vars(Answer)

-----------------------------------------------------------------------------
(***************************************************************************)
(* What is checked.                                                        *)
(***************************************************************************)

\* A listing never has a series that none of its selectors matches, and it has every
\* series that one of them matches and that was there when it came, while the index may be
\* replaced between a selector's resolution and the labels, and between two selectors.
\* What it may lack: what is beyond the limit; everything, when a statement fails or a
\* selector does not parse; what only a selector matches whose response was cut short; what
\* a cut index (LabelCache.Refresh) has lost; and, for a selector without a metric, all but
\* one of the metrics whose series have the same labels.
ListingIsComplete ==
  lpc = "listed" =>
    /\ \A s \in listed : \E i \in DOMAIN asked : s \in Selected(timeSeries, asked[i])
    /\ ~cut /\ ~lost /\ ~Full(listed) =>
         \A i \in DOMAIN asked : asked[i] \notin short =>
           \A s \in Selected(known, asked[i]) :
             s \in listed \/ (~Named(asked[i]) /\ s.fp \in Fps(listed))
=============================================================================
