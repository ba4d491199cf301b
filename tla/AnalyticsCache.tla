--------------------------- MODULE AnalyticsCache ---------------------------
(***************************************************************************)
(* The cache of analyticsService.js.  Four metrics are kept with ONE       *)
(* lastUpdate: batch metrics always set it, the others only when it is     *)
(* empty.  Calls overlap: between the read of the ledger and the store in  *)
(* the cache others read, store and clear.  A metric is represented by the *)
(* time of the oldest ledger read in it (the start of the read; a deadline *)
(* bounds it).                                                             *)
(***************************************************************************)
EXTENDS Integers, Bags, BagsExt

CONSTANTS
  TTLs,       \* cache times that may be set, in ticks
  ReadTime,   \* ticks a read of a ledger takes at most
  MaxCalls,   \* bound: calls in progress
  MaxTime     \* bound: the clock

VARIABLES cache, lastUpdate, cacheTTL, calls, now

vars == <<cache, lastUpdate, cacheTTL, calls, now>>

TimesAssumption == TTLs # {} /\ TTLs \subseteq Nat /\ ReadTime \in Nat /\ MaxTime \in Nat

Never == -1
Times == 0 .. MaxTime
Sources == {"batch", "product", "tokenization"}
Metrics == Sources \cup {"sustainability"}

\* A call in progress for a metric, at the read of a source that began at
\* `since`; `oldest` is the oldest read so far.
Calls == [metric : Metrics, reading : Sources, since : Times, oldest : Times]

NoCalls == [t \in {} |-> 0]

Younger(a, b) == IF a < b THEN a ELSE b

\* Answered from the cache.
Served(metric) ==
  cache[metric] # Never /\ lastUpdate # Never /\ now - lastUpdate < cacheTTL

\* What a metric does to lastUpdate when it is stored.
\* Variant: every metric does as batch metrics.
UpdatedAlways(metric) == now
Updated(metric) == IF metric = "batch" \/ lastUpdate = Never THEN now ELSE lastUpdate

Store(metric, at) ==
  cache' = [cache EXCEPT ![metric] = at] /\ lastUpdate' = Updated(metric)

Reading(metric, source, oldest) ==
  [metric |-> metric, reading |-> source, since |-> now, oldest |-> oldest]

\* A call that finds no served metric begins to read.  Sustainability asks for
\* the batch metrics, then for the product metrics, both cached in their turn.
Get(metric) ==
  /\ BagCardinality(calls) < MaxCalls /\ ~Served(metric)
  /\ LET begun(source, oldest) ==
           calls' = BagAdd(calls, Reading(metric, source, oldest)) /\ UNCHANGED <<cache, lastUpdate>>
     IN  IF metric \in Sources THEN begun(metric, now)
         ELSE IF ~Served("batch") THEN begun("batch", now)
         ELSE IF ~Served("product") THEN begun("product", cache["batch"])
         ELSE Store(metric, Younger(cache["batch"], cache["product"])) /\ UNCHANGED calls
  /\ UNCHANGED <<cacheTTL, now>>

GetBatchMetrics == Get("batch")
GetProductMetrics == Get("product")
GetTokenizationMetrics == Get("tokenization")
GetSustainabilityMetrics == Get("sustainability")

\* What only combines metrics calls for each of these.
Combined(metrics) == \E metric \in metrics : Get(metric)
GetDashboardData == Combined(Metrics)
GenerateSustainabilityReport == Combined({"batch", "product", "sustainability"})
AnalyzeCircularEconomy == Combined({"tokenization", "product"})

\* getBatchMetrics, getProductMetrics and getTokenizationMetrics end.
\* (totalSupply failing is swallowed: tokenization is stored all the same.)
Read(t) ==
  /\ t.metric = t.reading
  /\ Store(t.metric, t.since)
  /\ calls' = BagRemove(calls, t)
  /\ UNCHANGED <<cacheTTL, now>>

\* The batch metrics inside getSustainabilityMetrics are stored, which makes
\* product metrics that are cached count as served, or else they are read.
ReadBatchFirst(t) ==
  /\ t.metric = "sustainability" /\ t.reading = "batch"
  /\ lastUpdate' = now
  /\ IF cache["product"] # Never
       THEN /\ cache' = [cache EXCEPT !["batch"] = t.since,
                !["sustainability"] = Younger(t.since, cache["product"])]
            /\ calls' = BagRemove(calls, t)
       ELSE /\ cache' = [cache EXCEPT !["batch"] = t.since]
            /\ calls' = BagAdd(BagRemove(calls, t), Reading(t.metric, "product", t.since))
  /\ UNCHANGED <<cacheTTL, now>>

ReadProductThen(t) ==
  /\ t.metric = "sustainability" /\ t.reading = "product"
  /\ cache' = [cache EXCEPT !["product"] = t.since, !["sustainability"] = t.oldest]
  /\ lastUpdate' = Updated("product")
  /\ calls' = BagRemove(calls, t)
  /\ UNCHANGED <<cacheTTL, now>>

\* A read that throws, or contracts that are not there: nothing is stored.
Fails(t) ==
  calls' = BagRemove(calls, t) /\ UNCHANGED <<cache, lastUpdate, cacheTTL, now>>

ClearCache ==
  /\ cache' = [m \in Metrics |-> Never] /\ lastUpdate' = Never
  /\ UNCHANGED <<cacheTTL, calls, now>>

SetCacheTTL(ttl) == cacheTTL' = ttl /\ UNCHANGED <<cache, lastUpdate, calls, now>>

Tick ==
  /\ now < MaxTime /\ \A t \in DOMAIN calls : now - t.since < ReadTime
  /\ now' = now + 1
  /\ UNCHANGED <<cache, lastUpdate, cacheTTL, calls>>

Init ==
  /\ cache = [m \in Metrics |-> Never] /\ lastUpdate = Never
  /\ cacheTTL \in TTLs /\ calls = NoCalls /\ now = 0

Next ==
  \/ GetBatchMetrics \/ GetProductMetrics \/ GetTokenizationMetrics
  \/ GetSustainabilityMetrics
  \/ GetDashboardData \/ GenerateSustainabilityReport \/ AnalyzeCircularEconomy
  \/ \E t \in DOMAIN calls : Read(t) \/ ReadBatchFirst(t) \/ ReadProductThen(t) \/ Fails(t)
  \/ \E ttl \in TTLs : SetCacheTTL(ttl)
  \/ ClearCache \/ Tick

Spec == Init /\ [][Next]_vars

-----------------------------------------------------------------------------
\* Type invariant.
TypeOK ==
  /\ cache \in [Metrics -> Times \cup {Never}] /\ lastUpdate \in Times \cup {Never}
  /\ cacheTTL \in TTLs /\ now \in Times /\ DOMAIN calls \subseteq Calls

FreshEnough(metric) == Served(metric) => now - cache[metric] < cacheTTL + ReadTime

\* Batch metrics answered from the cache are younger than the cache time plus
\* one ledger read, also across overlapping reads, clears, and changes of it.
BatchFresh == FreshEnough("batch")

\* "cacheTTL: 15 * 60 * 1000 // 15 minutes" (analyticsService.js:40): the same
\* of all four metrics.
MetricsFresh == \A metric \in Metrics : FreshEnough(metric)
=============================================================================
