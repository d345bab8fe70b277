------------------------------- MODULE Stats -------------------------------
(***************************************************************************)
(* The gateway's own statistics: ObserveRequest and the cache counters     *)
(* (internal/observability/gateway_metrics.go), the ring of one-minute     *)
(* slots behind /admin/stats/timeseries (timeseries.go), and the two       *)
(* collectors behind /admin/stats/summary and /admin/stats/cache (stats.go,*)
(* cache_stats.go), which keep their last projection for cacheTTL and hold *)
(* their mutex only to look at it and to store it.  The two collectors     *)
(* share nothing: a behaviour polls one of them.                           *)
(*                                                                         *)
(* Latency, cost and token metrics, and the split by provider and model,   *)
(* are left out.  Reading the counters (Gather) is one step.  Time is in   *)
(* ticks and does not go back.                                             *)
(***************************************************************************)
EXTENDS Integers, FiniteSets, ErrorMap

CONSTANTS
  Requests,
  Workloads,     \* what becomes of each request: [kind, status, reply]
  Pollers,       \* admin requests for a projection
  SlotCount, SlotDur,  \* the ring: 60 slots of a minute
  CacheTTL,
  MaxTime        \* bound: ticks

\* The statuses of the handler's own refusals.
Refusals == 400 .. 599

ASSUME StatsConstants ==
  /\ {SlotCount, SlotDur, CacheTTL} \subseteq Nat \ {0} /\ MaxTime \in Nat
  /\ \A w \in Workloads, r \in Requests : w[r].kind = "refused" => w[r].status \in Refusals

VARIABLES
  clock,
  req,           \* per request: idle, count, record, done
  outcome,       \* what becomes of it
  counters,      \* requestsTotal by label, cacheHitsTotal, cacheWritesTotal
  slots,         \* TimeSeries.slots
  collector,     \* the one the pollers ask: summary or cache
  poll,          \* per poller: idle, check, gather, store
  now,           \* the time its call read
  gathered,      \* its projection
  cached,        \* its cached and cachedAt, or NoSummary
  counted,       \* counted[t]: what it reports that was counted by the end of tick t
  recorded       \* recorded[m]: the requests that ended in minute m, without the ring

statsVars == <<clock, req, outcome, counters, slots, collector, poll, now, gathered, cached, counted,
               recorded>>

Labels == {401, 403, 404, 413, 429, 502, 503, 504, 0, 2, 3, 4, 5}
Minute(t) == t \div SlotDur
NoProjection ==
  IF collector = "summary" THEN [total |-> 0, errors4xx |-> 0, errors5xx |-> 0]
  ELSE [hits |-> 0, writes |-> 0]
NoSummary == [at |-> -1, projection |-> NoProjection]
NoTraffic == [success |-> 0, error |-> 0]

StatsInit ==
  /\ clock = 0
  /\ req = [r \in Requests |-> "idle"]
  /\ outcome \in Workloads
  /\ counters = [requests |-> [l \in Labels |-> 0], hits |-> 0, writes |-> 0]
  /\ slots = [i \in 0 .. SlotCount - 1 |-> [start |-> -1, success |-> 0, error |-> 0]]
  /\ collector \in {"summary", "cache"}
  /\ poll = [p \in Pollers |-> "idle"]
  /\ now = [p \in Pollers |-> 0]
  /\ gathered = [p \in Pollers |-> NoProjection]
  /\ cached = NoSummary
  /\ counted = [t \in 0 .. MaxTime |-> 0]
  /\ recorded = [m \in 0 .. Minute(MaxTime) |-> NoTraffic]

-----------------------------------------------------------------------------
\* The end of a chat request.

\* The status a request is answered with: a response from the cache or from
\* upstream, a refusal of the handler's own, or an upstream error.
Status(o) ==
  CASE o.kind = "refused" -> o.status
    [] o.kind = "failed" -> ClientStatus(Sentinel(o.reply))
    [] OTHER -> 200

\* n more of what collector c reports.
Counted(c, n) ==
  [t \in 0 .. MaxTime |->
     IF c = collector /\ t >= clock THEN counted[t] + n ELSE counted[t]]

\* IncCacheHit, or IncCacheWrite once a response is cached.
CountCache(r) ==
  LET hit == IF outcome[r].kind = "hit" THEN 1 ELSE 0
      write == IF outcome[r].kind = "written" THEN 1 ELSE 0 IN
  /\ req[r] = "idle"
  /\ counters' = [counters EXCEPT !.hits = @ + hit, !.writes = @ + write]
  /\ counted' = Counted("cache", hit + write)
  /\ req' = [req EXCEPT ![r] = "count"]
  /\ UNCHANGED <<clock, outcome, slots, collector, poll, now, gathered, cached, recorded>>

\* ObserveRequest: the counter, and then the ring.
Count(r) ==
  /\ req[r] = "count"
  /\ counters' = [counters EXCEPT !.requests[StatusLabel(Status(outcome[r]))] = @ + 1]
  /\ counted' = Counted("summary", 1)
  /\ req' = [req EXCEPT ![r] = "record"]
  /\ UNCHANGED <<clock, outcome, slots, collector, poll, now, gathered, cached, recorded>>

\* One more request in a slot.
Bump(slot, code) ==
  IF code >= 400 THEN [slot EXCEPT !.error = @ + 1] ELSE [slot EXCEPT !.success = @ + 1]

\* Mutant: the slot of the previous round is not cleared.
RestartedKeeps(slot) == [slot EXCEPT !.start = Minute(clock)]

\* A slot of an earlier round starts anew.
Restarted(slot) ==
  IF slot.start = Minute(clock) THEN slot
  ELSE [start |-> Minute(clock), success |-> 0, error |-> 0]

\* TimeSeries.Record, under its mutex.
Record(r) ==
  /\ req[r] = "record"
  /\ slots' = [slots EXCEPT ![Minute(clock) % SlotCount] = Bump(Restarted(@), Status(outcome[r]))]
  /\ recorded' = [recorded EXCEPT ![Minute(clock)] = Bump(@, Status(outcome[r]))]
  /\ req' = [req EXCEPT ![r] = "done"]
  /\ UNCHANGED <<clock, outcome, counters, collector, poll, now, gathered, cached, counted>>

-----------------------------------------------------------------------------
\* TimeSeries.Snapshot, by minute.
Snapshot(at) ==
  [m \in Minute(at) - SlotCount + 1 .. Minute(at) |->
     LET s == slots[m % SlotCount] IN
     IF s.start = m THEN [success |-> s.success, error |-> s.error]
     ELSE NoTraffic]

-----------------------------------------------------------------------------
\* StatsCollector.Summary and CacheStatsCollector.Stats.

Of(label) == counters.requests[label]

\* The sum over all labels.
Total ==
  Of(401) + Of(403) + Of(404) + Of(413) + Of(429) + Of(502) + Of(503) + Of(504)
  + Of(0) + Of(2) + Of(3) + Of(4) + Of(5)

\* Mutant: the statuses without a label of their own are forgotten.
Errors5xxNamed == Of(502) + Of(503) + Of(504)

\* The switch of Summary over the labels.
Errors4xx == Of(401) + Of(403) + Of(404) + Of(413) + Of(429) + Of(4)
Errors5xx == Of(502) + Of(503) + Of(504) + Of(5)

Project ==
  IF collector = "summary"
  THEN [total |-> Total, errors4xx |-> Errors4xx, errors5xx |-> Errors5xx]
  ELSE [hits |-> counters.hits, writes |-> counters.writes]

\* The call returns.
Return(p) ==
  /\ poll' = [poll EXCEPT ![p] = "idle"]
  /\ now' = [now EXCEPT ![p] = 0]
  /\ gathered' = [gathered EXCEPT ![p] = NoProjection]
  /\ UNCHANGED <<clock, req, outcome, counters, slots, collector, counted, recorded>>

\* now is read before the mutex is taken.
Begin(p) ==
  /\ poll[p] = "idle"
  /\ poll' = [poll EXCEPT ![p] = "check"]
  /\ now' = [now EXCEPT ![p] = clock]
  /\ UNCHANGED <<clock, req, outcome, counters, slots, collector, gathered, cached, counted, recorded>>

\* What is cached is recent enough for the call.
Recent(p) ==
  /\ cached.at # NoSummary.at
  /\ now[p] - cached.at < CacheTTL

CacheHit(p) ==
  /\ poll[p] = "check" /\ Recent(p)
  /\ Return(p)
  /\ UNCHANGED cached

CacheMiss(p) ==
  /\ poll[p] = "check" /\ ~Recent(p)
  /\ poll' = [poll EXCEPT ![p] = "gather"]
  /\ UNCHANGED <<clock, req, outcome, counters, slots, collector, now, gathered, cached, counted, recorded>>

Gather(p) ==
  /\ poll[p] = "gather"
  /\ gathered' = [gathered EXCEPT ![p] = Project]
  /\ poll' = [poll EXCEPT ![p] = "store"]
  /\ UNCHANGED <<clock, req, outcome, counters, slots, collector, now, cached, counted, recorded>>

GatherFails(p) ==
  /\ poll[p] = "gather"
  /\ Return(p)
  /\ UNCHANGED cached

\* Mutant: cachedAt is the time of the store.
StoreLate(p) ==
  /\ poll[p] = "store"
  /\ cached' = [at |-> clock, projection |-> gathered[p]]
  /\ Return(p)

Store(p) ==
  /\ poll[p] = "store"
  /\ cached' = [at |-> now[p], projection |-> gathered[p]]
  /\ Return(p)

-----------------------------------------------------------------------------
Tick ==
  /\ clock < MaxTime
  /\ clock' = clock + 1
  /\ UNCHANGED <<req, outcome, counters, slots, collector, poll, now, gathered, cached, counted, recorded>>

StatsNext ==
  \/ \E r \in Requests : CountCache(r) \/ Count(r) \/ Record(r)
  \/ \E p \in Pollers :
       \/ Begin(p) \/ CacheHit(p) \/ CacheMiss(p)
       \/ Gather(p) \/ GatherFails(p) \/ Store(p)
  \/ Tick

StatsSpec == StatsInit /\ [][StatsNext]_statsVars

-----------------------------------------------------------------------------
\* The number of things a projection counts.
Size(projection) ==
  IF collector = "summary" THEN projection.total ELSE projection.hits + projection.writes

\* An answer is at most cacheTTL old: what Summary or Stats returns, from its
\* cache or fresh, counts every request, hit and write that had been
\* counted cacheTTL before the call, also when a slow Gather has stored its
\* projection over a newer one.
AnswersFresh ==
  \A p \in Pollers :
    LET due == IF now[p] < CacheTTL THEN 0 ELSE counted[now[p] - CacheTTL] IN
    /\ poll[p] = "check" /\ Recent(p) => Size(cached.projection) >= due
    /\ poll[p] = "store" => Size(gathered[p]) >= due

\* The ring, whose slots are reused without a write pointer, shows for each of
\* its minutes exactly the requests recorded in it (Record, Snapshot).
SeriesExact ==
  \A m \in DOMAIN Snapshot(clock) :
    Snapshot(clock)[m] = IF m < 0 THEN NoTraffic ELSE recorded[m]

\* The sum of the numbers f[m]: so many pairs of an m and a number up to f[m].
Units(f) == UNION {{<<m, i>> : i \in 1 .. f[m]} : m \in DOMAIN f}
SumOver(f) == Cardinality(Units(f))

\* timeseries.go on Record: "status >= 400 is counted as an error (matches
\* /admin/stats/summary's bucketing)".  When no request is half observed and the
\* ring still covers them all, the chart and the summary report the same errors.
ErrorsAgree ==
  LET points == Snapshot(clock) IN
  (/\ \A r \in Requests : req[r] \in {"idle", "count", "done"}
   /\ \A m \in DOMAIN recorded \ DOMAIN points : recorded[m] = NoTraffic)
  => /\ SumOver([m \in DOMAIN points |-> points[m].error]) = Errors4xx + Errors5xx
     /\ SumOver([m \in DOMAIN points |-> points[m].success]) = Total - Errors4xx - Errors5xx
=============================================================================
