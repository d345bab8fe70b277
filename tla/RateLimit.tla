----------------------------- MODULE RateLimit -----------------------------
(***************************************************************************)
(* internal/ratelimit and its two callers: the middleware, which checks    *)
(* the rules that count requests (internal/server/middleware/ratelimit.go),*)
(* and the chat handler, which checks the rules that count prompt tokens   *)
(* (internal/server/chat.go).  A rule keeps a token bucket per key in the  *)
(* gateway's memory (memory.go over golang.org/x/time/rate) or a sliding   *)
(* window per key in Redis, shared by all gateways (redis_window.go).      *)
(*                                                                         *)
(* Time is counted in ticks, the time in which a bucket refills by one     *)
(* token; clock is real time, and gateway g's clock shows clock + Skew[g]. *)
(* Both limiters read their clock first and use that reading later, when   *)
(* they get hold of the bucket or when Redis runs the script; the reading  *)
(* is then up to MaxLag ticks old.  Left out: headers, and the LRU's       *)
(* capacity (100,000 keys), taken to exceed the number of keys.            *)
(***************************************************************************)
EXTENDS Integers, Sequences, FiniteSets, FiniteSetsExt

CONSTANTS
  Requests,
  ApiKey, Model, \* the dimensions of a request
  Tokens,        \* its prompt tokens
  Scenarios,     \* a rate_limits section of config.yaml, and which requests come to
                 \* which gateway
  Skew,          \* Skew[g]: how far the clock of gateway g is ahead
  Drift,         \* bound: by which two of these differ
  Window,        \* the redis_window rules' window, in ticks
  Slack,         \* by which a Redis key outlives the window
  IdleTTL,       \* age at which the LRU drops a bucket
  MaxLag,        \* bound: ticks between a clock reading and its last use
  MaxTime,       \* bound: ticks
  MaxTries       \* bound: attempts of go-redis for one script call

\* RuleConfig.
RuleConfig ==
  [algorithm : STRING, count : Int, per : STRING, burst : Int, limit : Int,
   unit : STRING, keyBy : SUBSET STRING]

ASSUME RateLimitConstants ==
  /\ \A r \in Requests : Tokens[r] \in Nat
  /\ \A s \in Scenarios : s.gateway \in UNION {[R -> DOMAIN Skew] : R \in SUBSET Requests}
  /\ \A s \in Scenarios : s.config \in Seq(RuleConfig)
  /\ \A g \in DOMAIN Skew : Skew[g] \in Nat
  /\ \A g, h \in DOMAIN Skew : Skew[g] - Skew[h] <= Drift
  /\ {Drift, Window, Slack, IdleTTL, MaxLag, MaxTime, MaxTries} \subseteq Nat

VARIABLES
  rules,         \* Multi.rules
  gateway,       \* the gateway a request arrives at
  clock,
  stage,         \* absent, idle, call, add, take, reserve, cancel, script, done
  unit,          \* what is being checked: requests, then tokens
  at,            \* index of the rule being checked
  now,           \* the clock reading of the current Allow
  lim,           \* the limiter the current Allow holds
  act,           \* timeToAct of its reservation
  tries,         \* scripts sent for the current Allow
  verdict,       \* none, allowed, denied; what the client gets
  retry,         \* Decision.RetryAfter of a denial
  lru,           \* the buckets by key
  limiters,      \* every rate.Limiter made
  zsets,         \* Redis: sorted set, sequence counter and deadline by key
  ideal,         \* each limiter as it would be if a denial did not touch it
  regular,       \* the limiters used in the order of their clock readings and
                 \* whose denials were of cost 1, as all are that count requests
  charges        \* members written to Redis, each with the time it was written

call == <<unit, at, now>>
local == <<lru, limiters, lim, act, ideal, regular>>
remote == <<zsets, charges, tries>>
limitVars == <<rules, gateway, clock, stage, call, verdict, retry, local, remote>>

-----------------------------------------------------------------------------
\* loader.go.

\* parseRate: rc.count tokens per second, minute or hour, in whole tokens a second.
Seconds(per) == CASE per = "s" -> 1 [] per = "m" -> 60 [] per = "h" -> 3600
PerSecond(rc) == rc.count \div Seconds(rc.per)

\* buildMemoryBucket: the default burst is one second of the rate, at least 1.
Burst(rc) == IF rc.burst # 0 THEN rc.burst ELSE Max({1, PerSecond(rc)})

\* parseUnit.
Unit(rc) == IF rc.unit = "" THEN "requests" ELSE rc.unit

\* parseKeyBys.
KnownKeyBy(rc) == rc.keyBy \subseteq {"api_key", "model"}

\* NewMemoryBucket and NewRedisWindow.
ValidBucket(rc) == rc.count > 0 /\ rc.per \in {"s", "m", "h"} /\ Burst(rc) >= 1
ValidWindow(rc) == rc.limit >= 1 /\ Window > 0

ValidConfig(rc) ==
  /\ rc.unit \in {"", "requests", "tokens"}
  /\ KnownKeyBy(rc)
  /\ \/ rc.algorithm = "memory_bucket" /\ ValidBucket(rc)
     \/ rc.algorithm = "redis_window" /\ ValidWindow(rc)

Build(configs) ==
  [i \in DOMAIN configs |->
     [store |-> configs[i].algorithm,
      limit |-> IF configs[i].algorithm = "memory_bucket" THEN Burst(configs[i])
                ELSE configs[i].limit,
      keyBy |-> configs[i].keyBy,
      unit |-> Unit(configs[i])]]

-----------------------------------------------------------------------------
\* golang.org/x/time/rate, with one token per tick.

NewLimiter(burst) == [burst |-> burst, tokens |-> burst, last |-> 0, event |-> 0]

\* advance: a reading older than last counts as no time passed.
TokensAt(l, t) == Min({l.burst, l.tokens + t - Min({t, l.last})})

ReserveN(l, t, n) ==
  LET left == TokensAt(l, t) - n IN
  [l EXCEPT !.tokens = left, !.last = t, !.event = t + Max({0, -left})]

\* reserveN with maxFutureReserve = 0.
Allows(l, t, n) == n <= l.burst /\ TokensAt(l, t) >= n

\* DelayFrom of a reservation that cannot be had.
InfDuration == 2 * (MaxTime + Window)

\* CancelAt: gives back what was not reserved again since.
CancelAt(l, t, n, timeToAct) ==
  LET restore == n - (l.event - timeToAct)
      back == [l EXCEPT !.tokens = Min({l.burst, TokensAt(l, t) + restore}),
                        !.last = t] IN
  IF timeToAct < t \/ restore <= 0 THEN l
  ELSE IF timeToAct = l.event /\ timeToAct - n >= t
       THEN [back EXCEPT !.event = timeToAct - n]
       ELSE back

-----------------------------------------------------------------------------
LimitInit ==
  /\ \E s \in Scenarios :
       /\ \A i \in DOMAIN s.config : ValidConfig(s.config[i])
       /\ rules = Build(s.config)
       /\ gateway = s.gateway
       /\ stage = [r \in Requests |-> IF r \in DOMAIN s.gateway THEN "idle" ELSE "absent"]
  /\ clock = 0
  /\ unit = [r \in Requests |-> "requests"]
  /\ at = [r \in Requests |-> 0]
  /\ now = [r \in Requests |-> 0]
  /\ lim = [r \in Requests |-> 0]
  /\ act = [r \in Requests |-> 0]
  /\ tries = [r \in Requests |-> 0]
  /\ verdict = [r \in Requests |-> "none"]
  /\ retry = [r \in Requests |-> 0]
  /\ lru = <<>>
  /\ limiters = <<>>
  /\ zsets = <<>>
  /\ ideal = <<>>
  /\ regular = {}
  /\ charges = {}

Goto(r, where) == stage' = [stage EXCEPT ![r] = where]

\* KeyContext.value: the middleware does not know the model yet.
Value(r, dim) ==
  IF dim = "api_key" THEN ApiKey[r] ELSE IF unit[r] = "requests" THEN "" ELSE Model[r]

\* composeKey; a bucket in memory also belongs to its gateway.
Key(r) ==
  LET rule == rules[at[r]] IN
  <<IF rule.store = "memory_bucket" THEN gateway[r] ELSE "shared", at[r],
    [d \in rule.keyBy |-> Value(r, d)]>>

\* The middleware charges 1, the handler the prompt tokens; Allow at least 1.
Cost(r) == IF unit[r] = "requests" THEN 1 ELSE Max({1, Tokens[r]})

Limit(r) == rules[at[r]].limit

-----------------------------------------------------------------------------
\* Multi.check over the rules of one unit, for the middleware and then for the
\* handler.

RulesOf(u) == {i \in DOMAIN rules : rules[i].unit = u}

\* On to the first rule of unit u after rule i, or, when there is none, to the
\* next check or out.
Check(r, u, i) ==
  LET rest == {j \in RulesOf(u) : j > i}
      later == IF u = "requests" THEN RulesOf("tokens") ELSE {} IN
  \/ /\ rest # {}
     /\ Goto(r, "call")
     /\ unit' = [unit EXCEPT ![r] = u]
     /\ at' = [at EXCEPT ![r] = Min(rest)]
     /\ UNCHANGED verdict
  \/ /\ rest = {} /\ later # {}
     /\ Goto(r, "call")
     /\ unit' = [unit EXCEPT ![r] = "tokens"]
     /\ at' = [at EXCEPT ![r] = Min(later)]
     /\ UNCHANGED verdict
  \/ /\ rest = {} /\ later = {}
     /\ Goto(r, "done")
     /\ verdict' = [verdict EXCEPT ![r] = "allowed"]
     /\ UNCHANGED <<unit, at>>

Arrive(r) ==
  /\ stage[r] = "idle"
  /\ Check(r, "requests", 0)
  /\ UNCHANGED <<rules, gateway, clock, now, retry, local, remote>>

\* This rule allows.
Allowed(r) == Check(r, unit[r], at[r])

\* This rule denies: 429, and the rules after it are not asked.
Denied(r, after) ==
  /\ Goto(r, "done")
  /\ verdict' = [verdict EXCEPT ![r] = "denied"]
  /\ retry' = [retry EXCEPT ![r] = after]
  /\ UNCHANGED <<unit, at>>

\* The backend fails: the check is given up and the request passes it.
FailOpen(r) == Check(r, unit[r], Len(rules))

-----------------------------------------------------------------------------
\* MemoryBucket.Allow.

ReadClock(r) == now' = [now EXCEPT ![r] = clock + Skew[gateway[r]]]

\* A map with one entry set.
Put(map, k, v) == [x \in DOMAIN map \cup {k} |-> IF x = k THEN v ELSE map[x]]

\* The clock is read, and cache.Get.
Get(r) ==
  LET k == Key(r)
      hit == k \in DOMAIN lru /\ lru[k].dies > clock IN
  /\ stage[r] = "call" /\ rules[at[r]].store = "memory_bucket"
  /\ ReadClock(r)
  /\ lim' = [lim EXCEPT ![r] = IF hit THEN lru[k].id ELSE 0]
  /\ Goto(r, IF hit THEN "take" ELSE "add")
  /\ UNCHANGED <<rules, gateway, clock, unit, at, verdict, retry, lru, limiters, act, ideal, regular,
                 remote>>

\* NewLimiter and cache.Add, which replaces a bucket added in the meantime.
Add(r) ==
  LET id == Len(limiters) + 1 IN
  /\ stage[r] = "add"
  /\ limiters' = Append(limiters, NewLimiter(Limit(r)))
  /\ ideal' = Append(ideal, NewLimiter(Limit(r)))
  /\ regular' = regular \cup {id}
  /\ lru' = Put(lru, Key(r), [id |-> id, dies |-> clock + IdleTTL])
  /\ lim' = [lim EXCEPT ![r] = id]
  /\ Goto(r, "take")
  /\ UNCHANGED <<rules, gateway, clock, call, verdict, retry, act, remote>>

InOrder(r) == now[r] >= limiters[lim[r]].last

\* A call on the limiter, one critical section of its mutex.
Use(r, l) ==
  /\ limiters' = [limiters EXCEPT ![lim[r]] = l]
  /\ regular' = IF InOrder(r) /\ (stage[r] = "take" \/ Cost(r) = 1)
                THEN regular ELSE regular \ {lim[r]}

\* Mutant: AllowN replaced by a look at the tokens, which takes none.
TakePeeks(r) ==
  /\ stage[r] = "take"
  /\ \/ /\ Allows(limiters[lim[r]], now[r], Cost(r))
        /\ ideal' = [ideal EXCEPT ![lim[r]] = ReserveN(@, now[r], Cost(r))]
        /\ Allowed(r)
     \/ /\ ~Allows(limiters[lim[r]], now[r], Cost(r))
        /\ Goto(r, "reserve")
        /\ UNCHANGED <<ideal, unit, at, verdict>>
  /\ UNCHANGED <<rules, gateway, clock, now, retry, lru, limiters, regular, lim, act, remote>>

\* AllowN; a refusal changes nothing.
Take(r) ==
  LET l == limiters[lim[r]] IN
  /\ stage[r] = "take"
  /\ \/ /\ Allows(l, now[r], Cost(r))
        /\ Use(r, ReserveN(l, now[r], Cost(r)))
        /\ ideal' = [ideal EXCEPT ![lim[r]] = ReserveN(@, now[r], Cost(r))]
        /\ Allowed(r)
     \/ /\ ~Allows(l, now[r], Cost(r))
        /\ Goto(r, "reserve")
        /\ UNCHANGED <<limiters, ideal, regular, unit, at, verdict>>
  /\ UNCHANGED <<rules, gateway, clock, now, retry, lru, lim, act, remote>>

\* ReserveN, to learn the delay; impossible when the cost exceeds the burst.
Reserve(r) ==
  LET l == limiters[lim[r]]
      held == ReserveN(l, now[r], Cost(r)) IN
  /\ stage[r] = "reserve"
  /\ \/ /\ Cost(r) > l.burst
        /\ Denied(r, InfDuration)
        /\ UNCHANGED <<limiters, regular, act>>
     \/ /\ Cost(r) <= l.burst
        /\ Use(r, held)
        /\ act' = [act EXCEPT ![r] = held.event]
        /\ Goto(r, "cancel")
        /\ UNCHANGED <<unit, at, verdict, retry>>
  /\ UNCHANGED <<rules, gateway, clock, now, lru, lim, ideal, remote>>

\* DelayFrom and CancelAt.
Cancel(r) ==
  /\ stage[r] = "cancel"
  /\ Use(r, CancelAt(limiters[lim[r]], now[r], Cost(r), act[r]))
  /\ Denied(r, act[r] - now[r])
  /\ UNCHANGED <<rules, gateway, clock, now, lru, lim, act, ideal, remote>>

-----------------------------------------------------------------------------
\* RedisWindow.Allow.

\* The clock is read.
Send(r) ==
  /\ stage[r] = "call" /\ rules[at[r]].store = "redis_window"
  /\ ReadClock(r)
  /\ tries' = [tries EXCEPT ![r] = 0]
  /\ Goto(r, "script")
  /\ UNCHANGED <<rules, gateway, clock, unit, at, verdict, retry, local, zsets, charges>>

Absent == [entries |-> {}, seq |-> 0, dies |-> 0]

\* The sorted set and its counter share their deadline.
Stored(k) ==
  IF k \in DOMAIN zsets /\ zsets[k].dies > clock THEN zsets[k] ELSE Absent

\* ZREMRANGEBYSCORE -inf .. t - window.
Live(entries, t) == {e \in entries : e.score > t - Window}

Denies(entries, r) == Cardinality(entries) + Cost(r) > Limit(r)

\* Mutant: the member is the time, without the sequence number.
WrittenAtNow(z, live, r) ==
  [z EXCEPT !.entries = live \cup {[seq |-> now[r], score |-> now[r]]},
            !.dies = clock + Window + Slack]

\* ZADD of the next cost members, INCR by INCR, and EXPIRE.
Written(z, live, r) ==
  [entries |-> {e \in live : e.seq \notin z.seq + 1 .. z.seq + Cost(r)} \cup
               [seq : z.seq + 1 .. z.seq + Cost(r), score : {now[r]}],
   seq |-> z.seq + Cost(r),
   dies |-> clock + Window + Slack]

\* What the script does in Redis, whether or not its reply arrives.
Execute(r) ==
  LET k == Key(r)
      z == Stored(k)
      live == Live(z.entries, now[r]) IN
  /\ tries[r] < MaxTries
  /\ tries' = [tries EXCEPT ![r] = @ + 1]
  /\ IF Denies(live, r)
     THEN /\ zsets' = Put(zsets, k, [z EXCEPT !.entries = live])
          /\ UNCHANGED charges
     ELSE /\ zsets' = Put(zsets, k, Written(z, live, r))
          /\ charges' = charges \cup
               [by : {r}, try : {tries[r]}, key : {k}, at : {clock},
                seq : z.seq + 1 .. z.seq + Cost(r)]

\* Mutant: until the newest entry leaves the window.
RetryAfterNewest(entries, r) ==
  IF entries = {} THEN 0
  ELSE Max({0, Max({e.score : e \in entries}) + Window - now[r]})

\* retry_ms: when the oldest entry leaves the window, as r's clock sees it.
RetryAfter(entries, r) ==
  IF entries = {} THEN 0
  ELSE Max({0, Min({e.score : e \in entries}) + Window - now[r]})

\* The script's reply arrives.
Script(r) ==
  LET live == Live(Stored(Key(r)).entries, now[r]) IN
  /\ stage[r] = "script"
  /\ Execute(r)
  /\ \/ Denies(live, r) /\ Denied(r, RetryAfter(live, r))
     \/ ~Denies(live, r) /\ Allowed(r) /\ UNCHANGED retry
  /\ UNCHANGED <<rules, gateway, clock, now, local>>

\* It is lost, and go-redis sends the script again.
ScriptResent(r) ==
  /\ stage[r] = "script"
  /\ tries[r] + 1 < MaxTries
  /\ Execute(r)
  /\ UNCHANGED <<rules, gateway, clock, stage, call, verdict, retry, local>>

\* It is lost, or the script never ran, and the caller is told.
ScriptFails(r) ==
  /\ stage[r] = "script"
  /\ Execute(r) \/ UNCHANGED <<zsets, charges, tries>>
  /\ FailOpen(r)
  /\ UNCHANGED <<rules, gateway, clock, now, retry, local>>

-----------------------------------------------------------------------------
LimitTick ==
  /\ clock < MaxTime
  /\ \A r \in DOMAIN gateway :
       stage[r] \notin {"idle", "call", "done"} => clock + Skew[gateway[r]] - now[r] < MaxLag
  /\ clock' = clock + 1
  /\ UNCHANGED <<rules, gateway, stage, call, verdict, retry, local, remote>>

AllDone ==
  /\ \A r \in Requests : stage[r] \in {"absent", "done"}
  /\ UNCHANGED limitVars

LimitNext ==
  \/ \E r \in Requests :
       \/ Arrive(r)
       \/ Get(r) \/ Add(r) \/ Take(r) \/ Reserve(r) \/ Cancel(r)
       \/ Send(r) \/ Script(r) \/ ScriptResent(r) \/ ScriptFails(r)
  \/ LimitTick
  \/ AllDone

LimitSpec == LimitInit /\ [][LimitNext]_limitVars

-----------------------------------------------------------------------------
\* However requests, gateways with differing clocks and repeated scripts
\* interleave, a key is charged at most its limit in any stretch of real time
\* that is shorter than the window by the clocks' spread and the delay between
\* a clock reading and its script (slidingWindowScript).
Span == Window - MaxLag - Drift

Charged(k, t) == {c \in charges : c.key = k /\ c.at \in t - Span + 1 .. t}

WindowCap ==
  \A k \in {c.key : c \in charges}, t \in 0..clock :
    Cardinality(Charged(k, t)) <= rules[k[2]].limit

\* Whatever way AllowN, ReserveN and CancelAt of concurrent calls interleave, a
\* regular bucket is never fuller than one that its denials had not touched, at
\* its last reading and so, both refilling alike, at any later one: no token is
\* given out twice.
NeverLooser ==
  \A i \in regular : limiters[i].tokens <= TokensAt(ideal[i], limiters[i].last)

\* Retry-After is right when it is given: a denied request that waits that long
\* finds room if nobody takes it first, however many other denials overlap with
\* this one; and for a window no sooner (DelayFrom; retry_ms for a cost of 1).
RetryHonest ==
  [][\A r \in Requests :
       /\ stage[r] = "reserve" /\ stage'[r] = "cancel" /\ lim[r] \in regular /\ InOrder(r) =>
            TokensAt(ideal[lim[r]], act'[r]) >= Cost(r)
       /\ stage[r] = "script" /\ verdict'[r] = "denied" /\ Cost(r) = 1 =>
            LET left(t) == Live(zsets'[Key(r)].entries, t) IN
            /\ ~Denies(left(now[r] + retry'[r]), r)
            /\ Denies(left(now[r] + retry'[r] - 1), r)]_limitVars
=============================================================================
