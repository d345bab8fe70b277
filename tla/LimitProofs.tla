---------------------------- MODULE LimitProofs ----------------------------
(***************************************************************************)
(* RateLimit's sliding window, for any rules, requests, gateways, window   *)
(* and number of repeated scripts.                                         *)
(*                                                                         *)
(* WindowCap counts what was written, the script what Redis still holds.   *)
(* WindowsKept connects them: a charge younger than Span has a member of   *)
(* its own in the sorted set, under its sequence number, with a score no   *)
(* script can yet take for expired; CallsTyped bounds how far the reading  *)
(* of a script on its way can be from real time.                           *)
(*                                                                         *)
(* WindowHonest is the half of RetryHonest about windows.  QuotaKept says  *)
(* that a window which denies a cost of 1 is full and no fuller, so that   *)
(* the oldest member leaving makes room; BucketProofs has the other half.  *)
(***************************************************************************)
EXTENDS RateLimit, FiniteSetTheorems, TLAPS

\* A sorted set of Redis with its counter and deadline.
ZSet == [entries : SUBSET [seq : Nat, score : Int], seq : Nat, dies : Int]

\* A clock reading that a script may still use.
Reading(r) ==
  /\ at[r] \in DOMAIN rules /\ rules[at[r]].store = "redis_window"
  /\ now[r] <= clock + Skew[gateway[r]] /\ clock + Skew[gateway[r]] - MaxLag <= now[r]

\* What the requests' control keeps, as far as the windows need it.
CallsTyped ==
  /\ clock \in Nat
  /\ gateway \in [DOMAIN gateway -> DOMAIN Skew]
  /\ DOMAIN stage = Requests /\ DOMAIN at = Requests /\ now \in [Requests -> Int]
  /\ DOMAIN rules \subseteq Nat
  /\ \A i \in DOMAIN rules : rules[i].store = "redis_window" => rules[i].limit \in Int
  /\ \A r \in Requests :
       /\ stage[r] # "absent" => r \in DOMAIN gateway
       /\ stage[r] = "call" => at[r] \in DOMAIN rules
       /\ stage[r] = "script" => Reading(r)

\* A charge still has its member in the sorted set, which does not expire before a
\* window has passed and has not given its sequence number to another since.
Kept(c, sets) ==
  /\ c.key \in DOMAIN sets
  /\ sets[c.key].dies >= c.at + Window
  /\ c.seq <= sets[c.key].seq
  /\ \E e \in sets[c.key].entries :
       e.seq = c.seq /\ \E g \in DOMAIN Skew : e.score >= c.at + Skew[g] - MaxLag

\* A charge so young that no gateway's clock has seen it leave the window.
Young(c) == c.at > clock - Span

\* WindowCap for one key and one stretch.
Capped(k, t) == Cardinality(Charged(k, t)) <= rules[k[2]].limit

\* What links the charges to the sorted sets; inductive together with CallsTyped.
WindowsKept ==
  /\ \A k \in DOMAIN zsets : zsets[k] \in ZSet /\ IsFiniteSet(zsets[k].entries)
  /\ IsFiniteSet(charges)
  /\ \A c \in charges :
       /\ c.at \in 0 .. clock /\ c.seq \in Nat
       /\ rules[c.key[2]].limit \in Int
       /\ Young(c) => Kept(c, zsets)
       /\ \A t \in 0 .. clock : Capped(c.key, t)
  /\ \A c, d \in charges :
       Young(c) /\ Young(d) /\ c.key = d.key /\ c.seq = d.seq => c = d

\* No window holds more than its limit, which is at least 1.
QuotaKept ==
  /\ \A i \in DOMAIN rules : rules[i].store = "redis_window" => rules[i].limit >= 1
  /\ \A k \in DOMAIN zsets : Cardinality(zsets[k].entries) <= rules[k[2]].limit

\* A request whose checks go on has not been denied.
Undecided ==
  /\ DOMAIN verdict = Requests /\ DOMAIN retry = Requests
  /\ \A r \in Requests : stage[r] # "done" => verdict[r] # "denied"

\* RetryHonest for one request and a window.
WindowHonest(r) ==
  stage[r] = "script" /\ verdict'[r] = "denied" /\ Cost(r) = 1 =>
    /\ ~Denies(Live(zsets'[Key(r)].entries, now[r] + retry'[r]), r)
    /\ Denies(Live(zsets'[Key(r)].entries, now[r] + retry'[r] - 1), r)

\* The constants as the proofs below use them.
LEMMA ConstantsTyped ==
  /\ Drift \in Nat /\ Window \in Nat /\ Slack \in Nat /\ MaxLag \in Nat /\ Span \in Int
  /\ \A g \in DOMAIN Skew : Skew[g] \in Nat
  /\ \A g, h \in DOMAIN Skew : Skew[g] - Skew[h] <= Drift
<1>1. Drift \in Nat /\ Window \in Nat /\ Slack \in Nat /\ MaxLag \in Nat
  BY RateLimitConstants, Zenon
<1>2. Span \in Int
  BY <1>1 DEF Span
<1> QED
  BY <1>1, <1>2, RateLimitConstants, Zenon

\* A nonempty set of numbers has a least one.
LEMMA MinIn ==
  ASSUME NEW T \in SUBSET Nat, T # {}
  PROVE  Min(T) \in T /\ \A y \in T : Min(T) <= y
<1> DEFINE R == OpToRel(<, Nat)
<1>1. IsWellFoundedOn(R, Nat)
  BY NatLessThanWellFounded, Zenon
<1> HIDE DEF R
<1>2. PICK x \in T : \A y \in T : ~(<<y, x>> \in R)
  BY <1>1, WFMin, Zenon
<1>3. \A y \in T : ~(y < x)
  BY <1>2, Zenon DEF R, OpToRel
<1>4. \A y \in T : x =< y
  BY <1>3
<1> QED
  BY <1>4, Zenon DEF Min

\* A nonempty set of integers above a bound has a least one.
LEMMA LeastIn ==
  ASSUME NEW S \in SUBSET Int, S # {}, NEW b \in Int, \A s \in S : s > b
  PROVE  Min(S) \in S /\ \A s \in S : Min(S) <= s
<1> DEFINE T == {s - b : s \in S}
<1>1. T \in SUBSET Nat /\ T # {}
  <2>1. ASSUME NEW s \in S PROVE s - b \in Nat
    <3>1. s \in Int /\ s > b
      BY Zenon
    <3> QED
      BY <3>1
  <2> QED
    BY <2>1, Zenon
<1>2. Min(T) \in T /\ \A y \in T : Min(T) <= y
  <2> HIDE DEF T
  <2> QED
    BY <1>1, MinIn, Zenon
<1>3. PICK s \in S : Min(T) = s - b
  BY <1>2, Zenon
<1>4. ASSUME NEW y \in S PROVE s <= y
  <2>1. s - b <= y - b
    BY <1>2, <1>3, Zenon
  <2>2. y \in Int /\ s \in Int
    BY Zenon
  <2> QED
    BY <2>1, <2>2
<1> QED
  BY <1>4, Zenon DEF Min

\* The smaller and the larger of two numbers.
LEMMA MinMaxPair ==
  ASSUME NEW a \in Int, NEW b \in Int
  PROVE  /\ Min({a, b}) = IF a <= b THEN a ELSE b
         /\ Max({a, b}) = IF a >= b THEN a ELSE b
<1>1. \E x \in {a, b} : \A y \in {a, b} : x <= y
  OBVIOUS
<1>2. \E x \in {a, b} : \A y \in {a, b} : x >= y
  OBVIOUS
<1>3. Min({a, b}) \in {a, b} /\ \A y \in {a, b} : Min({a, b}) <= y
  BY <1>1, Zenon DEF Min
<1>4. Max({a, b}) \in {a, b} /\ \A y \in {a, b} : Max({a, b}) >= y
  BY <1>2, Zenon DEF Max
<1> QED
  BY <1>3, <1>4

\* Allow charges at least 1.
LEMMA CostTyped == ASSUME NEW r \in Requests PROVE Cost(r) \in Nat /\ Cost(r) >= 1
<1>1. ASSUME NEW n \in Nat PROVE Max({1, n}) \in Nat /\ Max({1, n}) >= 1
  <2>1. \E x \in {1, n} : \A y \in {1, n} : x >= y
    OBVIOUS
  <2>2. Max({1, n}) \in {1, n} /\ \A y \in {1, n} : Max({1, n}) >= y
    BY <2>1, Zenon DEF Max
  <2> QED
    BY <2>2
<1>2. Tokens[r] \in Nat
  BY RateLimitConstants, Zenon
<1>3. 1 \in Nat /\ 1 >= 1
  OBVIOUS
<1> QED
  BY <1>1, <1>2, <1>3, Zenon DEF Cost

-----------------------------------------------------------------------------
\* A step of one request keeps CallsTyped if that request is still in order.
LEMMA CallsStep ==
  ASSUME CallsTyped, NEW r \in Requests, r \in DOMAIN gateway,
         rules' = rules, gateway' = gateway, clock' = clock,
         DOMAIN stage' = Requests, DOMAIN at' = Requests, now' \in [Requests -> Int],
         \A q \in Requests \ {r} : stage'[q] = stage[q] /\ at'[q] = at[q] /\ now'[q] = now[q],
         stage'[r] = "call" => at'[r] \in DOMAIN rules,
         stage'[r] = "script" => Reading(r)'
  PROVE  CallsTyped'
<1>1. ASSUME NEW q \in Requests
      PROVE  /\ stage'[q] # "absent" => q \in DOMAIN gateway
             /\ stage'[q] = "call" => at'[q] \in DOMAIN rules
             /\ stage'[q] = "script" => Reading(q)'
  <2>1. CASE q = r
    BY <2>1, Zenon
  <2>2. CASE q # r
    BY <2>2, Zenon DEF CallsTyped, Reading
  <2> QED
    BY <2>1, <2>2, Zenon
<1> QED
  BY <1>1, Zenon DEF CallsTyped

\* Check moves on to a rule there is, or out.
LEMMA CheckMoves ==
  ASSUME CallsTyped, NEW r \in Requests, NEW u, NEW i, Check(r, u, i)
  PROVE  /\ DOMAIN stage' = Requests /\ DOMAIN at' = Requests
         /\ \A q \in Requests \ {r} : stage'[q] = stage[q] /\ at'[q] = at[q]
         /\ stage'[r] = "call" => at'[r] \in DOMAIN rules
         /\ stage'[r] # "script"
<1> DEFINE rest == {j \in RulesOf(u) : j > i}
           later == IF u = "requests" THEN RulesOf("tokens") ELSE {}
<1>1. rest \subseteq DOMAIN rules /\ later \subseteq DOMAIN rules
  BY Zenon DEF RulesOf
<1>2. rest \in SUBSET Nat /\ later \in SUBSET Nat
  BY <1>1, Zenon DEF CallsTyped
<1>3. /\ rest # {} => Min(rest) \in DOMAIN rules
      /\ later # {} => Min(later) \in DOMAIN rules
  BY <1>1, <1>2, MinIn, Zenon
<1>4. \/ rest # {} /\ Goto(r, "call") /\ at' = [at EXCEPT ![r] = Min(rest)]
      \/ later # {} /\ Goto(r, "call") /\ at' = [at EXCEPT ![r] = Min(later)]
      \/ Goto(r, "done") /\ at' = at
  BY Zenon DEF Check
<1> HIDE DEF rest, later
<1>5. PICK x \in {"call", "done"} :
        /\ stage' = [stage EXCEPT ![r] = x]
        /\ \/ \E j \in DOMAIN rules : at' = [at EXCEPT ![r] = j]
           \/ x = "done" /\ at' = at
  BY <1>3, <1>4, Zenon DEF Goto
<1>6. DOMAIN stage = Requests /\ DOMAIN at = Requests
  BY Zenon DEF CallsTyped
<1>7. stage'[r] = x /\ x # "script" /\ DOMAIN stage' = Requests
  BY <1>5, <1>6, Zenon
<1>8. /\ DOMAIN at' = Requests /\ \A q \in Requests \ {r} : at'[q] = at[q]
      /\ x = "call" => at'[r] \in DOMAIN rules
  BY <1>5, <1>6, Zenon
<1> QED
  BY <1>5, <1>6, <1>7, <1>8, Zenon

\* A denial ends the checks.
LEMMA DeniedMoves ==
  ASSUME CallsTyped, NEW r \in Requests, NEW after, Denied(r, after)
  PROVE  /\ DOMAIN stage' = Requests /\ stage'[r] = "done" /\ at' = at
         /\ \A q \in Requests \ {r} : stage'[q] = stage[q]
  BY Zenon DEF CallsTyped, Denied, Goto

\* The step ends in a check of the next rules or in a denial.
LEMMA VerdictCalls ==
  ASSUME CallsTyped, NEW r \in Requests, r \in DOMAIN gateway,
         rules' = rules, gateway' = gateway, clock' = clock, now' = now,
         \/ \E u, i : Check(r, u, i)
         \/ \E after : Denied(r, after)
  PROVE  CallsTyped'
<1>1. now' \in [Requests -> Int] /\ DOMAIN at = Requests
  BY Zenon DEF CallsTyped
<1>2. CASE \E u, i : Check(r, u, i)
  BY <1>1, <1>2, CheckMoves, CallsStep, Zenon
<1>3. CASE \E after : Denied(r, after)
  <2>1. /\ DOMAIN stage' = Requests /\ stage'[r] = "done" /\ at' = at
        /\ \A q \in Requests \ {r} : stage'[q] = stage[q]
    BY <1>3, DeniedMoves, Zenon
  <2>2. stage'[r] # "call" /\ stage'[r] # "script"
    BY <2>1, Zenon
  <2> QED
    BY <1>1, <2>1, <2>2, CallsStep, Zenon
<1> QED
  BY <1>2, <1>3, Zenon

\* The step goes to a stage that asks for nothing here.
LEMMA MovesCalls ==
  ASSUME CallsTyped, NEW r \in Requests, r \in DOMAIN gateway,
         NEW where, where \notin {"call", "script"}, Goto(r, where),
         rules' = rules, gateway' = gateway, clock' = clock, at' = at,
         now' \in [Requests -> Int], \A q \in Requests \ {r} : now'[q] = now[q]
  PROVE  CallsTyped'
<1>1. /\ DOMAIN stage' = Requests /\ stage'[r] = where /\ DOMAIN at' = Requests
      /\ \A q \in Requests \ {r} : stage'[q] = stage[q]
  BY Zenon DEF CallsTyped, Goto
<1> QED
  BY <1>1, CallsStep, Zenon

\* A fresh clock reading is the current time of its gateway.
LEMMA ClockRead ==
  ASSUME CallsTyped, NEW r \in Requests, r \in DOMAIN gateway, ReadClock(r)
  PROVE  /\ now' \in [Requests -> Int] /\ now'[r] = clock + Skew[gateway[r]]
         /\ \A q \in Requests \ {r} : now'[q] = now[q]
<1>1. clock + Skew[gateway[r]] \in Int
  <2>1. gateway[r] \in DOMAIN Skew /\ clock \in Nat
    BY Zenon DEF CallsTyped
  <2>2. Skew[gateway[r]] \in Nat
    BY <2>1, ConstantsTyped, Zenon
  <2> QED
    BY <2>1, <2>2
<1> QED
  BY <1>1, Zenon DEF CallsTyped, ReadClock

\* A script is sent with a fresh reading.
LEMMA SendCalls == ASSUME CallsTyped, NEW r \in Requests, Send(r) PROVE CallsTyped'
<1>1. /\ stage[r] = "call" /\ rules[at[r]].store = "redis_window" /\ ReadClock(r)
      /\ Goto(r, "script") /\ rules' = rules /\ gateway' = gateway /\ clock' = clock
      /\ at' = at
  BY Zenon DEF Send
<1>2. r \in DOMAIN gateway /\ at[r] \in DOMAIN rules
  BY <1>1, Zenon DEF CallsTyped
<1>3. /\ now' \in [Requests -> Int] /\ now'[r] = clock + Skew[gateway[r]]
      /\ \A q \in Requests \ {r} : now'[q] = now[q]
  BY <1>1, <1>2, ClockRead, Zenon
<1>4. Reading(r)'
  <2>1. gateway[r] \in DOMAIN Skew /\ clock \in Nat
    BY <1>2, Zenon DEF CallsTyped
  <2>2. Skew[gateway[r]] \in Nat /\ MaxLag \in Nat
    BY <2>1, ConstantsTyped, Zenon
  <2>3. /\ now'[r] <= clock + Skew[gateway[r]]
        /\ clock + Skew[gateway[r]] - MaxLag <= now'[r]
    BY <1>3, <2>1, <2>2
  <2> QED
    BY <1>1, <1>2, <2>3, Zenon DEF Reading
<1>5. /\ DOMAIN stage' = Requests /\ DOMAIN at' = Requests /\ stage'[r] = "script"
      /\ \A q \in Requests \ {r} : stage'[q] = stage[q]
  BY <1>1, Zenon DEF CallsTyped, Goto
<1>6. stage'[r] # "call"
  BY <1>5, Zenon
<1> QED
  BY <1>1, <1>2, <1>3, <1>4, <1>5, <1>6, CallsStep, Zenon

\* The bucket path reads the clock and sends no script.
LEMMA GetCalls == ASSUME CallsTyped, NEW r \in Requests, Get(r) PROVE CallsTyped'
<1>1. /\ stage[r] = "call" /\ ReadClock(r) /\ rules' = rules /\ gateway' = gateway
      /\ clock' = clock /\ at' = at
  BY Zenon DEF Get
<1>2. r \in DOMAIN gateway
  BY <1>1, Zenon DEF CallsTyped
<1>3. \E where : where \notin {"call", "script"} /\ Goto(r, where)
  <2>1. Goto(r, "take") \/ Goto(r, "add")
    BY Zenon DEF Get
  <2> QED
    BY <2>1, Zenon
<1> QED
  BY <1>1, <1>2, <1>3, ClockRead, MovesCalls, Zenon

\* The steps on a bucket, and Arrive.
LEMMA BucketCalls ==
  ASSUME CallsTyped, NEW r \in Requests,
         Arrive(r) \/ Add(r) \/ Take(r) \/ Reserve(r) \/ Cancel(r)
  PROVE  CallsTyped'
<1>1. rules' = rules /\ gateway' = gateway /\ clock' = clock /\ now' = now
  BY Zenon DEF Arrive, Add, Take, Reserve, Cancel, call
<1>2. r \in DOMAIN gateway /\ now' \in [Requests -> Int]
  BY <1>1, Zenon DEF CallsTyped, Arrive, Add, Take, Reserve, Cancel
<1>3. \/ \E u, i : Check(r, u, i)
      \/ \E after : Denied(r, after)
      \/ \E where : where \notin {"call", "script"} /\ Goto(r, where) /\ at' = at
  <2>1. CASE Arrive(r) \/ Cancel(r)
    BY <2>1, Zenon DEF Arrive, Cancel
  <2>2. CASE Add(r)
    BY <2>2, Zenon DEF Add, call
  <2>3. CASE Take(r)
    BY <2>3, Zenon DEF Take, Allowed
  <2>4. CASE Reserve(r)
    BY <2>4, Zenon DEF Reserve
  <2> QED
    BY <2>1, <2>2, <2>3, <2>4, Zenon
<1> QED
  BY <1>1, <1>2, <1>3, VerdictCalls, MovesCalls, Zenon

\* After a script the request moves on, stays, or is done.
LEMMA ScriptCalls ==
  ASSUME CallsTyped, NEW r \in Requests, Script(r) \/ ScriptFails(r)
  PROVE  CallsTyped'
<1>1. rules' = rules /\ gateway' = gateway /\ clock' = clock /\ now' = now
  BY Zenon DEF Script, ScriptFails
<1>2. r \in DOMAIN gateway
  BY Zenon DEF CallsTyped, Script, ScriptFails
<1>3. \/ \E u, i : Check(r, u, i)
      \/ \E after : Denied(r, after)
  BY Zenon DEF Script, ScriptFails, Allowed, FailOpen
<1> QED
  BY <1>1, <1>2, <1>3, VerdictCalls, Zenon

\* A step that changes nothing CallsTyped speaks of.
LEMMA StillCalls ==
  ASSUME CallsTyped, rules' = rules, gateway' = gateway, clock' = clock, stage' = stage,
         at' = at, now' = now
  PROVE  CallsTyped'
  BY Zenon DEF CallsTyped, Reading

\* Time passes only while every script's reading is young enough.
LEMMA TickCalls == ASSUME CallsTyped, LimitTick PROVE CallsTyped'
<1>1. /\ rules' = rules /\ gateway' = gateway /\ stage' = stage /\ at' = at /\ now' = now
      /\ clock' = clock + 1
  BY Zenon DEF LimitTick, call
<1>2. clock \in Nat /\ clock' \in Nat
  BY <1>1 DEF CallsTyped
<1>3. ASSUME NEW r \in Requests, stage[r] = "script" PROVE Reading(r)'
  <2>1. r \in DOMAIN gateway /\ Reading(r) /\ now[r] \in Int /\ gateway[r] \in DOMAIN Skew
    BY <1>3, Zenon DEF CallsTyped
  <2>2. clock + Skew[gateway[r]] - now[r] < MaxLag
    BY <1>3, <2>1, Zenon DEF LimitTick
  <2>3. Skew[gateway[r]] \in Nat /\ MaxLag \in Nat
    BY <2>1, ConstantsTyped, Zenon
  <2>4. now[r] <= clock + Skew[gateway[r]]
    BY <2>1, Zenon DEF Reading
  <2>5. /\ now[r] <= clock' + Skew[gateway[r]]
        /\ clock' + Skew[gateway[r]] - MaxLag <= now[r]
    BY <1>1, <1>2, <2>1, <2>2, <2>3, <2>4
  <2> QED
    BY <1>1, <2>1, <2>5, Zenon DEF Reading
<1> QED
  BY <1>1, <1>2, <1>3, Zenon DEF CallsTyped

\* Every step keeps CallsTyped.
LEMMA NextCalls == CallsTyped /\ [LimitNext]_limitVars => CallsTyped'
<1> SUFFICES ASSUME CallsTyped, [LimitNext]_limitVars PROVE CallsTyped'
  BY Zenon
<1>1. ASSUME NEW r \in Requests,
             Arrive(r) \/ Add(r) \/ Take(r) \/ Reserve(r) \/ Cancel(r)
      PROVE  CallsTyped'
  BY <1>1, BucketCalls, Zenon
<1>2. ASSUME NEW r \in Requests, Get(r) PROVE CallsTyped'
  BY <1>2, GetCalls, Zenon
<1>3. ASSUME NEW r \in Requests, Send(r) PROVE CallsTyped'
  BY <1>3, SendCalls, Zenon
<1>4. ASSUME NEW r \in Requests, Script(r) \/ ScriptFails(r) PROVE CallsTyped'
  BY <1>4, ScriptCalls, Zenon
<1>5. ASSUME NEW r \in Requests, ScriptResent(r) PROVE CallsTyped'
  BY <1>5, StillCalls, Zenon DEF ScriptResent, call
<1>6. CASE LimitTick
  BY <1>6, TickCalls, Zenon
<1>7. CASE AllDone \/ UNCHANGED limitVars
  BY <1>7, StillCalls, Zenon DEF AllDone, limitVars, call
<1> QED
  BY <1>1, <1>2, <1>3, <1>4, <1>5, <1>6, <1>7, Zenon DEF LimitNext

\* Build yields rules with the configured limits; nobody has called yet.
LEMMA InitCalls == LimitInit => CallsTyped
<1> SUFFICES ASSUME LimitInit PROVE CallsTyped
  BY Zenon
<1>1. PICK s \in Scenarios :
        /\ rules = Build(s.config) /\ gateway = s.gateway
        /\ stage = [r \in Requests |-> IF r \in DOMAIN s.gateway THEN "idle" ELSE "absent"]
  BY Zenon DEF LimitInit
<1>2. s.config \in Seq(RuleConfig)
  BY RateLimitConstants, Zenon
<1>3. DOMAIN s.config \subseteq Nat /\ \A i \in DOMAIN s.config : s.config[i].limit \in Int
  <2>1. ASSUME NEW f \in Seq(RuleConfig)
        PROVE  DOMAIN f \subseteq Nat /\ \A i \in DOMAIN f : f[i] \in RuleConfig
    OBVIOUS
  <2>2. ASSUME NEW rc \in RuleConfig PROVE rc.limit \in Int
    BY DEF RuleConfig
  <2> QED
    BY <1>2, <2>1, <2>2, Zenon
<1>4. /\ DOMAIN rules = DOMAIN s.config
      /\ \A i \in DOMAIN rules :
           rules[i].store = "redis_window" => rules[i].limit = s.config[i].limit
  <2>1. DOMAIN rules = DOMAIN s.config
    BY <1>1, Zenon DEF Build
  <2>2. ASSUME NEW i \in DOMAIN rules, rules[i].store = "redis_window"
        PROVE  rules[i].limit = s.config[i].limit
    <3>1. rules[i] = [store |-> s.config[i].algorithm,
                      limit |-> IF s.config[i].algorithm = "memory_bucket"
                                THEN Burst(s.config[i]) ELSE s.config[i].limit,
                      keyBy |-> s.config[i].keyBy, unit |-> Unit(s.config[i])]
      BY <1>1, <2>1, Zenon DEF Build
    <3>2. s.config[i].algorithm = "redis_window"
      BY <2>2, <3>1
    <3> QED
      BY <3>1, <3>2
  <2> QED
    BY <2>1, <2>2, Zenon
<1>5. PICK R \in SUBSET Requests : s.gateway \in [R -> DOMAIN Skew]
  BY RateLimitConstants, Zenon
<1>6. gateway \in [DOMAIN gateway -> DOMAIN Skew]
  BY <1>1, <1>5, Zenon
<1>7. clock \in Nat /\ now \in [Requests -> Int] /\ DOMAIN at = Requests
  BY DEF LimitInit
<1>8. \A r \in Requests :
        /\ stage[r] # "absent" => r \in DOMAIN gateway
        /\ stage[r] # "call" /\ stage[r] # "script"
  BY <1>1, Zenon
<1>9. DOMAIN stage = Requests
  BY <1>1, Zenon
<1> QED
  BY <1>3, <1>4, <1>6, <1>7, <1>8, <1>9, Zenon DEF CallsTyped

\* Redis is empty at first.
LEMMA InitWindows == LimitInit => WindowsKept
<1> SUFFICES ASSUME LimitInit PROVE WindowsKept
  BY Zenon
<1>1. charges = {} /\ DOMAIN zsets = {}
  BY DEF LimitInit
<1> QED
  BY <1>1, FS_EmptySet, Zenon DEF WindowsKept

-----------------------------------------------------------------------------
\* A step that changes nothing WindowsKept speaks of.
LEMMA StillWindows ==
  ASSUME WindowsKept, rules' = rules, clock' = clock, zsets' = zsets, charges' = charges
  PROVE  WindowsKept'
  BY Zenon DEF WindowsKept, Young, Capped, Charged

\* A later clock asks less: fewer charges are young, and those in the stretch that
\* ends now were in the one that ended a tick ago.
LEMMA TickWindows == ASSUME CallsTyped, WindowsKept, LimitTick PROVE WindowsKept'
<1>1. /\ rules' = rules /\ zsets' = zsets /\ charges' = charges /\ clock' = clock + 1
      /\ clock \in Nat
  BY Zenon DEF LimitTick, remote, CallsTyped
<1>2. ASSUME NEW c \in charges
      PROVE  c.at \in Nat /\ c.at \in 0 .. clock' /\ (Young(c)' => Young(c))
  <2>1. c.at \in 0 .. clock /\ Span \in Int
    BY ConstantsTyped, Zenon DEF WindowsKept
  <2> QED
    BY <1>1, <2>1 DEF Young
<1>3. ASSUME NEW c \in charges, NEW t \in 0 .. clock' PROVE Capped(c.key, t)'
  <2>1. CASE t \in 0 .. clock
    BY <1>1, <2>1, Zenon DEF WindowsKept, Capped, Charged
  <2>2. CASE t \notin 0 .. clock
    <3>1. t = clock + 1 /\ clock \in 0 .. clock
      BY <1>1, <2>2
    <3>2. \A d \in charges : d.at \in t - Span + 1 .. t => d.at \in clock - Span + 1 .. clock
      <4>1. \A d \in charges : d.at \in 0 .. clock
        BY Zenon DEF WindowsKept
      <4> QED
        BY <1>1, <3>1, <4>1, ConstantsTyped
    <3>3. Charged(c.key, t) \in SUBSET Charged(c.key, clock)
      BY <3>2, Zenon DEF Charged
    <3>4. IsFiniteSet(Charged(c.key, clock))
      <4>1. Charged(c.key, clock) \in SUBSET charges
        BY Zenon DEF Charged
      <4> QED
        BY <4>1, FS_Subset, Zenon DEF WindowsKept
    <3>5. /\ Cardinality(Charged(c.key, t)) \in Nat
          /\ Cardinality(Charged(c.key, clock)) \in Nat
          /\ Cardinality(Charged(c.key, t)) <= Cardinality(Charged(c.key, clock))
      BY <3>3, <3>4, FS_Subset, FS_CardinalityType, Zenon
    <3>6. /\ Cardinality(Charged(c.key, clock)) <= rules[c.key[2]].limit
          /\ rules[c.key[2]].limit \in Int
      BY <3>1, Zenon DEF WindowsKept, Capped
    <3>7. Cardinality(Charged(c.key, t)) <= rules[c.key[2]].limit
      BY <3>5, <3>6
    <3> QED
      BY <1>1, <3>7, Zenon DEF Capped, Charged
  <2> QED
    BY <2>1, <2>2, Zenon
<1> QED
  BY <1>1, <1>2, <1>3, Zenon DEF WindowsKept

-----------------------------------------------------------------------------
\* No reading a script uses puts the member of a young charge out of the window:
\* the readings differ from real time by the skew of their clocks, and are late
\* by at most MaxLag.
LEMMA StaysLive ==
  ASSUME CallsTyped, NEW r \in Requests, stage[r] = "script", NEW a \in 0 .. clock,
         a > clock - Span, NEW score \in Int, NEW g \in DOMAIN Skew,
         score >= a + Skew[g] - MaxLag
  PROVE  score > now[r] - Window
<1>1. Reading(r) /\ gateway[r] \in DOMAIN Skew /\ now[r] \in Int /\ clock \in Nat
  BY Zenon DEF CallsTyped
<1>2. now[r] <= clock + Skew[gateway[r]]
  BY <1>1, Zenon DEF Reading
<1>3. Skew[g] \in Nat /\ Skew[gateway[r]] \in Nat /\ Skew[gateway[r]] - Skew[g] <= Drift
  BY <1>1, ConstantsTyped, Zenon
<1>4. Drift \in Nat /\ Window \in Nat /\ MaxLag \in Nat /\ Span = Window - MaxLag - Drift
  BY ConstantsTyped, Zenon DEF Span
<1> QED
  BY <1>1, <1>2, <1>3, <1>4

\* What a script finds in Redis is a sorted set, an expired one an empty one.
LEMMA StoredTyped ==
  ASSUME WindowsKept, NEW k
  PROVE  Stored(k) \in ZSet /\ IsFiniteSet(Stored(k).entries)
<1>1. Absent \in ZSet /\ Absent.entries = {}
  BY DEF Absent, ZSet
<1> QED
  BY <1>1, FS_EmptySet, Zenon DEF WindowsKept, Stored

\* The member of a young charge is among those the script counts.
LEMMA YoungIsLive ==
  ASSUME CallsTyped, WindowsKept, NEW r \in Requests, stage[r] = "script",
         NEW c \in charges, Young(c)
  PROVE  LET z == Stored(c.key) IN
         /\ z = zsets[c.key]
         /\ z.dies >= c.at + Window /\ c.seq <= z.seq
         /\ \E e \in Live(z.entries, now[r]) :
              e.seq = c.seq /\ \E g \in DOMAIN Skew : e.score >= c.at + Skew[g] - MaxLag
<1> DEFINE z == Stored(c.key)
<1>1. Kept(c, zsets) /\ c.at \in 0 .. clock /\ zsets[c.key] \in ZSet
  BY Zenon DEF WindowsKept, Kept
<1>2. zsets[c.key].dies > clock
  <2>1. zsets[c.key].dies \in Int /\ zsets[c.key].dies >= c.at + Window
    BY <1>1 DEF ZSet, Kept
  <2>2. c.at > clock - Span /\ Span <= Window
    BY ConstantsTyped DEF Span, Young
  <2>3. Span \in Int /\ Window \in Nat /\ clock \in Nat
    BY ConstantsTyped, Zenon DEF CallsTyped
  <2> QED
    BY <1>1, <2>1, <2>2, <2>3
<1>3. z = zsets[c.key]
  BY <1>1, <1>2, Zenon DEF Stored, Kept
<1> HIDE DEF z
<1>4. PICK e \in z.entries :
        e.seq = c.seq /\ \E g \in DOMAIN Skew : e.score >= c.at + Skew[g] - MaxLag
  BY <1>1, <1>3, Zenon DEF Kept
<1>5. e.score \in Int
  BY <1>1, <1>3, <1>4 DEF ZSet
<1>6. e.score > now[r] - Window
  BY <1>1, <1>4, <1>5, StaysLive, Zenon DEF Young
<1>7. e \in Live(z.entries, now[r])
  BY <1>4, <1>6, Zenon DEF Live
<1> QED
  BY <1>1, <1>3, <1>4, <1>7, Zenon DEF z, Kept

\* At most as many charges of a key are in the stretch that ends now as members of
\* it are live: each has one, under its own sequence number.
LEMMA ChargedAreLive ==
  ASSUME CallsTyped, WindowsKept, NEW r \in Requests, stage[r] = "script", NEW k
  PROVE  LET live == Live(Stored(k).entries, now[r]) IN
         /\ IsFiniteSet(live) /\ IsFiniteSet(Charged(k, clock))
         /\ Cardinality(Charged(k, clock)) <= Cardinality(live)
<1> DEFINE live == Live(Stored(k).entries, now[r])
           recent == Charged(k, clock)
           f == [c \in recent |-> CHOOSE e \in live : e.seq = c.seq]
<1>1. IsFiniteSet(live)
  <2>1. live \in SUBSET Stored(k).entries
    BY Zenon DEF Live
  <2> QED
    BY <2>1, StoredTyped, FS_Subset, Zenon
<1>2. ASSUME NEW c \in recent PROVE c \in charges /\ c.key = k /\ Young(c)
  <2>1. c \in charges /\ c.key = k /\ c.at \in clock - Span + 1 .. clock
    BY Zenon DEF Charged
  <2>2. c.at \in Int /\ Span \in Int /\ clock \in Int
    BY <2>1, ConstantsTyped DEF CallsTyped
  <2> QED
    BY <2>1, <2>2 DEF Young
<1>3. ASSUME NEW c \in recent PROVE \E e \in live : e.seq = c.seq
  BY <1>2, YoungIsLive, Zenon
<1> HIDE DEF live, recent
<1>4. \A c \in recent : f[c] \in live /\ f[c].seq = c.seq
  BY <1>3, Zenon
<1>5. f \in [recent -> live]
  BY <1>4, Zenon
<1>6. ASSUME NEW c \in recent, NEW d \in recent, f[c] = f[d] PROVE c = d
  <2>1. f[c].seq = c.seq /\ f[d].seq = d.seq
    BY <1>4, Zenon
  <2>2. c.seq = d.seq
    BY <1>6, <2>1, Zenon
  <2> QED
    BY <1>2, <2>2, Zenon DEF WindowsKept
<1>7. f \in Injection(recent, live)
  BY <1>5, <1>6, Zenon DEF Injection, IsInjective
<1>8. IsFiniteSet(recent) /\ Cardinality(recent) <= Cardinality(live)
  BY <1>1, <1>7, FS_Injection, Zenon
<1> QED
  BY <1>1, <1>8, Zenon DEF live, recent

\* The sorted set w still holds the members of the young charges of k.
HoldsYoung(k, w) ==
  \A c \in charges : Young(c) /\ c.key = k =>
    /\ w.dies >= c.at + Window /\ c.seq <= w.seq
    /\ \E e \in w.entries :
         e.seq = c.seq /\ \E g \in DOMAIN Skew : e.score >= c.at + Skew[g] - MaxLag

\* A sorted set that is replaced by one that still holds the members of its young
\* charges.
LEMMA PutKeeps ==
  ASSUME WindowsKept, NEW k, NEW w \in ZSet, IsFiniteSet(w.entries),
         zsets' = Put(zsets, k, w), HoldsYoung(k, w)
  PROVE  /\ \A q \in DOMAIN zsets' : zsets'[q] \in ZSet /\ IsFiniteSet(zsets'[q].entries)
         /\ k \in DOMAIN zsets' /\ zsets'[k] = w
         /\ \A c \in charges : Young(c) => Kept(c, zsets')
<1>1. /\ DOMAIN zsets' = DOMAIN zsets \cup {k} /\ zsets'[k] = w
      /\ \A q \in DOMAIN zsets : q # k => zsets'[q] = zsets[q]
  BY Zenon DEF Put
<1>2. \A q \in DOMAIN zsets' : zsets'[q] \in ZSet /\ IsFiniteSet(zsets'[q].entries)
  BY <1>1, Zenon DEF WindowsKept
<1>3. ASSUME NEW c \in charges, Young(c) PROVE Kept(c, zsets')
  <2>1. CASE c.key = k
    BY <1>1, <1>3, <2>1, Zenon DEF Kept, HoldsYoung
  <2>2. CASE c.key # k
    BY <1>1, <1>3, <2>2, Zenon DEF Kept, WindowsKept
  <2> QED
    BY <2>1, <2>2, Zenon
<1> QED
  BY <1>1, <1>2, <1>3, Zenon

\* A script that denies only drops members that have left the window.
LEMMA DeniedWindows ==
  ASSUME CallsTyped, WindowsKept, NEW r \in Requests, stage[r] = "script", NEW k,
         zsets' = Put(zsets, k, [Stored(k) EXCEPT !.entries = Live(Stored(k).entries, now[r])]),
         charges' = charges, rules' = rules, clock' = clock
  PROVE  WindowsKept'
<1> DEFINE z == Stored(k)
           live == Live(z.entries, now[r])
           w == [z EXCEPT !.entries = live]
<1>1. z \in ZSet /\ IsFiniteSet(live)
  BY StoredTyped, ChargedAreLive, Zenon
<1>2. live \in SUBSET z.entries
  BY Zenon DEF Live
<1>3. ASSUME NEW c \in charges, Young(c), c.key = k
      PROVE  /\ z.dies >= c.at + Window /\ c.seq <= z.seq
             /\ \E e \in live :
                  e.seq = c.seq /\ \E g \in DOMAIN Skew : e.score >= c.at + Skew[g] - MaxLag
  BY <1>3, YoungIsLive, Zenon
<1> HIDE DEF z, live
<1>4. w \in ZSet /\ w.entries = live /\ w.seq = z.seq /\ w.dies = z.dies
  BY <1>1, <1>2 DEF ZSet
<1>5. zsets' = Put(zsets, k, w)
  BY Zenon DEF z, live
<1> HIDE DEF w
<1>6. /\ \A q \in DOMAIN zsets' : zsets'[q] \in ZSet /\ IsFiniteSet(zsets'[q].entries)
      /\ \A c \in charges : Young(c) => Kept(c, zsets')
  <2>1. IsFiniteSet(w.entries)
    BY <1>1, <1>4, Zenon
  <2>2. HoldsYoung(k, w)
    BY <1>3, <1>4, Zenon DEF HoldsYoung
  <2> QED
    BY <1>4, <1>5, <2>1, <2>2, PutKeeps, Zenon
<1> QED
  BY <1>6, Zenon DEF WindowsKept, Young, Capped, Charged

\* What Written makes of a sorted set.
LEMMA WrittenTyped ==
  ASSUME NEW r \in Requests, NEW z \in ZSet, NEW live \in SUBSET z.entries,
         IsFiniteSet(live), now[r] \in Int, clock \in Nat
  PROVE  LET w == Written(z, live, r) IN
         /\ w \in ZSet /\ IsFiniteSet(w.entries)
         /\ w.seq = z.seq + Cost(r) /\ w.dies = clock + Window + Slack
         /\ \A e \in live : e.seq <= z.seq => e \in w.entries
         /\ \A i \in z.seq + 1 .. z.seq + Cost(r) :
              [seq |-> i, score |-> now[r]] \in w.entries
<1> DEFINE fresh == z.seq + 1 .. z.seq + Cost(r)
           members == [seq : fresh, score : {now[r]}]
           old == {e \in live : e.seq \notin fresh}
           w == Written(z, live, r)
<1>1. /\ z.seq \in Nat /\ Cost(r) \in Nat /\ z.entries \subseteq [seq : Nat, score : Int]
      /\ Window \in Nat /\ Slack \in Nat
  BY CostTyped, ConstantsTyped DEF ZSet
<1>2. w.entries = old \cup members /\ w.seq = z.seq + Cost(r)
      /\ w.dies = clock + Window + Slack
      /\ w = [entries |-> old \cup members, seq |-> z.seq + Cost(r),
              dies |-> clock + Window + Slack]
  BY Zenon DEF Written
<1>3. fresh \subseteq Nat /\ IsFiniteSet(fresh)
  <2>1. z.seq + 1 \in Int /\ z.seq + Cost(r) \in Int /\ fresh \subseteq Nat
    BY <1>1
  <2> QED
    BY <2>1, FS_Interval, Zenon
<1>4. members \subseteq [seq : Nat, score : Int]
  BY <1>3
<1>5. IsFiniteSet(members)
  <2> DEFINE f == [e \in members |-> e.seq]
  <2>1. \A e \in members : e.seq \in fresh /\ e = [seq |-> e.seq, score |-> now[r]]
    OBVIOUS
  <2> HIDE DEF members, fresh
  <2>2. f \in [members -> fresh] /\ \A a, b \in members : f[a] = f[b] => a = b
    BY <2>1, Zenon
  <2>3. f \in Injection(members, fresh)
    BY <2>2, Zenon DEF Injection, IsInjective
  <2> QED
    BY <1>3, <2>3, FS_Injection, Zenon
<1>6. IsFiniteSet(old) /\ old \subseteq [seq : Nat, score : Int]
  <2>1. old \in SUBSET live
    BY Zenon
  <2> QED
    BY <1>1, <2>1, FS_Subset, Zenon
<1>7. IsFiniteSet(w.entries)
  <2> HIDE DEF old, members, w
  <2>1. IsFiniteSet(old \cup members)
    BY <1>5, <1>6, FS_Union, Zenon
  <2> QED
    BY <1>2, <2>1, Zenon
<1>8. w \in ZSet
  <2>1. old \cup members \in SUBSET [seq : Nat, score : Int]
    BY <1>4, <1>6, Zenon
  <2>2. z.seq + Cost(r) \in Nat /\ clock + Window + Slack \in Int
    BY <1>1
  <2> HIDE DEF old, members
  <2> QED
    BY <1>2, <2>1, <2>2, Zenon DEF ZSet
<1>9. ASSUME NEW e \in live, e.seq <= z.seq PROVE e \in w.entries
  <2>1. e.seq \in Nat
    BY <1>1
  <2>2. e.seq \notin fresh
    BY <1>1, <1>9, <2>1
  <2> QED
    BY <1>2, <2>2, Zenon
<1>10. \A i \in fresh : [seq |-> i, score |-> now[r]] \in members
  OBVIOUS
<1> HIDE DEF members, old, w
<1>11. \A i \in fresh : [seq |-> i, score |-> now[r]] \in w.entries
  BY <1>2, <1>10, Zenon
<1> QED
  BY <1>2, <1>7, <1>8, <1>9, <1>11, Zenon DEF w

\* The charges of one script: as many as it costs, each under a number of its own.
ChargesOf(r, k, z) ==
  [by : {r}, try : {tries[r]}, key : {k}, at : {clock},
   seq : z.seq + 1 .. z.seq + Cost(r)]

\* ChargesOf is finite, no larger than the cost, and numbers its members.
LEMMA NewCharges ==
  ASSUME NEW r \in Requests, NEW k, NEW z \in ZSet
  PROVE  LET new == ChargesOf(r, k, z) IN
         /\ IsFiniteSet(new) /\ Cardinality(new) <= Cost(r)
         /\ \A c \in new : c.key = k /\ c.at = clock /\ c.seq \in z.seq + 1 .. z.seq + Cost(r)
         /\ \A c, d \in new : c.seq = d.seq => c = d
<1> DEFINE fresh == z.seq + 1 .. z.seq + Cost(r)
           new == ChargesOf(r, k, z)
           f == [c \in new |-> c.seq]
<1>1. Cost(r) \in Nat /\ Cost(r) >= 1
  BY CostTyped, Zenon
<1>2. IsFiniteSet(fresh) /\ Cardinality(fresh) = Cost(r)
  <2>1. z.seq \in Nat
    BY DEF ZSet
  <2>2. /\ z.seq + 1 \in Int /\ z.seq + Cost(r) \in Int /\ ~(z.seq + 1 > z.seq + Cost(r))
        /\ (z.seq + Cost(r)) - (z.seq + 1) + 1 = Cost(r)
    BY <1>1, <2>1
  <2> QED
    BY <2>2, FS_Interval, Zenon
<1>3. \A c \in new : /\ c.key = k /\ c.at = clock /\ c.seq \in fresh
                     /\ c = [by |-> r, try |-> tries[r], key |-> k, at |-> clock, seq |-> c.seq]
  BY DEF ChargesOf
<1> HIDE DEF fresh, new
<1>4. \A c, d \in new : c.seq = d.seq => c = d
  BY <1>3, Zenon
<1>5. f \in [new -> fresh] /\ \A c, d \in new : f[c] = f[d] => c = d
  BY <1>3, <1>4, Zenon
<1>6. f \in Injection(new, fresh)
  BY <1>5, Zenon DEF Injection, IsInjective
<1> HIDE DEF f
<1>7. IsFiniteSet(new) /\ Cardinality(new) <= Cardinality(fresh)
  BY <1>2, <1>6, FS_Injection, Zenon
<1> QED
  BY <1>2, <1>3, <1>4, <1>7, Zenon DEF fresh, new

\* The invariant after a step, from its parts.
LEMMA WindowsAfter ==
  ASSUME \A q \in DOMAIN zsets' : zsets'[q] \in ZSet /\ IsFiniteSet(zsets'[q].entries),
         IsFiniteSet(charges'),
         \A c \in charges' :
           /\ c.at \in 0 .. clock' /\ c.seq \in Nat
           /\ rules'[c.key[2]].limit \in Int
           /\ Young(c)' => Kept(c, zsets)'
           /\ \A t \in 0 .. clock' : Capped(c.key, t)',
         \A c, d \in charges' :
           Young(c)' /\ Young(d)' /\ c.key = d.key /\ c.seq = d.seq => c = d
  PROVE  WindowsKept'
  BY Zenon DEF WindowsKept

\* A script of r that admits, on the sorted set z of key k.
Admits(r, k, z, live) ==
  /\ stage[r] = "script"
  /\ k = Key(r) /\ z = Stored(k) /\ live = Live(z.entries, now[r])
  /\ ~Denies(live, r)
  /\ zsets' = Put(zsets, k, Written(z, live, r))
  /\ charges' = charges \cup ChargesOf(r, k, z)
  /\ rules' = rules /\ clock' = clock

\* A script that admits: the members it writes go on top of the live ones, which
\* with them are still within the limit.
LEMMA AdmittedWindows ==
  ASSUME CallsTyped, WindowsKept, NEW r \in Requests, NEW k, NEW z, NEW live,
         Admits(r, k, z, live)
  PROVE  WindowsKept'
<1> DEFINE new == ChargesOf(r, k, z)
           w == Written(z, live, r)
           limit == rules[k[2]].limit
<1> HIDE DEF new, w, limit
<1>0. stage[r] = "script" /\ rules' = rules /\ clock' = clock
  BY Zenon DEF Admits
<1>1. /\ z \in ZSet /\ z.seq \in Nat /\ live \in SUBSET z.entries /\ IsFiniteSet(live)
      /\ now[r] \in Int /\ clock \in Nat /\ Cost(r) \in Nat /\ Cost(r) >= 1
  <2>1. z \in ZSet /\ IsFiniteSet(live) /\ live \in SUBSET z.entries
    BY StoredTyped, ChargedAreLive, Zenon DEF Admits, Live
  <2>2. z.seq \in Nat
    BY <2>1 DEF ZSet
  <2> QED
    BY <2>1, <2>2, CostTyped, Zenon DEF CallsTyped
<1>2. /\ IsFiniteSet(new) /\ Cardinality(new) <= Cost(r)
      /\ \A c \in new : c.key = k /\ c.at = clock /\ c.seq \in z.seq + 1 .. z.seq + Cost(r)
      /\ \A c, d \in new : c.seq = d.seq => c = d
  BY <1>1, NewCharges, Zenon DEF new
<1>3. charges' = charges \cup new /\ zsets' = Put(zsets, k, w)
  BY Zenon DEF Admits, new, w
<1>4. /\ w \in ZSet /\ IsFiniteSet(w.entries)
      /\ w.seq = z.seq + Cost(r) /\ w.dies = clock + Window + Slack
      /\ \A e \in live : e.seq <= z.seq => e \in w.entries
      /\ \A i \in z.seq + 1 .. z.seq + Cost(r) :
           [seq |-> i, score |-> now[r]] \in w.entries
  BY <1>1, WrittenTyped, Zenon DEF w
<1>5. limit \in Int /\ Cardinality(live) + Cost(r) <= limit /\ Cardinality(live) \in Nat
  <2>1. Reading(r)
    BY <1>0, Zenon DEF CallsTyped
  <2>2. limit = Limit(r)
    BY DEF Admits, Limit, Key, limit
  <2>3. limit \in Int
    BY <2>1, <2>2, Zenon DEF Reading, CallsTyped, Limit
  <2>4. Cardinality(live) \in Nat
    BY <1>1, FS_CardinalityType, Zenon
  <2>5. ~(Cardinality(live) + Cost(r) > limit)
    BY <2>2, Zenon DEF Admits, Denies
  <2> QED
    BY <1>1, <2>3, <2>4, <2>5
<1>6. Window \in Nat /\ Slack \in Nat /\ MaxLag \in Nat /\ Span \in Int /\ Span <= Window
  BY ConstantsTyped DEF Span
<1>7. ASSUME NEW c \in charges, Young(c), c.key = k
      PROVE  /\ w.dies >= c.at + Window /\ c.seq <= w.seq /\ c.seq <= z.seq
             /\ \E e \in w.entries :
                  e.seq = c.seq /\ \E g \in DOMAIN Skew : e.score >= c.at + Skew[g] - MaxLag
  <2>1. /\ c.seq <= z.seq
        /\ \E e \in live :
             e.seq = c.seq /\ \E g \in DOMAIN Skew : e.score >= c.at + Skew[g] - MaxLag
    BY <1>7, YoungIsLive, Zenon DEF Admits
  <2>2. c.at \in 0 .. clock /\ c.seq \in Nat
    BY Zenon DEF WindowsKept
  <2>3. w.dies >= c.at + Window /\ c.seq <= w.seq
    BY <1>1, <1>4, <1>6, <2>1, <2>2
  <2> QED
    BY <1>4, <2>1, <2>3, Zenon
<1>8. HoldsYoung(k, w)
  BY <1>7, Zenon DEF HoldsYoung
<1>9. /\ \A q \in DOMAIN zsets' : zsets'[q] \in ZSet /\ IsFiniteSet(zsets'[q].entries)
      /\ k \in DOMAIN zsets' /\ zsets'[k] = w
      /\ \A c \in charges : Young(c) => Kept(c, zsets')
  BY <1>3, <1>4, <1>8, PutKeeps, Zenon
<1>10. ASSUME NEW c \in new PROVE Kept(c, zsets')
  <2>1. c.key = k /\ c.at = clock /\ c.seq \in z.seq + 1 .. z.seq + Cost(r)
    BY <1>2, Zenon
  <2>2. w.dies >= c.at + Window /\ c.seq <= w.seq
    BY <1>1, <1>4, <1>6, <2>1
  <2>3. [seq |-> c.seq, score |-> now[r]] \in w.entries
    BY <1>4, <2>1, Zenon
  <2>4. gateway[r] \in DOMAIN Skew /\ now[r] >= clock + Skew[gateway[r]] - MaxLag
    <3>1. Reading(r) /\ gateway[r] \in DOMAIN Skew
      BY <1>0, Zenon DEF CallsTyped
    <3>2. Skew[gateway[r]] \in Nat
      BY <3>1, ConstantsTyped, Zenon
    <3>3. clock + Skew[gateway[r]] - MaxLag <= now[r]
      BY <3>1, Zenon DEF Reading
    <3> QED
      BY <1>1, <1>6, <3>1, <3>2, <3>3
  <2>5. \E e \in w.entries :
          e.seq = c.seq /\ \E g \in DOMAIN Skew : e.score >= c.at + Skew[g] - MaxLag
    BY <2>1, <2>3, <2>4, Zenon
  <2> QED
    BY <1>9, <2>1, <2>2, <2>5, Zenon DEF Kept
<1>11. ASSUME NEW c \in charges', NEW d \in charges', Young(c), Young(d),
              c.key = d.key, c.seq = d.seq
       PROVE  c = d
  <2>1. ASSUME NEW a \in charges, NEW b \in new, Young(a), a.key = b.key PROVE a.seq # b.seq
    <3>1. a.seq <= z.seq /\ a.seq \in Nat /\ b.seq \in z.seq + 1 .. z.seq + Cost(r)
      BY <1>2, <1>7, <2>1, Zenon DEF WindowsKept
    <3> QED
      BY <1>1, <3>1
  <2>2. CASE c \in charges /\ d \in charges
    BY <1>11, <2>2, Zenon DEF WindowsKept
  <2>3. CASE c \in new /\ d \in new
    BY <1>2, <1>11, <2>3, Zenon
  <2> QED
    BY <1>3, <1>11, <2>1, <2>2, <2>3, Zenon
<1>12. \A q, t : Charged(q, t)' = Charged(q, t) \cup
                                  {c \in new : c.key = q /\ c.at \in t - Span + 1 .. t}
  BY <1>3 DEF Charged
<1>13. ASSUME NEW t \in 0 .. clock
       PROVE  Cardinality(Charged(k, t)') <= limit
  <2>1. IsFiniteSet(Charged(k, t)) /\ Cardinality(Charged(k, t)) \in Nat
    <3>1. Charged(k, t) \in SUBSET charges
      BY Zenon DEF Charged
    <3> QED
      BY <3>1, FS_Subset, FS_CardinalityType, Zenon DEF WindowsKept
  <2>2. CASE t = clock
    <3>1. Charged(k, t)' \in SUBSET (Charged(k, t) \cup new)
      BY <1>12, Zenon
    <3>2. Cardinality(Charged(k, t)) <= Cardinality(live)
      BY <2>2, ChargedAreLive, Zenon DEF Admits
    <3>3. /\ IsFiniteSet(Charged(k, t) \cup new)
          /\ Cardinality(Charged(k, t) \cup new)
             = Cardinality(Charged(k, t)) + Cardinality(new) - Cardinality(Charged(k, t) \cap new)
      BY <1>2, <2>1, FS_Union, Zenon
    <3>4. IsFiniteSet(Charged(k, t) \cap new)
      <4>1. Charged(k, t) \cap new \in SUBSET new
        BY Zenon
      <4> QED
        BY <1>2, <4>1, FS_Subset, Zenon
    <3>5. /\ Cardinality(Charged(k, t) \cap new) \in Nat /\ Cardinality(new) \in Nat
          /\ Cardinality(Charged(k, t)') \in Nat
          /\ Cardinality(Charged(k, t)') <= Cardinality(Charged(k, t) \cup new)
      BY <1>2, <3>1, <3>3, <3>4, FS_Subset, FS_CardinalityType, Zenon
    <3> QED
      BY <1>1, <1>2, <1>5, <2>1, <3>2, <3>3, <3>5
  <2>3. CASE t # clock
    <3>1. clock \notin t - Span + 1 .. t
      BY <1>1, <1>6, <2>3
    <3>2. Charged(k, t)' = Charged(k, t)
      <4>1. {c \in new : c.key = k /\ c.at \in t - Span + 1 .. t} = {}
        BY <1>2, <3>1, Zenon
      <4> QED
        BY <1>12, <4>1, Zenon
    <3>3. CASE Charged(k, t) = {}
      <4>1. Cardinality(Charged(k, t)) = 0
        BY <3>3, FS_EmptySet, Zenon
      <4> QED
        BY <1>1, <1>5, <3>2, <4>1
    <3>4. CASE Charged(k, t) # {}
      <4>1. PICK c \in charges : c.key = k
        BY <3>4, Zenon DEF Charged
      <4> QED
        BY <3>2, <4>1, Zenon DEF WindowsKept, Capped, limit
    <3> QED
      BY <3>3, <3>4, Zenon
  <2> QED
    BY <2>2, <2>3, Zenon
<1>14. ASSUME NEW c \in charges', NEW t \in 0 .. clock
       PROVE  Capped(c.key, t)' /\ rules[c.key[2]].limit \in Int
  <2>1. CASE c.key = k
    BY <1>0, <1>5, <1>13, <2>1, Zenon DEF Capped, limit
  <2>2. CASE c.key # k
    <3>1. c \in charges
      BY <1>2, <1>3, <2>2, Zenon
    <3>2. Charged(c.key, t)' = Charged(c.key, t)
      <4>1. {d \in new : d.key = c.key /\ d.at \in t - Span + 1 .. t} = {}
        BY <1>2, <2>2, Zenon
      <4> QED
        BY <1>12, <4>1, Zenon
    <3> QED
      BY <1>0, <3>1, <3>2, Zenon DEF WindowsKept, Capped
  <2> QED
    BY <2>1, <2>2, Zenon
<1>15. ASSUME NEW c \in charges'
       PROVE  /\ c.at \in 0 .. clock /\ c.seq \in Nat /\ rules[c.key[2]].limit \in Int
              /\ Young(c) => Kept(c, zsets')
  <2>1. CASE c \in charges
    BY <1>9, <2>1, Zenon DEF WindowsKept
  <2>2. CASE c \in new
    <3>1. c.key = k /\ c.at = clock /\ c.seq \in z.seq + 1 .. z.seq + Cost(r)
      BY <1>2, <2>2, Zenon
    <3>2. c.at \in 0 .. clock /\ c.seq \in Nat
      BY <1>1, <3>1
    <3> QED
      BY <1>5, <1>10, <2>2, <3>1, <3>2, Zenon DEF limit
  <2> QED
    BY <1>3, <2>1, <2>2, Zenon
<1>16. IsFiniteSet(charges')
  <2>1. IsFiniteSet(charges)
    BY Zenon DEF WindowsKept
  <2>2. IsFiniteSet(charges \cup new)
    BY <1>2, <2>1, FS_Union, Zenon
  <2> QED
    BY <1>3, <2>2, Zenon
<1>17. ASSUME NEW c \in charges'
       PROVE  /\ c.at \in 0 .. clock' /\ c.seq \in Nat
              /\ rules'[c.key[2]].limit \in Int
              /\ Young(c)' => Kept(c, zsets)'
              /\ \A t \in 0 .. clock' : Capped(c.key, t)'
  <2>1. c.at \in 0 .. clock' /\ c.seq \in Nat /\ rules'[c.key[2]].limit \in Int
    BY <1>0, <1>15, Zenon
  <2>2. Young(c)' => Kept(c, zsets)'
    BY <1>0, <1>15, Zenon DEF Young, Kept
  <2>3. \A t \in 0 .. clock' : Capped(c.key, t)'
    BY <1>0, <1>14, Zenon
  <2> QED
    BY <2>1, <2>2, <2>3, Zenon
<1>18. \A c, d \in charges' :
         Young(c)' /\ Young(d)' /\ c.key = d.key /\ c.seq = d.seq => c = d
  BY <1>0, <1>11, Zenon DEF Young
<1>19. \A q \in DOMAIN zsets' : zsets'[q] \in ZSet /\ IsFiniteSet(zsets'[q].entries)
  BY <1>9, Zenon
<1> QED
  BY <1>16, <1>17, <1>18, <1>19, WindowsAfter

\* A script that runs keeps WindowsKept, whether it denies or admits.
LEMMA ExecuteWindows ==
  ASSUME CallsTyped, WindowsKept, NEW r \in Requests, stage[r] = "script", Execute(r),
         rules' = rules, clock' = clock
  PROVE  WindowsKept'
<1> DEFINE k == Key(r)
           z == Stored(k)
           live == Live(z.entries, now[r])
<1>1. CASE Denies(live, r)
  <2>1. zsets' = Put(zsets, k, [z EXCEPT !.entries = live]) /\ charges' = charges
    BY <1>1, Zenon DEF Execute
  <2> HIDE DEF k
  <2> QED
    BY <2>1, DeniedWindows, Zenon
<1>2. CASE ~Denies(live, r)
  <2>1. /\ zsets' = Put(zsets, k, Written(z, live, r))
        /\ charges' = charges \cup ChargesOf(r, k, z)
    BY <1>2, Zenon DEF Execute, ChargesOf
  <2> HIDE DEF k, z, live
  <2>2. Admits(r, k, z, live)
    BY <1>2, <2>1, Zenon DEF Admits, k, z, live
  <2> QED
    BY <2>2, AdmittedWindows, Zenon
<1> QED
  BY <1>1, <1>2, Zenon

\* Every step keeps WindowsKept.
LEMMA NextWindows == CallsTyped /\ WindowsKept /\ [LimitNext]_limitVars => WindowsKept'
<1> SUFFICES ASSUME CallsTyped, WindowsKept, [LimitNext]_limitVars PROVE WindowsKept'
  BY Zenon
<1>1. ASSUME NEW r \in Requests,
             Arrive(r) \/ Get(r) \/ Add(r) \/ Take(r) \/ Reserve(r) \/ Cancel(r) \/ Send(r)
      PROVE  WindowsKept'
  <2>1. rules' = rules /\ clock' = clock /\ zsets' = zsets /\ charges' = charges
    BY <1>1, Zenon DEF Arrive, Get, Add, Take, Reserve, Cancel, Send, remote
  <2> QED
    BY <2>1, StillWindows, Zenon
<1>2. ASSUME NEW r \in Requests, Script(r) \/ ScriptResent(r) \/ ScriptFails(r)
      PROVE  WindowsKept'
  <2>1. rules' = rules /\ clock' = clock /\ stage[r] = "script"
    BY <1>2, Zenon DEF Script, ScriptResent, ScriptFails
  <2>2. Execute(r) \/ (zsets' = zsets /\ charges' = charges)
    BY <1>2, Zenon DEF Script, ScriptResent, ScriptFails
  <2> QED
    BY <2>1, <2>2, ExecuteWindows, StillWindows, Zenon
<1>3. CASE LimitTick
  BY <1>3, TickWindows, Zenon
<1>4. CASE AllDone \/ UNCHANGED limitVars
  <2>1. rules' = rules /\ clock' = clock /\ zsets' = zsets /\ charges' = charges
    BY <1>4, Zenon DEF AllDone, limitVars, remote
  <2> QED
    BY <2>1, StillWindows, Zenon
<1> QED
  BY <1>1, <1>2, <1>3, <1>4, Zenon DEF LimitNext

\* However requests, gateways with differing clocks, lost replies and repeated
\* scripts interleave, no key is charged more than its limit in a stretch of Span
\* ticks (slidingWindowScript): for every number of gateways, requests and rules.
THEOREM WindowCapHolds == LimitSpec => []WindowCap
<1>1. LimitInit => CallsTyped /\ WindowsKept
  BY InitCalls, InitWindows, Zenon
<1>2. CallsTyped /\ WindowsKept /\ [LimitNext]_limitVars => (CallsTyped /\ WindowsKept)'
  BY NextCalls, NextWindows, Zenon
<1>3. CallsTyped /\ WindowsKept => WindowCap
  BY Zenon DEF WindowsKept, WindowCap, Capped
<1> QED
  BY <1>1, <1>2, <1>3, PTL DEF LimitSpec

-----------------------------------------------------------------------------
\* ZADD adds at most the cost to the live members.
LEMMA WrittenWithin ==
  ASSUME NEW r \in Requests, NEW z \in ZSet, NEW live \in SUBSET z.entries, IsFiniteSet(live)
  PROVE  Cardinality(Written(z, live, r).entries) <= Cardinality(live) + Cost(r)
<1> DEFINE fresh == z.seq + 1 .. z.seq + Cost(r)
           members == [seq : fresh, score : {now[r]}]
           old == {e \in live : e.seq \notin fresh}
<1>1. Cost(r) \in Nat /\ Cost(r) >= 1
  BY CostTyped, Zenon
<1>2. IsFiniteSet(fresh) /\ Cardinality(fresh) = Cost(r)
  <2>1. z.seq \in Nat
    BY DEF ZSet
  <2>2. /\ z.seq + 1 \in Int /\ z.seq + Cost(r) \in Int /\ ~(z.seq + 1 > z.seq + Cost(r))
        /\ (z.seq + Cost(r)) - (z.seq + 1) + 1 = Cost(r)
    BY <1>1, <2>1
  <2> QED
    BY <2>2, FS_Interval, Zenon
<1>3. Written(z, live, r).entries = old \cup members
  BY Zenon DEF Written
<1>4. IsFiniteSet(members) /\ Cardinality(members) <= Cardinality(fresh)
  <2> DEFINE f == [e \in members |-> e.seq]
  <2>1. \A e \in members : e.seq \in fresh /\ e = [seq |-> e.seq, score |-> now[r]]
    OBVIOUS
  <2> HIDE DEF members, fresh
  <2>2. f \in [members -> fresh] /\ \A a, b \in members : f[a] = f[b] => a = b
    BY <2>1, Zenon
  <2>3. f \in Injection(members, fresh)
    BY <2>2, Zenon DEF Injection, IsInjective
  <2> QED
    BY <1>2, <2>3, FS_Injection, Zenon
<1> HIDE DEF members, fresh
<1>5. IsFiniteSet(old) /\ Cardinality(old) <= Cardinality(live)
  <2>1. old \in SUBSET live
    BY Zenon
  <2> HIDE DEF old
  <2> QED
    BY <2>1, FS_Subset, Zenon
<1> HIDE DEF old
<1>6. /\ Cardinality(old \cup members)
         = Cardinality(old) + Cardinality(members) - Cardinality(old \cap members)
      /\ Cardinality(old \cap members) \in Nat
  <2>1. old \cap members \in SUBSET old
    BY Zenon
  <2>2. IsFiniteSet(old \cap members)
    BY <1>5, <2>1, FS_Subset, Zenon
  <2> QED
    BY <1>4, <1>5, <2>2, FS_Union, FS_CardinalityType, Zenon
<1>7. Cardinality(old) \in Nat /\ Cardinality(members) \in Nat /\ Cardinality(live) \in Nat
  BY <1>4, <1>5, FS_CardinalityType, Zenon
<1>8. Cardinality(old \cup members) <= Cardinality(live) + Cost(r)
  BY <1>1, <1>2, <1>4, <1>5, <1>6, <1>7
<1> QED
  BY <1>3, <1>8, Zenon

\* What a script counts is within the limit of its rule.
LEMMA ScriptSees ==
  ASSUME CallsTyped, WindowsKept, QuotaKept, NEW r \in Requests, stage[r] = "script"
  PROVE  LET z == Stored(Key(r))
             live == Live(z.entries, now[r]) IN
         /\ z \in ZSet /\ live \in SUBSET z.entries /\ IsFiniteSet(live)
         /\ Cardinality(live) \in Nat /\ Cardinality(live) <= Limit(r)
         /\ Limit(r) \in Int /\ Limit(r) >= 1 /\ Key(r)[2] = at[r]
<1> DEFINE z == Stored(Key(r))
           live == Live(z.entries, now[r])
<1>1. z \in ZSet /\ IsFiniteSet(z.entries) /\ live \in SUBSET z.entries
  BY StoredTyped, Zenon DEF Live
<1> HIDE DEF live
<1>2. /\ IsFiniteSet(live) /\ Cardinality(live) \in Nat /\ Cardinality(z.entries) \in Nat
      /\ Cardinality(live) <= Cardinality(z.entries)
  BY <1>1, FS_Subset, FS_CardinalityType, Zenon
<1>3. Reading(r)
  BY Zenon DEF CallsTyped
<1>4. Limit(r) \in Int /\ Limit(r) >= 1
  BY <1>3, Zenon DEF Reading, CallsTyped, QuotaKept, Limit
<1>5. Key(r)[2] = at[r]
  BY DEF Key
<1>6. Cardinality(z.entries) <= Limit(r)
  <2>1. CASE z = Absent
    <3>1. Absent.entries = {}
      BY DEF Absent
    <3>2. Cardinality(z.entries) = 0
      BY <2>1, <3>1, FS_EmptySet, Zenon
    <3> QED
      BY <1>4, <3>2
  <2>2. CASE Key(r) \in DOMAIN zsets /\ z = zsets[Key(r)]
    BY <1>5, <2>2, Zenon DEF QuotaKept, Limit
  <2> QED
    BY <2>1, <2>2, Zenon DEF Stored
<1>7. Cardinality(live) <= Limit(r)
  BY <1>2, <1>4, <1>6
<1> QED
  BY <1>1, <1>2, <1>4, <1>5, <1>7, Zenon DEF live

\* A script leaves its sorted set within the limit, whether it denies or admits.
LEMMA ExecuteQuota ==
  ASSUME CallsTyped, WindowsKept, QuotaKept, NEW r \in Requests, stage[r] = "script",
         Execute(r), rules' = rules
  PROVE  QuotaKept'
<1> DEFINE k == Key(r)
           z == Stored(k)
           live == Live(z.entries, now[r])
<1>1. /\ z \in ZSet /\ live \in SUBSET z.entries /\ IsFiniteSet(live)
      /\ Cardinality(live) \in Nat /\ Cardinality(live) <= Limit(r) /\ Limit(r) \in Int
      /\ k[2] = at[r]
  BY ScriptSees, Zenon
<1>2. PICK w : zsets' = Put(zsets, k, w) /\ Cardinality(w.entries) <= Limit(r)
  <2>1. CASE Denies(live, r)
    <3>1. zsets' = Put(zsets, k, [z EXCEPT !.entries = live])
      BY <2>1, Zenon DEF Execute
    <3> HIDE DEF k, z, live
    <3>2. [z EXCEPT !.entries = live].entries = live
      BY <1>1 DEF ZSet
    <3> QED
      BY <1>1, <3>1, <3>2, Zenon
  <2>2. CASE ~Denies(live, r)
    <3>1. zsets' = Put(zsets, k, Written(z, live, r))
      BY <2>2, Zenon DEF Execute
    <3> HIDE DEF k, z, live
    <3>2. /\ Cardinality(Written(z, live, r).entries) <= Cardinality(live) + Cost(r)
          /\ Cost(r) \in Nat /\ ~(Cardinality(live) + Cost(r) > Limit(r))
      BY <1>1, <2>2, WrittenWithin, CostTyped, Zenon DEF Denies
    <3>3. IsFiniteSet(Written(z, live, r).entries)
      BY <1>1, WrittenTyped, Zenon DEF CallsTyped
    <3>4. Cardinality(Written(z, live, r).entries) \in Nat
      BY <3>3, FS_CardinalityType, Zenon
    <3>5. Cardinality(Written(z, live, r).entries) <= Limit(r)
      BY <1>1, <3>2, <3>4
    <3> QED
      BY <3>1, <3>5, Zenon
  <2> QED
    BY <2>1, <2>2, Zenon
<1> HIDE DEF k, z, live
<1>3. /\ DOMAIN zsets' = DOMAIN zsets \cup {k} /\ zsets'[k] = w
      /\ \A q \in DOMAIN zsets : q # k => zsets'[q] = zsets[q]
  BY <1>2, Zenon DEF Put
<1>4. Cardinality(w.entries) <= rules[k[2]].limit
  BY <1>1, <1>2, Zenon DEF Limit
<1>5. \A q \in DOMAIN zsets' : Cardinality(zsets'[q].entries) <= rules'[q[2]].limit
  BY <1>3, <1>4, Zenon DEF QuotaKept
<1> QED
  BY <1>5, Zenon DEF QuotaKept

\* Every step keeps QuotaKept.
LEMMA NextQuota ==
  CallsTyped /\ WindowsKept /\ QuotaKept /\ [LimitNext]_limitVars => QuotaKept'
<1> SUFFICES ASSUME CallsTyped, WindowsKept, QuotaKept, [LimitNext]_limitVars PROVE QuotaKept'
  BY Zenon
<1>1. ASSUME NEW r \in Requests,
             Arrive(r) \/ Get(r) \/ Add(r) \/ Take(r) \/ Reserve(r) \/ Cancel(r) \/ Send(r)
      PROVE  rules' = rules /\ zsets' = zsets
  BY <1>1, Zenon DEF Arrive, Get, Add, Take, Reserve, Cancel, Send, remote
<1>2. ASSUME NEW r \in Requests, Script(r) \/ ScriptResent(r) \/ ScriptFails(r)
      PROVE  QuotaKept'
  <2>1. rules' = rules /\ stage[r] = "script" /\ (Execute(r) \/ zsets' = zsets)
    BY <1>2, Zenon DEF Script, ScriptResent, ScriptFails
  <2> QED
    BY <2>1, ExecuteQuota, Zenon DEF QuotaKept
<1>3. CASE LimitTick \/ AllDone \/ UNCHANGED limitVars
  BY <1>3, Zenon DEF LimitTick, AllDone, limitVars, remote, QuotaKept
<1>4. ASSUME rules' = rules /\ zsets' = zsets PROVE QuotaKept'
  BY <1>4, Zenon DEF QuotaKept
<1> QED
  BY <1>1, <1>2, <1>3, <1>4, Zenon DEF LimitNext

\* NewRedisWindow refuses a limit below 1; no window is written yet.
LEMMA InitQuota == LimitInit => QuotaKept
<1> SUFFICES ASSUME LimitInit PROVE QuotaKept
  BY Zenon
<1>1. PICK s \in Scenarios :
        (\A i \in DOMAIN s.config : ValidConfig(s.config[i])) /\ rules = Build(s.config)
  BY Zenon DEF LimitInit
<1>2. ASSUME NEW i \in DOMAIN rules, rules[i].store = "redis_window" PROVE rules[i].limit >= 1
  <2> DEFINE rc == s.config[i]
  <2>1. /\ i \in DOMAIN s.config
        /\ rules[i] = [store |-> rc.algorithm,
                       limit |-> IF rc.algorithm = "memory_bucket" THEN Burst(rc) ELSE rc.limit,
                       keyBy |-> rc.keyBy, unit |-> Unit(rc)]
    BY <1>1, Zenon DEF Build
  <2> HIDE DEF rc
  <2>2. rc.algorithm = "redis_window" /\ rc.algorithm # "memory_bucket"
    BY <1>2, <2>1
  <2>3. rules[i].limit = rc.limit
    BY <2>1, <2>2
  <2>4. rc.limit >= 1
    BY <1>1, <2>1, <2>2, Zenon DEF ValidConfig, ValidWindow, rc
  <2> QED
    BY <2>3, <2>4, Zenon
<1>3. DOMAIN zsets = {}
  BY DEF LimitInit
<1> QED
  BY <1>2, <1>3, Zenon DEF QuotaKept

-----------------------------------------------------------------------------
\* The step moves request r, and only when it is done gives it a verdict.
OneMoves(r) ==
  /\ stage[r] # "done" /\ DOMAIN retry' = DOMAIN retry
  /\ \E x : /\ stage' = [stage EXCEPT ![r] = x]
            /\ \/ verdict' = verdict
               \/ x = "done" /\ \E v : verdict' = [verdict EXCEPT ![r] = v]

\* Every step of r but a script sent again moves r only.
LEMMA StepMoves ==
  ASSUME NEW r,
         \/ Arrive(r) \/ Get(r) \/ Add(r) \/ Take(r) \/ Reserve(r) \/ Cancel(r) \/ Send(r)
         \/ Script(r) \/ ScriptFails(r)
  PROVE  OneMoves(r)
<1>1. stage[r] # "done" /\ DOMAIN retry' = DOMAIN retry
  <2>1. stage[r] # "done"
    BY Zenon DEF Arrive, Get, Add, Take, Reserve, Cancel, Send, Script, ScriptFails
  <2>2. retry' = retry \/ \E after : Denied(r, after)
    BY Zenon DEF Arrive, Get, Add, Take, Reserve, Cancel, Send, Script, ScriptFails
  <2> QED
    BY <2>1, <2>2, Zenon DEF Denied
<1>2. \/ \E u, i : Check(r, u, i)
      \/ \E after : Denied(r, after)
      \/ \E x : Goto(r, x) /\ verdict' = verdict
  <2>1. CASE Arrive(r) \/ Cancel(r) \/ Send(r)
    BY <2>1, Zenon DEF Arrive, Cancel, Send
  <2>2. CASE Get(r) \/ Add(r)
    BY <2>2, Zenon DEF Get, Add
  <2>3. CASE Take(r)
    BY <2>3, Zenon DEF Take, Allowed
  <2>4. CASE Reserve(r)
    BY <2>4, Zenon DEF Reserve
  <2>5. CASE Script(r) \/ ScriptFails(r)
    BY <2>5, Zenon DEF Script, ScriptFails, Allowed, FailOpen
  <2> QED
    BY <2>1, <2>2, <2>3, <2>4, <2>5, Zenon
<1>3. ASSUME NEW u, NEW i, Check(r, u, i) PROVE OneMoves(r)
  BY <1>1, <1>3, Zenon DEF Check, Goto, OneMoves
<1>4. ASSUME NEW after, Denied(r, after) PROVE OneMoves(r)
  BY <1>1, <1>4, Zenon DEF Denied, Goto, OneMoves
<1>5. ASSUME NEW x, Goto(r, x), verdict' = verdict PROVE OneMoves(r)
  BY <1>1, <1>5, Zenon DEF Goto, OneMoves
<1> QED
  BY <1>2, <1>3, <1>4, <1>5, Zenon

\* A step that moves r keeps Undecided, and the others where they are.
LEMMA MovesUndecided ==
  ASSUME CallsTyped, Undecided, NEW r \in Requests, OneMoves(r)
  PROVE  /\ Undecided'
         /\ \A q \in Requests \ {r} : stage'[q] = stage[q] /\ verdict'[q] = verdict[q]
<1>1. DOMAIN stage = Requests /\ DOMAIN verdict = Requests /\ DOMAIN retry' = Requests
  BY Zenon DEF CallsTyped, Undecided, OneMoves
<1>2. PICK x : /\ stage' = [stage EXCEPT ![r] = x]
               /\ \/ verdict' = verdict
                  \/ x = "done" /\ \E v : verdict' = [verdict EXCEPT ![r] = v]
  BY Zenon DEF OneMoves
<1>3. /\ DOMAIN verdict' = Requests /\ stage'[r] = x
      /\ \A q \in Requests \ {r} : stage'[q] = stage[q] /\ verdict'[q] = verdict[q]
  BY <1>1, <1>2, Zenon
<1>4. verdict'[r] = verdict[r] \/ stage'[r] = "done"
  BY <1>2, <1>3, Zenon
<1>5. verdict[r] # "denied"
  BY Zenon DEF OneMoves, Undecided
<1> QED
  BY <1>1, <1>3, <1>4, <1>5, Zenon DEF Undecided

\* Every step keeps Undecided.
LEMMA NextUndecided == CallsTyped /\ Undecided /\ [LimitNext]_limitVars => Undecided'
<1> SUFFICES ASSUME CallsTyped, Undecided, [LimitNext]_limitVars PROVE Undecided'
  BY Zenon
<1>1. ASSUME NEW r \in Requests,
             \/ Arrive(r) \/ Get(r) \/ Add(r) \/ Take(r) \/ Reserve(r) \/ Cancel(r) \/ Send(r)
             \/ Script(r) \/ ScriptFails(r)
      PROVE  Undecided'
  BY <1>1, StepMoves, MovesUndecided, Zenon
<1>2. ASSUME (\E r \in Requests : ScriptResent(r)) \/ LimitTick \/ AllDone \/ UNCHANGED limitVars
      PROVE  stage' = stage /\ verdict' = verdict /\ retry' = retry
  BY <1>2, Zenon DEF ScriptResent, LimitTick, AllDone, limitVars
<1>3. ASSUME stage' = stage, verdict' = verdict, retry' = retry PROVE Undecided'
  BY <1>3, Zenon DEF Undecided
<1> QED
  BY <1>1, <1>2, <1>3, Zenon DEF LimitNext

\* No request has a verdict yet.
LEMMA InitUndecided == LimitInit => Undecided
  BY DEF LimitInit, Undecided

-----------------------------------------------------------------------------
\* retry_ms is the time until the oldest live member leaves: then one member fewer
\* is left, a tick before that all of them are.
LEMMA OldestLeaves ==
  ASSUME NEW r, now[r] \in Int, NEW live \in SUBSET [seq : Nat, score : Int], live # {},
         IsFiniteSet(live), \A e \in live : e.score > now[r] - Window
  PROVE  LET after == RetryAfter(live, r) IN
         /\ Live(live, now[r] + after - 1) = live
         /\ Cardinality(Live(live, now[r] + after)) \in Nat
         /\ Cardinality(Live(live, now[r] + after)) < Cardinality(live)
<1> DEFINE S == {e.score : e \in live}
           m == Min(S)
           after == RetryAfter(live, r)
<1>1. Window \in Nat /\ now[r] - Window \in Int
  BY ConstantsTyped
<1>2. S \in SUBSET Int /\ S # {} /\ \A s \in S : s > now[r] - Window
  <2>1. \A e \in live : e.score \in Int
    OBVIOUS
  <2> QED
    BY <2>1, Zenon
<1>3. m \in S /\ \A s \in S : m <= s
  <2> HIDE DEF S
  <2> QED
    BY <1>1, <1>2, LeastIn, Zenon
<1>4. m \in Int /\ m > now[r] - Window
  BY <1>2, <1>3, Zenon
<1>5. PICK o \in live : o.score = m
  BY <1>3, Zenon
<1>6. \A e \in live : e.score \in Int /\ m <= e.score
  BY <1>2, <1>3, Zenon
<1>7. after = Max({0, m + Window - now[r]})
  BY Zenon DEF RetryAfter
<1> HIDE DEF m
<1>8. after = m + Window - now[r]
  <2>1. 0 \in Int /\ m + Window - now[r] \in Int /\ ~(0 >= m + Window - now[r])
    BY <1>1, <1>4
  <2> HIDE DEF after
  <2> QED
    BY <1>7, <2>1, MinMaxPair, Zenon
<1> HIDE DEF after
<1>9. Live(live, now[r] + after - 1) = live
  <2> DEFINE t == now[r] + after - 1
  <2>1. ASSUME NEW e \in live PROVE e.score > t - Window
    <3>1. e.score \in Int /\ m <= e.score
      BY <1>6, Zenon
    <3> QED
      BY <1>1, <1>4, <1>8, <3>1
  <2> HIDE DEF t
  <2>2. Live(live, t) = live
    BY <2>1, Zenon DEF Live
  <2> QED
    BY <2>2, Zenon DEF t
<1>10. Live(live, now[r] + after) \in SUBSET live /\ o \notin Live(live, now[r] + after)
  <2> DEFINE t == now[r] + after
  <2>1. ~(o.score > t - Window)
    BY <1>1, <1>4, <1>5, <1>8
  <2> HIDE DEF t
  <2>2. Live(live, t) \in SUBSET live /\ o \notin Live(live, t)
    BY <2>1, Zenon DEF Live
  <2> QED
    BY <2>2, Zenon DEF t
<1>11. /\ Cardinality(Live(live, now[r] + after)) \in Nat
       /\ Cardinality(Live(live, now[r] + after)) < Cardinality(live)
  <2> DEFINE L == Live(live, now[r] + after)
  <2>1. L \in SUBSET live /\ L # live
    BY <1>10, Zenon
  <2> HIDE DEF L
  <2>2. IsFiniteSet(L) /\ Cardinality(L) <= Cardinality(live) /\ Cardinality(L) # Cardinality(live)
    BY <2>1, FS_Subset, Zenon
  <2>3. Cardinality(L) \in Nat /\ Cardinality(live) \in Nat
    BY <2>2, FS_CardinalityType, Zenon
  <2>4. Cardinality(L) < Cardinality(live)
    BY <2>2, <2>3
  <2> QED
    BY <2>3, <2>4, Zenon DEF L
<1> QED
  BY <1>9, <1>11, Zenon DEF after

\* The script that denies leaves the live members, one of which is enough to go.
LEMMA ScriptHonest ==
  ASSUME CallsTyped, WindowsKept, QuotaKept, Undecided, NEW r \in Requests, Script(r)
  PROVE  WindowHonest(r)
<1> SUFFICES ASSUME verdict'[r] = "denied", Cost(r) = 1
             PROVE  /\ ~Denies(Live(zsets'[Key(r)].entries, now[r] + retry'[r]), r)
                    /\ Denies(Live(zsets'[Key(r)].entries, now[r] + retry'[r] - 1), r)
  BY Zenon DEF WindowHonest
<1> DEFINE k == Key(r)
           z == Stored(k)
           live == Live(z.entries, now[r])
<1>1. stage[r] = "script" /\ Execute(r) /\ now[r] \in Int
  BY Zenon DEF Script, CallsTyped
<1>2. /\ z \in ZSet /\ live \in SUBSET z.entries /\ IsFiniteSet(live)
      /\ Cardinality(live) \in Nat /\ Cardinality(live) <= Limit(r)
      /\ Limit(r) \in Int /\ Limit(r) >= 1
  BY <1>1, ScriptSees, Zenon
<1>3. Denies(live, r) /\ Denied(r, RetryAfter(live, r))
  <2>1. ASSUME NEW u, NEW i, Check(r, u, i) PROVE FALSE
    <3>1. verdict[r] # "denied" /\ DOMAIN verdict = Requests
      BY <1>1, Zenon DEF Undecided
    <3>2. verdict' = verdict \/ verdict' = [verdict EXCEPT ![r] = "allowed"]
      BY <2>1, Zenon DEF Check
    <3>3. verdict'[r] # "denied"
      BY <3>1, <3>2, Zenon
    <3> QED
      BY <3>3, Zenon
  <2> QED
    BY <2>1, Zenon DEF Script, Allowed
<1>4. zsets' = Put(zsets, k, [z EXCEPT !.entries = live])
  BY <1>1, <1>3, Zenon DEF Execute
<1>5. \A e \in live : e.score > now[r] - Window
  BY Zenon DEF Live
<1>6. retry' = [retry EXCEPT ![r] = RetryAfter(live, r)]
  BY <1>3, Zenon DEF Denied
<1> HIDE DEF k, z, live
<1>7. zsets'[k].entries = live
  <2>1. zsets'[k] = [z EXCEPT !.entries = live]
    BY <1>4, Zenon DEF Put
  <2> QED
    BY <1>2, <2>1 DEF ZSet
<1>8. live # {} /\ live \in SUBSET [seq : Nat, score : Int]
  <2>1. Cardinality(live) + Cost(r) > Limit(r)
    BY <1>3, Zenon DEF Denies
  <2>2. Cardinality(live) # 0
    BY <1>2, <2>1
  <2>3. live # {}
    BY <2>2, FS_EmptySet, Zenon
  <2>4. z.entries \in SUBSET [seq : Nat, score : Int]
    BY <1>2 DEF ZSet
  <2> QED
    BY <1>2, <2>3, <2>4, Zenon
<1>9. /\ Live(live, now[r] + RetryAfter(live, r) - 1) = live
      /\ Cardinality(Live(live, now[r] + RetryAfter(live, r))) \in Nat
      /\ Cardinality(Live(live, now[r] + RetryAfter(live, r))) < Cardinality(live)
  BY <1>1, <1>2, <1>5, <1>8, OldestLeaves, Zenon
<1>10. retry'[r] = RetryAfter(live, r)
  BY <1>6, Zenon DEF Undecided
<1>11. ~Denies(Live(live, now[r] + RetryAfter(live, r)), r)
  <2> DEFINE n == Cardinality(Live(live, now[r] + RetryAfter(live, r)))
  <2> HIDE DEF n
  <2>1. ~(n + Cost(r) > Limit(r))
    BY <1>2, <1>9 DEF n
  <2> QED
    BY <2>1, Zenon DEF Denies, n
<1> QED
  BY <1>3, <1>7, <1>9, <1>10, <1>11, Zenon DEF k
=============================================================================
