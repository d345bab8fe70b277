----------------------------- MODULE AuthCache -----------------------------
(***************************************************************************)
(* Authentication: CachedAuthenticator (internal/auth/cached.go) over      *)
(* PostgresAuthenticator, under several gateways that share Postgres and   *)
(* Redis, with keys created and revoked meanwhile (internal/auth/          *)
(* keystore.go, xbctl keyrevoke).                                          *)
(*                                                                         *)
(* A key is a model value; its row in api_keys is absent, active or        *)
(* revoked.  A Redis entry is a verdict, "pos" (a Principal) or "neg"      *)
(* ("null"), with the ticks it has left to live.  A singleflight call of a *)
(* gateway for a key is either waiting for Postgres ("query") or carries   *)
(* what Postgres answered.  Any Redis or Postgres operation may fail,      *)
(* which includes the cancellation of the context it runs under.           *)
(*                                                                         *)
(* `since` counts the time a verdict that contradicts the row has had to   *)
(* disappear: ticks since the row changed, not counting those in which a   *)
(* lookup made before the change is still on its way to the cache.         *)
(***************************************************************************)
EXTENDS Integers

CONSTANTS
  Keys,
  Callers,       \* clients, each with one request at a time
  Gateways,
  GatewayOf,     \* the gateway a client talks to
  PosTTL,        \* posTTL and negTTL, in ticks
  NegTTL

ASSUME AuthConstants ==
  /\ GatewayOf \in [Callers -> Gateways]
  /\ PosTTL \in Nat
  /\ NegTTL \in Nat

VARIABLES
  row,           \* api_keys: absent, active, revoked
  cache,         \* auth:k:<hash>: none, pos, neg
  ttl,           \* ticks the entry has left
  flight,        \* sf, per gateway: none, query, pos, neg, err
  stage,            \* idle, read, missed, wait
  key,           \* the key the client presents
  res,           \* what Authenticate returned: none, ok, denied, error
  revoking,      \* Revoke has committed and not yet deleted the entry
  since,
  cut            \* a Revoke of the key has returned, its entry deleted

authVars == <<flight, stage, key, res>>
keyVars == <<row, revoking, cut>>
cacheVars == <<row, cache, ttl, flight, stage, key, res, revoking, since, cut>>

\* "Long ago": more than any verdict can live.
LongAgo == PosTTL + NegTTL

Ttl(v) == CASE v = "pos" -> PosTTL [] v = "neg" -> NegTTL [] OTHER -> 0

\* The verdict contradicts what Postgres would answer now.
Outdated(k, v) ==
  \/ v = "pos" /\ row[k] # "active"
  \/ v = "neg" /\ row[k] = "active"

AuthInit ==
  /\ row = [k \in Keys |-> "absent"]
  /\ cache = [k \in Keys |-> "none"]
  /\ ttl = [k \in Keys |-> 0]
  /\ flight = [g \in Gateways |-> [k \in Keys |-> "none"]]
  /\ stage = [c \in Callers |-> "idle"]
  /\ key \in [Callers -> Keys]
  /\ res = [c \in Callers |-> "none"]
  /\ revoking = [k \in Keys |-> FALSE]
  /\ since = [k \in Keys |-> LongAgo]
  /\ cut = [k \in Keys |-> FALSE]

-----------------------------------------------------------------------------
\* CachedAuthenticator.Authenticate.

\* Mutant: a failing database is reported as a wrong key.
AnswerHidesErrors(v) == IF v = "pos" THEN "ok" ELSE "denied"

\* What the caller of Authenticate (the Auth middleware) makes of a verdict: the
\* request goes on, 401 invalid_credentials, or 500 internal_error.
Answer(v) ==
  CASE v = "pos" -> "ok" [] v = "neg" -> "denied" [] OTHER -> "error"

Begin(c, k) ==
  /\ stage[c] = "idle"
  /\ stage' = [stage EXCEPT ![c] = "read"]
  /\ key' = [key EXCEPT ![c] = k]
  /\ res' = [res EXCEPT ![c] = "none"]
  /\ UNCHANGED <<keyVars, cache, ttl, flight, since>>

\* Mutant: a hit renews the entry.
HitRenews(c) ==
  LET v == cache[key[c]] IN
  /\ stage[c] = "read"
  /\ v # "none"
  /\ stage' = [stage EXCEPT ![c] = "idle"]
  /\ res' = [res EXCEPT ![c] = Answer(v)]
  /\ ttl' = [ttl EXCEPT ![key[c]] = Ttl(v)]
  /\ UNCHANGED <<keyVars, cache, flight, key, since>>

\* read finds an entry.
Hit(c) ==
  LET v == cache[key[c]] IN
  /\ stage[c] = "read"
  /\ v # "none"
  /\ stage' = [stage EXCEPT ![c] = "idle"]
  /\ res' = [res EXCEPT ![c] = Answer(v)]
  /\ UNCHANGED <<keyVars, cache, ttl, flight, key, since>>

\* read finds none, or Redis fails, which counts as a miss.
Miss(c) ==
  /\ stage[c] = "read"
  /\ stage' = [stage EXCEPT ![c] = "missed"]
  /\ UNCHANGED <<keyVars, cache, ttl, flight, key, res, since>>

\* sf.Do: join the call in progress for the key, or lead a new one.
Join(c) ==
  LET g == GatewayOf[c] IN
  /\ stage[c] = "missed"
  /\ stage' = [stage EXCEPT ![c] = "wait"]
  /\ flight' = [flight EXCEPT ![g][key[c]] = IF @ = "none" THEN "query" ELSE @]
  /\ UNCHANGED <<keyVars, cache, ttl, key, res, since>>

\* PostgresAuthenticator.Authenticate: only an active row counts ...
Query(g, k) ==
  /\ flight[g][k] = "query"
  /\ flight' = [flight EXCEPT ![g][k] = IF row[k] = "active" THEN "pos" ELSE "neg"]
  /\ UNCHANGED <<keyVars, cache, ttl, stage, key, res, since>>

\* Mutant: a failed lookup ends without waking those who joined it.
QueryFailsForgets(g, k) ==
  /\ flight[g][k] = "query"
  /\ flight' = [flight EXCEPT ![g][k] = "none"]
  /\ UNCHANGED <<keyVars, cache, ttl, stage, key, res, since>>

\* ... and any other failure is a wrapped error.
QueryFails(g, k) ==
  /\ flight[g][k] = "query"
  /\ flight' = [flight EXCEPT ![g][k] = "err"]
  /\ UNCHANGED <<keyVars, cache, ttl, stage, key, res, since>>

\* The callers that share the call get its outcome.
Waiting(g, k) == {c \in Callers : stage[c] = "wait" /\ GatewayOf[c] = g /\ key[c] = k}

\* Mutant: the call stays in the singleflight group, its outcome served for good.
LandMemoised(g, k) ==
  /\ flight' = flight
  /\ stage' = [c \in Callers |-> IF c \in Waiting(g, k) THEN "idle" ELSE stage[c]]
  /\ res' = [c \in Callers |->
               IF c \in Waiting(g, k) THEN Answer(flight[g][k]) ELSE res[c]]

\* sf.Do forgets the call and returns its outcome to all of them.
Land(g, k) ==
  /\ flight' = [flight EXCEPT ![g][k] = "none"]
  /\ stage' = [c \in Callers |-> IF c \in Waiting(g, k) THEN "idle" ELSE stage[c]]
  /\ res' = [c \in Callers |->
               IF c \in Waiting(g, k) THEN Answer(flight[g][k]) ELSE res[c]]

\* write stores the verdict, and the call returns ...
Write(g, k) ==
  LET v == flight[g][k] IN
  /\ v \in {"pos", "neg"}
  /\ Ttl(v) > 0
  /\ cache' = [cache EXCEPT ![k] = v]
  /\ ttl' = [ttl EXCEPT ![k] = Ttl(v)]
  /\ Land(g, k)
  /\ UNCHANGED <<keyVars, key, since>>

\* ... or stores nothing: an error, a TTL of zero, or a failing Redis.
WriteSkips(g, k) ==
  /\ flight[g][k] \in {"pos", "neg", "err"}
  /\ Land(g, k)
  /\ UNCHANGED <<keyVars, cache, ttl, key, since>>

-----------------------------------------------------------------------------
\* The life of a key.

\* Keystore.Create.
Create(k) ==
  /\ row[k] = "absent"
  /\ row' = [row EXCEPT ![k] = "active"]
  /\ since' = [since EXCEPT ![k] = 0]
  /\ UNCHANGED <<cache, ttl, authVars, revoking, cut>>

\* The UPDATE that sets revoked_at, COALESCEd with the value it has.
SetRevoked(k) ==
  /\ row' = [row EXCEPT ![k] = "revoked"]
  /\ since' = [since EXCEPT ![k] = IF row[k] = "active" THEN 0 ELSE @]

\* Keystore.Revoke commits; an unknown id is ErrKeyNotFound and changes nothing.
RevokeCommit(k) ==
  /\ row[k] # "absent"
  /\ ~revoking[k]
  /\ SetRevoked(k)
  /\ revoking' = [revoking EXCEPT ![k] = TRUE]
  /\ UNCHANGED <<cache, ttl, authVars, cut>>

\* It deletes the entry and returns ...
RevokeDel(k) ==
  /\ revoking[k]
  /\ revoking' = [revoking EXCEPT ![k] = FALSE]
  /\ cache' = [cache EXCEPT ![k] = "none"]
  /\ ttl' = [ttl EXCEPT ![k] = 0]
  /\ cut' = [cut EXCEPT ![k] = TRUE]
  /\ UNCHANGED <<row, authVars, since>>

\* ... or returns with only a warning when Redis fails.
RevokeDelFails(k) ==
  /\ revoking[k]
  /\ revoking' = [revoking EXCEPT ![k] = FALSE]
  /\ UNCHANGED <<row, cut, cache, ttl, authVars, since>>

\* The row is revoked and the entry left alone: xbctl keyrevoke, or a Revoke that
\* gets an error for an UPDATE that took effect.
RevokeRowOnly(k) ==
  /\ row[k] = "active"
  /\ SetRevoked(k)
  /\ UNCHANGED <<revoking, cut, cache, ttl, authVars>>

\* A lookup of the key is on its way with an answer that is no longer true.
Pending(k) == \E g \in Gateways : Outdated(k, flight[g][k])

\* Time passes; Redis drops entries at the end of their time.
Tick ==
  /\ ttl' = [k \in Keys |-> IF ttl[k] > 0 THEN ttl[k] - 1 ELSE 0]
  /\ cache' = [k \in Keys |-> IF ttl[k] > 1 THEN cache[k] ELSE "none"]
  /\ since' = [k \in Keys |->
                 IF Pending(k) \/ since[k] >= LongAgo THEN since[k] ELSE since[k] + 1]
  /\ UNCHANGED <<keyVars, authVars>>

Finish(g, k) == Write(g, k) \/ WriteSkips(g, k)

AuthNext ==
  \/ \E c \in Callers : Hit(c) \/ Miss(c) \/ Join(c) \/ \E k \in Keys : Begin(c, k)
  \/ \E g \in Gateways, k \in Keys : Query(g, k) \/ QueryFails(g, k) \/ Finish(g, k)
  \/ \E k \in Keys : Create(k) \/ RevokeCommit(k) \/ RevokeDel(k) \/ RevokeDelFails(k)
                       \/ RevokeRowOnly(k)
  \/ Tick

AuthSpec == AuthInit /\ [][AuthNext]_cacheVars

\* Time passes, requests that were begun run, and operations on Redis and
\* Postgres return, with or without success.
AuthFairSpec ==
  /\ AuthSpec
  /\ WF_cacheVars(Tick)
  /\ \A c \in Callers : WF_cacheVars(Hit(c) \/ Miss(c)) /\ WF_cacheVars(Join(c))
  /\ \A g \in Gateways, k \in Keys :
       /\ WF_cacheVars(Query(g, k) \/ QueryFails(g, k))
       /\ WF_cacheVars(Finish(g, k))

-----------------------------------------------------------------------------
AuthTypeOK ==
  /\ row \in [Keys -> {"absent", "active", "revoked"}]
  /\ cache \in [Keys -> {"none", "pos", "neg"}]
  /\ ttl \in [Keys -> 0..LongAgo]
  /\ \A k \in Keys : ttl[k] <= Ttl(cache[k])
  /\ flight \in [Gateways -> [Keys -> {"none", "query", "pos", "neg", "err"}]]
  /\ stage \in [Callers -> {"idle", "read", "missed", "wait"}]
  /\ key \in [Callers -> Keys]
  /\ res \in [Callers -> {"none", "ok", "denied", "error"}]
  /\ revoking \in [Keys -> BOOLEAN]
  /\ since \in [Keys -> 0..LongAgo]
  /\ cut \in [Keys -> BOOLEAN]

\* A cached verdict that contradicts the row has less than its TTL left, by as
\* much as has passed since the change: whatever races with a revocation or a
\* creation, and however often the key is used, no verdict outlives the change
\* by more than one TTL window (the lookup under way at the time included).
OutdatedExpires ==
  \A k \in Keys :
    Outdated(k, cache[k]) => ttl[k] + since[k] <= Ttl(cache[k])

\* What a client is told: it is let in only with an active key or within posTTL
\* of its revocation, and is told that its key is invalid only if it is, or was
\* within negTTL.  A database or Redis failure never becomes either verdict.
AnswerFresh ==
  [][\A c \in Callers :
       LET k == key[c] IN
         res'[c] # res[c] =>
           /\ res'[c] = "ok" =>
                row[k] = "active" \/ since[k] = 0 \/ since[k] < PosTTL
           /\ res'[c] = "denied" =>
                row[k] # "active" \/ since[k] = 0 \/ since[k] < NegTTL]_cacheVars

\* Every Authenticate returns, for those too who merely joined another's lookup.
AuthReturns == \A c \in Callers : stage[c] # "idle" ~> stage[c] = "idle"

\* Once revoked, a key is out of the cache for good after some time, under any
\* traffic with that key.
RevocationSticks == \A k \in Keys : row[k] = "revoked" ~> [](cache[k] # "pos")

\* Keystore's comment: Revoke invalidates the cache "so revoked keys stop
\* authenticating immediately, not after the cache TTL window": a request that
\* looks its key up after a Revoke has deleted the entry finds no Principal.
RevokedImmediately ==
  [][\A c \in Callers :
       cut[key[c]] /\ stage[c] = "read" => res'[c] # "ok"]_cacheVars
=============================================================================
