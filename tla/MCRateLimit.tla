---------------------------- MODULE MCRateLimit ----------------------------
(* Instances of RateLimit for TLC. *)
EXTENDS RateLimit, TLC

CONSTANTS r1, r2, r3, g1, g2, m1

Rule(algorithm, n, u, keyBy) ==
  [algorithm |-> algorithm, count |-> 1, per |-> "m", burst |-> n, limit |-> n,
   unit |-> u, keyBy |-> keyBy]

MCSkew == (g1 :> 0) @@ (g2 :> 1)
SameKey == [r \in Requests |-> "k"]
SameModel == [r \in Requests |-> m1]
MCTokens == [r \in Requests |-> IF r = r2 THEN 2 ELSE 1]

OneGateway(R) == [r \in R |-> g1]
Spread(R) == [r \in R |-> IF r = r2 THEN g2 ELSE g1]

\* Three requests from two gateways on one window; three on one bucket of two
\* tokens; and two on a bucket for requests, of the default size 1, followed by
\* a window for tokens, and on a window for requests followed by another.
MCScenarios ==
  {[config |-> <<Rule("redis_window", 2, "", {"api_key"})>>,
    gateway |-> Spread({r1, r2, r3})],
   [config |-> <<Rule("memory_bucket", 2, "tokens", {"api_key", "model"})>>,
    gateway |-> OneGateway({r1, r2, r3})],
   [config |-> <<Rule("redis_window", 2, "tokens", {"model"}),
                 Rule("memory_bucket", 0, "requests", {})>>,
    gateway |-> OneGateway({r1, r2})],
   [config |-> <<Rule("redis_window", 1, "requests", {"api_key"}),
                 Rule("redis_window", 2, "requests", {})>>,
    gateway |-> Spread({r1, r2})]}
=============================================================================
