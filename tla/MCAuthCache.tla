---------------------------- MODULE MCAuthCache ----------------------------
\* Clients of two gateways; c1 and c2 share one.
EXTENDS AuthCache, TLC

CONSTANTS c1, c2, c3, g1, g2

Split == (c1 :> g1) @@ (c2 :> g1) @@ (c3 :> g2)
OneGateway == (c1 :> g1) @@ (c2 :> g1)
=============================================================================
