------------------------------ MODULE MCRouter ------------------------------
\* Instances of Router: two providers in failover order.
EXTENDS Router, TLC

CONSTANTS p1, p2

FullChain == {<<p1, p2>>}
ChainOrNone == {<<>>, <<p1, p2>>}
=============================================================================
