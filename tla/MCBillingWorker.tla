--------------------------- MODULE MCBillingWorker ---------------------------
\* Three requests, the last of which falls into the next month.
EXTENDS BillingWorker, TLC

CONSTANTS r1, r2, r3, april, may

TwoMonths == (r1 :> april) @@ (r2 :> april) @@ (r3 :> may)
=============================================================================
