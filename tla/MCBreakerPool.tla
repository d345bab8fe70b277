---------------------------- MODULE MCBreakerPool ----------------------------
\* Two providers shared by three callers.
EXTENDS BreakerPool
=============================================================================
