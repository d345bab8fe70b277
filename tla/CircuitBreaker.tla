--------------------------- MODULE CircuitBreaker ---------------------------
(***************************************************************************)
(* One provider's circuit breaker: the record a breakerPool keeps for a    *)
(* provider name (internal/router/breaker.go) and the two steps the router *)
(* takes through it, Allow() before a call and done(err) after it.         *)
(*                                                                         *)
(* The transitions are those of gobreaker's TwoStepCircuitBreaker, the     *)
(* library breaker.go configures; ReadyToTrip and the settings are the     *)
(* repository's own.  Two abstractions of data:                            *)
(*                                                                         *)
(*  - time.  A breaker compares the wall clock with its expiry only inside *)
(*    Allow and done.  Whether the expiry has passed is the Boolean `due`, *)
(*    which the clock may raise at any moment while an expiry is set: in   *)
(*    the closed state (Interval) and in the open state (Timeout), never   *)
(*    in the half-open state, which has none.                              *)
(*                                                                         *)
(*  - generations.  A done callback remembers the generation it was handed *)
(*    out in, and the only use of the number is to compare it with the     *)
(*    current one.  `live` is the set of callers whose outstanding permit  *)
(*    belongs to the current generation; a new generation empties it.      *)
(***************************************************************************)
EXTENDS Integers, FiniteSets

CONSTANTS
  MaxRequests,   \* probes admitted, and successes needed, in half-open
  MinRequests,   \* requests a generation needs before it can trip
  FailNum,       \* FailureRatio is FailNum / FailDen
  FailDen

\* BreakerSettings.applyDefaults replaces every zero or negative field, so
\* the settings a pool uses are positive.
ASSUME BreakerSettings ==
  /\ MaxRequests \in Nat \ {0}
  /\ MinRequests \in Nat \ {0}
  /\ FailNum \in Nat \ {0}
  /\ FailDen \in Nat \ {0}

BreakerStates == {"closed", "half-open", "open"}

\* setState and toNewGeneration: counts cleared, permits of the previous
\* generation orphaned, the expiry set anew.
NewGeneration(s) ==
  [state |-> s, due |-> FALSE, requests |-> 0, successes |-> 0,
   failures |-> 0, live |-> {}]

\* currentState(now), evaluated at the head of Allow and of done.
CurrentState(cb) ==
  IF cb.due
  THEN NewGeneration(IF cb.state = "open" THEN "half-open" ELSE "closed")
  ELSE cb

\* beforeRequest: an open breaker answers ErrOpenState, a half-open one whose
\* quota is used up ErrTooManyRequests.
Admits(cb) ==
  \/ cb.state = "closed"
  \/ cb.state = "half-open" /\ cb.requests < MaxRequests

Admit(cb, c) ==
  [cb EXCEPT !.requests = @ + 1, !.live = @ \cup {c}]

\* The ReadyToTrip closure of breakerPool.get.
ReadyToTrip(cb) ==
  /\ cb.requests >= MinRequests
  /\ cb.failures * FailDen >= FailNum * cb.requests

Succeed(cb, c) ==
  [cb EXCEPT !.successes = @ + 1, !.live = @ \ {c}]

Fail(cb, c) ==
  [cb EXCEPT !.failures = @ + 1, !.live = @ \ {c}]

\* Mutant: one success too many is required.
OnSuccessOffByOne(cb, c) ==
  IF cb.state = "half-open" /\ Succeed(cb, c).successes > MaxRequests
  THEN NewGeneration("closed")
  ELSE Succeed(cb, c)

\* Mutant: enough successes start another round of probes.
OnSuccessKeepsProbing(cb, c) ==
  IF cb.state = "half-open" /\ Succeed(cb, c).successes >= MaxRequests
  THEN NewGeneration("half-open")
  ELSE Succeed(cb, c)

\* onSuccess.  A failure ends a half-open generation, so there the library's
\* ConsecutiveSuccesses is the number of successes of the generation.
OnSuccess(cb, c) ==
  IF cb.state = "half-open" /\ Succeed(cb, c).successes >= MaxRequests
  THEN NewGeneration("closed")
  ELSE Succeed(cb, c)

\* onFailure.
OnFailure(cb, c) ==
  IF cb.state = "half-open" \/ ReadyToTrip(Fail(cb, c))
  THEN NewGeneration("open")
  ELSE Fail(cb, c)

\* Mutant: the generation of the permit is not compared.
AfterRequestAnyGeneration(cb, c, ok) ==
  IF ok THEN OnSuccess(CurrentState(cb), c) ELSE OnFailure(CurrentState(cb), c)

\* Mutant: a late failure reopens a half-open breaker.
AfterRequestLateReopens(cb, c, ok) ==
  LET cur == CurrentState(cb) IN
    IF c \notin cur.live
    THEN IF ok \/ cur.state # "half-open" THEN cur ELSE NewGeneration("open")
    ELSE IF ok THEN OnSuccess(cur, c) ELSE OnFailure(cur, c)

\* afterRequest: the result of a permit of an older generation is dropped.
AfterRequest(cb, c, ok) ==
  LET cur == CurrentState(cb) IN
    IF c \notin cur.live THEN cur
    ELSE IF ok THEN OnSuccess(cur, c) ELSE OnFailure(cur, c)

\* The clock may pass the expiry.  For a closed breaker that has counted nothing
\* the new generation is the one it has, so nothing happens.
CanExpire(cb) ==
  /\ ~cb.due
  /\ cb.state = "open" \/ (cb.state = "closed" /\ cb.requests > 0)
=============================================================================
