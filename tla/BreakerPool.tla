----------------------------- MODULE BreakerPool -----------------------------
(***************************************************************************)
(* The breakerPool of internal/router/breaker.go under concurrent callers: *)
(* what the pool promises to whoever calls allow(name) and invokes the     *)
(* returned done callback exactly once.  Router.tla is shown to be such a  *)
(* set of callers (it implements this specification).                      *)
(*                                                                         *)
(* A caller that is refused leaves the breaker as it was (an open breaker  *)
(* whose timeout has passed admits, so a refusal is never the step that    *)
(* changes state), hence refusals are stuttering steps here.               *)
(***************************************************************************)
EXTENDS CircuitBreaker

CONSTANTS
  Providers,
  Callers,
  NoProvider,    \* permit[c] when c holds none
  CountLimit     \* bound: requests counted in one generation (uint32 in the code)

ASSUME PoolConstants ==
  /\ IsFiniteSet(Callers)
  /\ NoProvider \notin Providers
  /\ CountLimit \in Nat

VARIABLES
  cbs,           \* bs: one breaker per provider name
  permit         \* the provider whose done callback the caller still owes

vars == <<cbs, permit>>

Breaker ==
  [state : BreakerStates, due : BOOLEAN, requests : Nat, successes : Nat,
   failures : Nat, live : SUBSET Callers]

TypeOK ==
  /\ cbs \in [Providers -> Breaker]
  /\ permit \in [Callers -> Providers \cup {NoProvider}]

\* newBreakerPool creates an empty map; get creates a breaker, closed and with
\* zero counts, on the first use of its name.  Creating all of them at once is
\* the same: a breaker nobody has used is in that state.
Init ==
  /\ cbs = [p \in Providers |-> NewGeneration("closed")]
  /\ permit = [c \in Callers |-> NoProvider]

\* allow(name) returns a done callback.
Allow(c, p) ==
  /\ permit[c] = NoProvider
  /\ CurrentState(cbs[p]).requests < CountLimit
  /\ Admits(CurrentState(cbs[p]))
  /\ cbs' = [cbs EXCEPT ![p] = Admit(CurrentState(cbs[p]), c)]
  /\ permit' = [permit EXCEPT ![c] = p]

\* done(err), with ok = (err = nil).
Done(c, ok) ==
  /\ permit[c] \in Providers
  /\ cbs' = [cbs EXCEPT ![permit[c]] = AfterRequest(cbs[permit[c]], c, ok)]
  /\ permit' = [permit EXCEPT ![c] = NoProvider]

\* The wall clock passes the breaker's expiry.
Expire(p) ==
  /\ CanExpire(cbs[p])
  /\ cbs' = [cbs EXCEPT ![p].due = TRUE]
  /\ UNCHANGED permit

Next ==
  \/ \E c \in Callers, p \in Providers : Allow(c, p)
  \/ \E c \in Callers, ok \in BOOLEAN : Done(c, ok)
  \/ \E p \in Providers : Expire(p)

Spec == Init /\ [][Next]_vars

\* Fairness: the clock advances, every call ends, and traffic keeps arriving
\* for every provider.
FairSpec ==
  /\ Spec
  /\ \A p \in Providers : WF_vars(Expire(p))
  /\ \A c \in Callers : WF_vars(\E ok \in BOOLEAN : Done(c, ok))
  /\ \A c \in Callers, p \in Providers : SF_vars(Allow(c, p))

-----------------------------------------------------------------------------
\* Every request counted in the current generation is accounted for: it
\* succeeded, it failed, or its caller still owes the done callback, and such
\* a caller owes it to this very breaker.  ReadyToTrip divides by Requests, so
\* a request counted twice or never settled would skew the failure ratio.
PermitAccounting ==
  \A p \in Providers :
    /\ cbs[p].requests =
         cbs[p].successes + cbs[p].failures + Cardinality(cbs[p].live)
    /\ \A c \in cbs[p].live : permit[c] = p

\* A half-open breaker lets at most MaxRequests callers through to the provider
\* it is probing, and an open breaker none of its generation: what "half-open
\* quota" in allow's comment promises.
ProbeLimit ==
  \A p \in Providers :
    /\ cbs[p].state = "half-open" => Cardinality(cbs[p].live) <= MaxRequests
    /\ cbs[p].state = "open" => cbs[p].live = {}

\* A half-open breaker has no expiry, so nothing but a done callback can take
\* it out of that state.  Whenever its quota is used up, some caller still owes
\* one: the breaker is never left refusing everybody for good.
ProbeOutstanding ==
  \A p \in Providers :
    cbs[p].state = "half-open" /\ cbs[p].requests >= MaxRequests
      => \E c \in Callers : c \in cbs[p].live /\ permit[c] = p

\* A breaker that opened returns to closed only through the half-open state and
\* its probes; the late result of a call admitted before it opened never closes
\* it (nor trips the half-open breaker: see LateResultsDropped).
ClosesThroughProbe ==
  [][\A p \in Providers :
       cbs[p].state = "open" => cbs'[p].state # "closed"]_vars

\* While nobody of the current generation is inside the provider, no result can
\* move the breaker: what callers admitted before a trip report later does not
\* count, neither against the provider nor in its favour.
LateResultsDropped ==
  [][\A p \in Providers :
       cbs[p].live = {} /\ ~cbs[p].due /\ cbs'[p].live = {} /\ ~cbs'[p].due
         => cbs'[p] = cbs[p]]_vars

\* Once calls to a provider stop failing, its breaker is closed again and again:
\* it is not stuck open or half-open while traffic flows.
Recovers ==
  \A p \in Providers :
    <>[][\A c \in Callers : ~(permit[c] = p /\ Done(c, FALSE))]_vars
      => []<>(cbs[p].state = "closed")
=============================================================================
