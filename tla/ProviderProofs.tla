--------------------------- MODULE ProviderProofs ---------------------------
(***************************************************************************)
(* The breakers of the providers, the registry and its hot reload, and the *)
(* statistics, for any providers, callers and breaker settings, any files, *)
(* globs, clients and reloads, any ring and any cacheTTL.                  *)
(*                                                                         *)
(* BreakerPool: IInv is TypeOK, Counts for every breaker (what the record  *)
(* of one breaker satisfies by itself, preserved by each operator of       *)
(* CircuitBreaker) and LiveHold (a permit of the current generation is     *)
(* owed by its caller to that breaker).  Registry: what a file builds and  *)
(* a table resolves stays opaque, the argument is about which table is     *)
(* installed when (Inv).  Stats: Fresh says how far behind the counters    *)
(* each projection may be, Series what each slot of the ring holds; the    *)
(* two are inductive on their own.  With them so is Tallied: what the      *)
(* summary counts is in the chart, or its request about to enter it.       *)
(***************************************************************************)
EXTENDS BreakerPool, Registry, Stats, FiniteSetTheorems, TLAPS

-----------------------------------------------------------------------------
\* BreakerPool.

\* What a breaker's record satisfies on its own.
Counts(cb) ==
  /\ cb \in Breaker
  /\ cb.requests = cb.successes + cb.failures + Cardinality(cb.live)
  /\ cb.state = "open" => cb.live = {}
  /\ cb.state = "half-open" =>
       /\ ~cb.due
       /\ cb.failures = 0
       /\ cb.successes < MaxRequests
       /\ cb.requests <= MaxRequests

LiveHold == \A p \in Providers : \A c \in cbs[p].live : permit[c] = p

IInv ==
  /\ TypeOK
  /\ \A p \in Providers : Counts(cbs[p])
  /\ LiveHold

-----------------------------------------------------------------------------
\* A new generation starts with consistent counts.
LEMMA FreshCounts ==
  ASSUME NEW s \in BreakerStates
  PROVE  Counts(NewGeneration(s))
BY BreakerSettings, FS_EmptySet DEF Counts, NewGeneration, Breaker, BreakerStates

\* Looking at the clock keeps the counts consistent and can only orphan permits.
LEMMA CurrentCounts ==
  ASSUME NEW cb, Counts(cb)
  PROVE  /\ Counts(CurrentState(cb))
         /\ CurrentState(cb).live \subseteq cb.live
         /\ ~CurrentState(cb).due
<1>1. Counts(NewGeneration("half-open")) /\ Counts(NewGeneration("closed"))
  BY FreshCounts, Zenon DEF BreakerStates
<1>2. cb.due \in BOOLEAN /\ cb.live \in SUBSET Callers
  BY Zenon DEF Counts, Breaker
<1> QED
  BY <1>1, <1>2, Zenon DEF CurrentState, NewGeneration

\* Admitting a caller that holds no permit keeps them consistent.
LEMMA AdmitCounts ==
  ASSUME NEW cb, Counts(cb), Admits(cb), ~cb.due,
         NEW c \in Callers, c \notin cb.live
  PROVE  Counts(Admit(cb, c))
<1>1. IsFiniteSet(cb.live)
  BY PoolConstants, FS_Subset, Zenon DEF Counts, Breaker
<1>2. /\ Cardinality(cb.live \cup {c}) = Cardinality(cb.live) + 1
      /\ Cardinality(cb.live) \in Nat
  BY <1>1, FS_AddElement, FS_CardinalityType, Zenon
<1> DEFINE new == Admit(cb, c)
<1>3. /\ new.state = cb.state /\ new.due = cb.due
      /\ new.successes = cb.successes /\ new.failures = cb.failures
      /\ new.requests = cb.requests + 1
      /\ new.live = cb.live \cup {c}
      /\ new \in Breaker
  <2>1. cb \in Breaker
    BY Zenon DEF Counts
  <2>2. cb.live \cup {c} \in SUBSET Callers /\ cb.requests + 1 \in Nat
    BY <2>1 DEF Breaker
  <2> QED
    BY <2>1, <2>2, Zenon DEF Admit, Breaker
<1>4. /\ cb.requests \in Nat /\ cb.successes \in Nat /\ cb.failures \in Nat
      /\ cb.requests = cb.successes + cb.failures + Cardinality(cb.live)
  BY Zenon DEF Counts, Breaker
<1>5. new.requests = new.successes + new.failures + Cardinality(new.live)
  BY <1>2, <1>3, <1>4
<1>6. cb.state # "open" /\ (cb.state = "half-open" => cb.requests < MaxRequests)
  BY Zenon DEF Admits
<1> HIDE DEF new
<1>7. Counts(new)
  BY <1>3, <1>4, <1>5, <1>6, BreakerSettings DEF Counts
<1> QED
  BY <1>7, Zenon DEF new

\* What recording a success or a failure changes in the record.
LEMMA SucceedFields ==
  ASSUME NEW cb \in Breaker, NEW c
  PROVE  LET new == Succeed(cb, c) IN
         /\ new.state = cb.state /\ new.due = cb.due
         /\ new.requests = cb.requests /\ new.failures = cb.failures
         /\ new.successes = cb.successes + 1
         /\ new.live = cb.live \ {c}
         /\ new \in Breaker
<1>1. cb.live \ {c} \in SUBSET Callers /\ cb.successes + 1 \in Nat
  BY DEF Breaker
<1> QED
  BY <1>1, Zenon DEF Succeed, Breaker

\* What Fail changes of a breaker record, field by field.
LEMMA FailFields ==
  ASSUME NEW cb \in Breaker, NEW c
  PROVE  LET new == Fail(cb, c) IN
         /\ new.state = cb.state /\ new.due = cb.due
         /\ new.requests = cb.requests /\ new.successes = cb.successes
         /\ new.failures = cb.failures + 1
         /\ new.live = cb.live \ {c}
         /\ new \in Breaker
<1>1. cb.live \ {c} \in SUBSET Callers /\ cb.failures + 1 \in Nat
  BY DEF Breaker
<1> QED
  BY <1>1, Zenon DEF Fail, Breaker

\* A done callback keeps them consistent and settles the caller's permit.
LEMMA AfterCounts ==
  ASSUME NEW cb, Counts(cb), NEW c \in Callers, NEW ok \in BOOLEAN
  PROVE  /\ Counts(AfterRequest(cb, c, ok))
         /\ AfterRequest(cb, c, ok).live \subseteq cb.live \ {c}
<1> DEFINE cur == CurrentState(cb)
<1>1. Counts(cur) /\ cur.live \subseteq cb.live
  BY CurrentCounts, Zenon
<1>2. CASE c \notin cur.live
  BY <1>1, <1>2, Zenon DEF AfterRequest
<1>3. CASE c \in cur.live
  <2>1. IsFiniteSet(cur.live)
    BY <1>1, PoolConstants, FS_Subset, Zenon DEF Counts, Breaker
  <2>2. /\ Cardinality(cur.live \ {c}) = Cardinality(cur.live) - 1
        /\ Cardinality(cur.live) \in Nat
        /\ Cardinality(cur.live \ {c}) \in Nat
    BY <2>1, <1>3, FS_RemoveElement, FS_CardinalityType, FS_Subset, Zenon
  <2>3. cur.state # "open"
    BY <1>1, <1>3, Zenon DEF Counts
  <2>4. /\ Counts(NewGeneration("open")) /\ NewGeneration("open").live = {}
        /\ Counts(NewGeneration("closed")) /\ NewGeneration("closed").live = {}
    BY FreshCounts, Zenon DEF BreakerStates, NewGeneration
  <2> HIDE DEF cur
  <2>5. CASE ok
    <3> DEFINE new == Succeed(cur, c)
    <3>1. /\ new.state = cur.state /\ new.due = cur.due
          /\ new.requests = cur.requests /\ new.failures = cur.failures
          /\ new.successes = cur.successes + 1
          /\ new.live = cur.live \ {c}
          /\ new \in Breaker
      BY <1>1, SucceedFields, Zenon DEF Counts
    <3>2. CASE cur.state = "half-open" /\ Succeed(cur, c).successes >= MaxRequests
      BY <1>1, <2>4, <2>5, <1>3, <3>2, Zenon DEF AfterRequest, OnSuccess, cur
    <3>3. CASE ~(cur.state = "half-open" /\ Succeed(cur, c).successes >= MaxRequests)
      <4>1. Counts(Succeed(cur, c))
        <5> HIDE DEF new
        <5>1. /\ cur.requests = cur.successes + cur.failures + Cardinality(cur.live)
              /\ cur.successes \in Nat /\ cur.failures \in Nat /\ cur.requests \in Nat
          BY <1>1, Zenon DEF Counts, Breaker
        <5>2. new.requests = new.successes + new.failures + Cardinality(new.live)
          BY <2>2, <3>1, <5>1
        <5>3. new.state = "half-open" => new.successes < MaxRequests
          BY <3>1, <3>3, <5>1, BreakerSettings DEF new
        <5>4. Counts(new)
          BY <1>1, <2>3, <3>1, <5>2, <5>3, Zenon DEF Counts
        <5> QED
          BY <5>4, Zenon DEF new
      <4> QED
        BY <4>1, <1>1, <1>3, <2>5, <3>1, <3>3, Zenon DEF AfterRequest, OnSuccess, cur
    <3> QED
      BY <3>2, <3>3, Zenon
  <2>6. CASE ~ok
    <3>1. CASE cur.state = "half-open" \/ ReadyToTrip(Fail(cur, c))
      BY <1>1, <2>4, <2>6, <1>3, <3>1, Zenon DEF AfterRequest, OnFailure, cur
    <3>2. CASE ~(cur.state = "half-open" \/ ReadyToTrip(Fail(cur, c)))
      <4> DEFINE new == Fail(cur, c)
      <4>1. Counts(new) /\ new.live = cur.live \ {c}
        <5>1. /\ new.state = cur.state /\ new.due = cur.due
              /\ new.requests = cur.requests /\ new.successes = cur.successes
              /\ new.failures = cur.failures + 1
              /\ new.live = cur.live \ {c}
              /\ new \in Breaker
          BY <1>1, FailFields, Zenon DEF Counts
        <5> HIDE DEF new
        <5>2. /\ cur.requests = cur.successes + cur.failures + Cardinality(cur.live)
              /\ cur.successes \in Nat /\ cur.failures \in Nat /\ cur.requests \in Nat
          BY <1>1, Zenon DEF Counts, Breaker
        <5>3. new.requests = new.successes + new.failures + Cardinality(new.live)
          BY <2>2, <5>1, <5>2
        <5> QED
          BY <2>3, <3>2, <5>1, <5>3, Zenon DEF Counts
      <4> QED
        BY <4>1, <1>1, <1>3, <2>6, <3>2, Zenon DEF AfterRequest, OnFailure, cur
    <3> QED
      BY <3>1, <3>2, Zenon
  <2> QED
    BY <2>5, <2>6, Zenon
<1> QED
  BY <1>2, <1>3, Zenon

-----------------------------------------------------------------------------
\* Fresh breakers satisfy the invariant.
LEMMA InitInvariant == Init => IInv
<1> SUFFICES ASSUME Init PROVE IInv
  BY Zenon
<1>1. Counts(NewGeneration("closed")) /\ NewGeneration("closed").live = {}
  BY FreshCounts, Zenon DEF BreakerStates, NewGeneration
<1> QED
  BY <1>1, Zenon DEF Init, IInv, TypeOK, LiveHold, Counts

\* Every step of the pool preserves the invariant.
LEMMA NextInvariant == IInv /\ [Next]_vars => IInv'
<1> SUFFICES ASSUME IInv, [Next]_vars PROVE IInv'
  BY Zenon
<1>1. ASSUME NEW c \in Callers, NEW p \in Providers, Allow(c, p)
      PROVE  IInv'
  <2> DEFINE cur == CurrentState(cbs[p])
  <2>1. Counts(cur) /\ cur.live \subseteq cbs[p].live /\ ~cur.due
    BY CurrentCounts, Zenon DEF IInv
  <2>2. c \notin cur.live
    BY <1>1, <2>1, PoolConstants, Zenon DEF IInv, LiveHold, Allow
  <2>3. Counts(Admit(cur, c))
    BY <1>1, <2>1, <2>2, AdmitCounts, Zenon DEF Allow
  <2>4. Admit(cur, c).live = cur.live \cup {c}
    BY <2>1, Zenon DEF Admit, Counts, Breaker
  <2> HIDE DEF cur
  <2>5. /\ cbs' = [cbs EXCEPT ![p] = Admit(cur, c)]
        /\ permit' = [permit EXCEPT ![c] = p]
        /\ permit[c] = NoProvider
    BY <1>1, Zenon DEF Allow, cur
  <2>6. TypeOK'
    BY <2>3, <2>5, Zenon DEF IInv, TypeOK, Counts
  <2>7. \A q \in Providers : Counts(cbs'[q])
    BY <2>3, <2>5, Zenon DEF IInv, TypeOK
  <2>8. LiveHold'
    BY <2>1, <2>4, <2>5, PoolConstants DEF IInv, LiveHold, TypeOK
  <2> QED
    BY <2>6, <2>7, <2>8, Zenon DEF IInv, Counts
<1>2. ASSUME NEW c \in Callers, NEW ok \in BOOLEAN, Done(c, ok)
      PROVE  IInv'
  <2> DEFINE p == permit[c]
             new == AfterRequest(cbs[p], c, ok)
  <2>1. p \in Providers
    BY <1>2, Zenon DEF Done
  <2>2. Counts(new) /\ new.live \subseteq cbs[p].live \ {c}
    BY <2>1, AfterCounts, Zenon DEF IInv
  <2>3. /\ cbs' = [cbs EXCEPT ![p] = new]
        /\ permit' = [permit EXCEPT ![c] = NoProvider]
    BY <1>2, Zenon DEF Done
  <2> HIDE DEF new
  <2>4. TypeOK'
    BY <2>1, <2>2, <2>3, Zenon DEF IInv, TypeOK, Counts
  <2>5. \A q \in Providers : Counts(cbs'[q])
    BY <2>1, <2>2, <2>3, Zenon DEF IInv, TypeOK
  <2>6. LiveHold'
    <3> SUFFICES ASSUME NEW q \in Providers, NEW d \in cbs'[q].live
                 PROVE  permit'[d] = q
      BY Zenon DEF LiveHold
    <3>1. d \in cbs[q].live /\ d # c
      <4>1. CASE q = p
        BY <2>1, <2>2, <2>3, <4>1, Zenon DEF IInv, TypeOK
      <4>2. CASE q # p
        <5>1. d \in cbs[q].live
          BY <2>3, <4>2, Zenon DEF IInv, TypeOK
        <5>2. permit[d] = q
          BY <5>1, Zenon DEF IInv, LiveHold
        <5> QED
          BY <5>1, <5>2, <4>2, Zenon
      <4> QED
        BY <4>1, <4>2, Zenon
    <3>2. permit[d] = q /\ d \in Callers
      BY <3>1, Zenon DEF IInv, LiveHold, TypeOK, Breaker
    <3> QED
      BY <3>1, <3>2, <2>3, Zenon DEF IInv, TypeOK
  <2> QED
    BY <2>4, <2>5, <2>6, Zenon DEF IInv, Counts
<1>3. ASSUME NEW p \in Providers, Expire(p)
      PROVE  IInv'
  <2> DEFINE new == [cbs[p] EXCEPT !.due = TRUE]
  <2>1. Counts(new) /\ new.live = cbs[p].live
    BY <1>3, Zenon DEF IInv, Counts, Breaker, Expire, CanExpire
  <2>2. cbs' = [cbs EXCEPT ![p] = new] /\ permit' = permit
    BY <1>3, Zenon DEF Expire
  <2> HIDE DEF new
  <2>3. TypeOK'
    BY <2>1, <2>2, Zenon DEF IInv, TypeOK, Counts
  <2>4. \A q \in Providers : Counts(cbs'[q]) /\ cbs'[q].live = cbs[q].live
    BY <2>1, <2>2, Zenon DEF IInv, TypeOK
  <2> QED
    BY <2>2, <2>3, <2>4, Zenon DEF IInv, LiveHold, Counts
<1>4. CASE UNCHANGED vars
  BY <1>4, Zenon DEF IInv, TypeOK, LiveHold, Counts, vars
<1> QED
  BY <1>1, <1>2, <1>3, <1>4, Zenon DEF Next

-----------------------------------------------------------------------------
\* The inductive invariant of the pool holds in every reachable state.
THEOREM InvariantHolds == Spec => []IInv
BY InitInvariant, NextInvariant, PTL DEF Spec

\* Every request a breaker counts is a success, a failure or a permit still owed
\* to it (breakerPool.allow / done), for any number of callers and providers.
THEOREM AccountingHolds == Spec => []PermitAccounting
<1>1. IInv => PermitAccounting
  BY Zenon DEF IInv, LiveHold, Counts, PermitAccounting
<1> QED
  BY <1>1, InvariantHolds, PTL

\* The half-open quota is never exceeded and an open breaker admits nobody.
THEOREM ProbeLimitHolds == Spec => []ProbeLimit
<1>1. IInv => ProbeLimit
  <2> SUFFICES ASSUME IInv, NEW p \in Providers
               PROVE  /\ cbs[p].state = "half-open"
                           => Cardinality(cbs[p].live) <= MaxRequests
                      /\ cbs[p].state = "open" => cbs[p].live = {}
    BY Zenon DEF ProbeLimit
  <2>1. Counts(cbs[p])
    BY Zenon DEF IInv
  <2>2. Cardinality(cbs[p].live) \in Nat
    BY <2>1, PoolConstants, FS_Subset, FS_CardinalityType, Zenon DEF Counts, Breaker
  <2> QED
    BY <2>1, <2>2, BreakerSettings DEF Counts, Breaker
<1> QED
  BY <1>1, InvariantHolds, PTL

\* A half-open breaker with its quota used up always has a caller that still owes
\* it a done callback, so it cannot be wedged in that state.
THEOREM ProbeOutstandingHolds == Spec => []ProbeOutstanding
<1>1. IInv => ProbeOutstanding
  <2> SUFFICES ASSUME IInv, NEW p \in Providers,
                      cbs[p].state = "half-open", cbs[p].requests >= MaxRequests
               PROVE  \E c \in Callers : c \in cbs[p].live /\ permit[c] = p
    BY Zenon DEF ProbeOutstanding
  <2>1. Counts(cbs[p])
    BY Zenon DEF IInv
  <2>2. /\ IsFiniteSet(cbs[p].live)
        /\ Cardinality(cbs[p].live) \in Nat
    BY <2>1, PoolConstants, FS_Subset, FS_CardinalityType, Zenon DEF Counts, Breaker
  <2>3. Cardinality(cbs[p].live) # 0
    BY <2>1, <2>2, BreakerSettings DEF Counts, Breaker
  <2>4. cbs[p].live # {}
    BY <2>3, FS_EmptySet, Zenon
  <2>5. PICK c \in cbs[p].live : TRUE
    BY <2>4, Zenon
  <2> QED
    BY <2>1, <2>5, Zenon DEF IInv, LiveHold, Counts, Breaker
<1> QED
  BY <1>1, InvariantHolds, PTL

\* A breaker leaves the open state for the half-open one only.
THEOREM ClosesThroughProbeHolds == Spec => ClosesThroughProbe
<1>1. IInv /\ [Next]_vars
        => [\A p \in Providers : cbs[p].state = "open" => cbs'[p].state # "closed"]_vars
  <2> SUFFICES ASSUME IInv, Next, NEW p \in Providers, cbs[p].state = "open"
               PROVE  cbs'[p].state # "closed"
    BY Zenon
  <2>1. CurrentState(cbs[p]).state # "closed"
    BY Zenon DEF CurrentState, NewGeneration
  <2>2. CurrentState(cbs[p]).live = {}
    BY Zenon DEF IInv, Counts, CurrentState, NewGeneration
  <2>3. ASSUME NEW c \in Callers, NEW q \in Providers, Allow(c, q)
        PROVE  cbs'[p].state # "closed"
    <3>1. CASE q = p
      <4>1. Counts(CurrentState(cbs[p]))
        BY CurrentCounts, Zenon DEF IInv
      <4>2. Admit(CurrentState(cbs[p]), c).state = CurrentState(cbs[p]).state
        BY <4>1, Zenon DEF Admit, Counts, Breaker
      <4> QED
        BY <2>1, <2>3, <3>1, <4>2, Zenon DEF Allow, IInv, TypeOK
    <3>2. CASE q # p
      BY <2>3, <3>2, Zenon DEF Allow, IInv, TypeOK
    <3> QED
      BY <3>1, <3>2, Zenon
  <2>4. ASSUME NEW c \in Callers, NEW ok \in BOOLEAN, Done(c, ok)
        PROVE  cbs'[p].state # "closed"
    <3>1. AfterRequest(cbs[p], c, ok) = CurrentState(cbs[p])
      BY <2>2, Zenon DEF AfterRequest
    <3> QED
      BY <2>1, <2>4, <3>1, Zenon DEF Done, IInv, TypeOK
  <2>5. ASSUME NEW q \in Providers, Expire(q)
        PROVE  cbs'[p].state # "closed"
    BY <2>5, Zenon DEF Expire, IInv, TypeOK, Breaker
  <2> QED
    BY <2>3, <2>4, <2>5, Zenon DEF Next
<1> QED
  BY <1>1, InvariantHolds, PTL DEF Spec, ClosesThroughProbe

\* While no caller of the current generation is inside the provider, no late
\* done callback moves its breaker.
THEOREM LateResultsDroppedHolds == Spec => LateResultsDropped
<1>1. IInv /\ [Next]_vars
        => [\A p \in Providers :
              cbs[p].live = {} /\ ~cbs[p].due /\ cbs'[p].live = {} /\ ~cbs'[p].due
                => cbs'[p] = cbs[p]]_vars
  <2> SUFFICES ASSUME IInv, Next, NEW p \in Providers, cbs[p].live = {}, ~cbs[p].due,
                      cbs'[p].live = {}, ~cbs'[p].due
               PROVE  cbs'[p] = cbs[p]
    BY Zenon
  <2>0. cbs \in [Providers -> Breaker] /\ CurrentState(cbs[p]) = cbs[p]
    BY Zenon DEF IInv, TypeOK, CurrentState
  <2>1. ASSUME NEW c \in Callers, NEW q \in Providers, Allow(c, q)
        PROVE  cbs'[p] = cbs[p]
    <3>1. CASE q = p
      <4>1. cbs'[p] = Admit(cbs[p], c)
        BY <2>0, <2>1, <3>1, Zenon DEF Allow
      <4>2. c \in Admit(cbs[p], c).live
        BY <2>0, Zenon DEF Admit, Breaker
      <4> QED
        BY <4>1, <4>2, Zenon
    <3>2. CASE q # p
      BY <2>0, <2>1, <3>2, Zenon DEF Allow
    <3> QED
      BY <3>1, <3>2, Zenon
  <2>2. ASSUME NEW c \in Callers, NEW ok \in BOOLEAN, Done(c, ok)
        PROVE  cbs'[p] = cbs[p]
    <3>1. AfterRequest(cbs[p], c, ok) = cbs[p]
      BY <2>0, Zenon DEF AfterRequest
    <3> QED
      BY <2>0, <2>2, <3>1, Zenon DEF Done
  <2>3. ASSUME NEW q \in Providers, Expire(q)
        PROVE  cbs'[p] = cbs[p]
    BY <2>0, <2>3, Zenon DEF Expire, Breaker
  <2> QED
    BY <2>1, <2>2, <2>3, Zenon DEF Next
<1> QED
  BY <1>1, InvariantHolds, PTL DEF Spec, LateResultsDropped

-----------------------------------------------------------------------------
\* ReloadKeepsServing and ChainsFollowFile.

\* The table t is what f builds: nothing without a file, and otherwise a load that
\* succeeded.
Built(t, f) ==
  /\ f \in written
  /\ IF f = NoFile THEN t = EmptyTable ELSE Loads(f) /\ t = Load(f)

\* What a client is turned away for.
Unserved(m) == \E f \in written : f = NoFile \/ (Loads(f) /\ ~Resolves(Load(f), m))

\* The installed table, and one about to be, is built from a file that was on
\* disk.
Inv ==
  /\ DOMAIN reload = Reloaders /\ DOMAIN fresh = Reloaders
  /\ DOMAIN client = Clients /\ DOMAIN chain = Clients
  /\ file \in written /\ written \subseteq Files \cup {NoFile}
  /\ Built(table, source)
  /\ \A r \in Reloaders : reload[r] = "swap" => Built(fresh[r].table, fresh[r].source)
  /\ \A c \in Clients : client[c] \in {"refused", "failed"} => Unserved(Wanted[c])

\* A model the installed table does not resolve is unserved by a file.
LEMMA TableIsAFile ==
  ASSUME NEW m, Built(table, source), ~Resolves(table, m)
  PROVE  Unserved(m)
  BY Zenon DEF Built, Unserved

\* The invariant holds when the gateway starts.
LEMMA InitInv == RegistryInit => Inv
<1> SUFFICES ASSUME RegistryInit PROVE Inv
  BY Zenon
<1>1. file \in written /\ Built(table, source)
  BY Zenon DEF RegistryInit, Built
<1>2. \A r \in Reloaders : reload[r] = "idle"
  BY Zenon DEF RegistryInit
<1>3. \A c \in Clients : client[c] = "idle"
  BY Zenon DEF RegistryInit
<1> QED
  BY <1>1, <1>2, <1>3, Zenon DEF RegistryInit, Inv

\* Editing the file on disk touches neither a table nor a holder.
LEMMA EditFileInv == ASSUME Inv, NEW f \in Files, EditFile(f) PROVE Inv'
<1>1. /\ written \subseteq written' /\ file' \in written'
      /\ written' \subseteq Files \cup {NoFile}
  BY Zenon DEF EditFile, Inv
<1>2. UNCHANGED <<table, source, reload, fresh, client, chain>>
  BY Zenon DEF EditFile
<1>3. Built(table, source)'
  BY <1>1, <1>2, Zenon DEF Inv, Built, EmptyTable
<1>4. \A r \in Reloaders : reload[r] = "swap" => Built(fresh[r].table, fresh[r].source)'
  BY <1>1, <1>2, Zenon DEF Inv, Built, EmptyTable
<1>5. \A c \in Clients : client[c] \in {"refused", "failed"} => Unserved(Wanted[c])'
  BY <1>1, Zenon DEF Inv, Unserved
<1> QED
  BY <1>1, <1>2, <1>3, <1>4, <1>5, Zenon DEF Inv, Clients

\* A load builds a table of its own and leaves the shared one.
LEMMA LoadFileInv == ASSUME Inv, NEW r \in Reloaders, LoadFile(r) PROVE Inv'
<1>1. UNCHANGED <<file, written, table, source, client, chain>>
  BY Zenon DEF LoadFile
<1>2. DOMAIN reload' = Reloaders /\ DOMAIN fresh' = Reloaders
  BY Zenon DEF LoadFile, Inv
<1>3. \A q \in Reloaders :
        reload'[q] = "swap" => Built(fresh'[q].table, fresh'[q].source)
  <2> SUFFICES ASSUME NEW q \in Reloaders, reload'[q] = "swap"
               PROVE  Built(fresh'[q].table, fresh'[q].source)
    BY Zenon
  <2>1. CASE q = r
    <3>1. Loads(file) /\ fresh'[r] = [table |-> Load(file), source |-> file]
      BY <2>1, Zenon DEF LoadFile, Inv
    <3> QED
      BY <2>1, <3>1 DEF Inv, Built, Loads
  <2>2. CASE q # r
    BY <2>2, Zenon DEF LoadFile, Inv
  <2> QED
    BY <2>1, <2>2, Zenon
<1> QED
  BY <1>1, <1>2, <1>3, Zenon DEF Inv, Built, Unserved, Clients

\* The swap (Handle.Reload) replaces the table as a whole.
LEMMA SwapInv == ASSUME Inv, NEW r \in Reloaders, Swap(r) PROVE Inv'
<1>1. UNCHANGED <<file, written, fresh, client, chain>>
  BY Zenon DEF Swap
<1>2. Built(table', source')
  BY Zenon DEF Swap, Inv
<1>3. /\ DOMAIN reload' = Reloaders
      /\ \A q \in Reloaders : reload'[q] = "swap" => reload[q] = "swap"
  BY Zenon DEF Swap, Inv
<1> QED
  BY <1>1, <1>2, <1>3, Zenon DEF Inv, Built, Unserved, Clients

\* What a reload reports after the swap changes no table.
LEMMA ReportInv ==
  ASSUME Inv, NEW r \in Reloaders, ReportNames(r) \/ ReportModels(r) PROVE Inv'
<1>1. UNCHANGED <<file, written, table, source, fresh, client, chain>>
  BY Zenon DEF ReportNames, ReportModels
<1>2. /\ DOMAIN reload' = Reloaders
      /\ \A q \in Reloaders : reload'[q] = "swap" => reload[q] = "swap"
  BY Zenon DEF ReportNames, ReportModels, Inv
<1> QED
  BY <1>1, <1>2, Zenon DEF Inv, Built, Unserved, Clients

\* A client is refused only by a table that a file on disk built.
LEMMA ResolveInv == ASSUME Inv, NEW c \in Clients, Resolve(c) PROVE Inv'
<1>1. UNCHANGED <<file, written, table, source, reload, fresh, chain>>
  BY Zenon DEF Resolve
<1>2. DOMAIN client' = Clients
  BY Zenon DEF Resolve, Inv
<1>3. \A d \in Clients : client'[d] \in {"refused", "failed"} => Unserved(Wanted[d])
  <2> SUFFICES ASSUME NEW d \in Clients, client'[d] \in {"refused", "failed"}
               PROVE  Unserved(Wanted[d])
    BY Zenon
  <2>1. CASE d = c
    <3>1. ~Resolves(table, Wanted[c])
      BY <2>1, Zenon DEF Resolve, Inv
    <3> QED
      BY <2>1, <3>1, TableIsAFile, Zenon DEF Inv
  <2>2. CASE d # c
    BY <2>2, Zenon DEF Resolve, Inv
  <2> QED
    BY <2>1, <2>2, Zenon
<1> QED
  BY <1>1, <1>2, <1>3, Zenon DEF Inv, Built, Unserved, Clients

\* The same when the router asks the table again.
LEMMA RouteInv == ASSUME Inv, NEW c \in Clients, Route(c) PROVE Inv'
<1>1. UNCHANGED <<file, written, table, source, reload, fresh>>
  BY Zenon DEF Route
<1>2. DOMAIN client' = Clients /\ DOMAIN chain' = Clients
  BY Zenon DEF Route, Inv
<1>3. \A d \in Clients : client'[d] \in {"refused", "failed"} => Unserved(Wanted[d])
  <2> SUFFICES ASSUME NEW d \in Clients, client'[d] \in {"refused", "failed"}
               PROVE  Unserved(Wanted[d])
    BY Zenon
  <2>1. CASE d = c
    <3>1. chain'[c] = ResolveChain(table, Wanted[c]) /\ chain'[c] = <<>>
      BY <2>1, Zenon DEF Route, Inv
    <3> QED
      BY <2>1, <3>1, TableIsAFile, Zenon DEF Inv, Resolves
  <2>2. CASE d # c
    BY <2>2, Zenon DEF Route, Inv
  <2> QED
    BY <2>1, <2>2, Zenon
<1> QED
  BY <1>1, <1>2, <1>3, Zenon DEF Inv, Built, Unserved, Clients

\* A step that changes nothing the invariant speaks of.
LEMMA OtherInv ==
  ASSUME Inv, UNCHANGED <<file, written, table, source, reload, fresh, client, chain>>
  PROVE  Inv'
  BY Zenon DEF Inv, Built, Unserved, Clients

\* Every step of the registry keeps the invariant.
LEMMA NextInv == Inv /\ [RegistryNext]_registryVars => Inv'
<1> SUFFICES ASSUME Inv, [RegistryNext]_registryVars PROVE Inv'
  BY Zenon
<1>1. ASSUME NEW f \in Files, EditFile(f) PROVE Inv'
  BY <1>1, EditFileInv, Zenon
<1>2. ASSUME NEW r \in Reloaders, LoadFile(r) PROVE Inv'
  BY <1>2, LoadFileInv, Zenon
<1>3. ASSUME NEW r \in Reloaders, Swap(r) PROVE Inv'
  BY <1>3, SwapInv, Zenon
<1>4. ASSUME NEW r \in Reloaders, ReportNames(r) \/ ReportModels(r) PROVE Inv'
  BY <1>4, ReportInv, Zenon
<1>5. ASSUME NEW c \in Clients, Resolve(c) PROVE Inv'
  BY <1>5, ResolveInv, Zenon
<1>6. ASSUME NEW c \in Clients, Route(c) PROVE Inv'
  BY <1>6, RouteInv, Zenon
<1>7. ASSUME NEW v \in Viewers, ViewModels(v) \/ ViewNames(v) PROVE Inv'
  BY <1>7, OtherInv, Zenon DEF ViewModels, ViewNames
<1>8. CASE RegistryDone \/ UNCHANGED registryVars
  BY <1>8, OtherInv, Zenon DEF RegistryDone, registryVars
<1> QED
  BY <1>1, <1>2, <1>3, <1>4, <1>5, <1>6, <1>7, <1>8, Zenon DEF RegistryNext

\* Hot reload never makes a served model unserved: under every interleaving of
\* edits, reloads and requests, a request refused by ResolveModel or failed by
\* ResolveChain has a file that loads to blame, or the lack of one.
THEOREM ReloadKeepsServingHolds == RegistrySpec => []ReloadKeepsServing
<1>1. Inv => ReloadKeepsServing
  BY Zenon DEF Inv, ReloadKeepsServing, Unserved
<1> QED
  BY <1>1, InitInv, NextInv, PTL DEF RegistrySpec

\* Every table a reload can install resolves as its file says.
TablesFollowFiles ==
  \A f \in Files : Loads(f) => \A m \in Models : ResolveChain(Load(f), m) = Chain(f, m)

\* Hot reload serves one file at a time (adminProvidersReloadHandler, Swap): under
\* every interleaving of edits, reloads and requests, the installed table resolves
\* every model as one of the files says, never as a mixture or a rejected file
\* would, provided that loading such a file alone gives what it says.
THEOREM ChainsFollowFileHolds ==
  ASSUME TablesFollowFiles PROVE RegistrySpec => []ChainsFollowFile
<1>1. Inv => ChainsFollowFile
  <2> SUFFICES ASSUME Inv, source # NoFile, NEW m \in Models
               PROVE  ResolveChain(table, m) = Chain(source, m)
    BY Zenon DEF ChainsFollowFile
  <2>1. source \in Files /\ Loads(source) /\ table = Load(source)
    BY Zenon DEF Inv, Built
  <2> QED
    BY <2>1, Zenon DEF TablesFollowFiles
<1> QED
  BY <1>1, InitInv, NextInv, PTL DEF RegistrySpec

-----------------------------------------------------------------------------
\* AnswersFresh.

SumOf(f) ==
  f[401] + f[403] + f[404] + f[413] + f[429] + f[502] + f[503] + f[504]
  + f[0] + f[2] + f[3] + f[4] + f[5]

\* What the polled collector would report of the counters as they are.
Reported == IF collector = "summary" THEN Total ELSE counters.hits + counters.writes

\* Size, for a given collector.
SizeFor(c, projection) ==
  IF c = "summary" THEN projection.total ELSE projection.hits + projection.writes

\* A projection of collector c is not behind ghost at any tick before t.
UpTo(c, ghost, projection, t) ==
  /\ SizeFor(c, projection) \in Nat
  /\ \A u \in 0 .. MaxTime : u < t => ghost[u] <= SizeFor(c, projection)

CountersTyped ==
  /\ counters = [requests |-> counters.requests, hits |-> counters.hits,
                 writes |-> counters.writes]
  /\ counters.requests \in [Labels -> Nat]
  /\ counters.hits \in Nat /\ counters.writes \in Nat

\* The counters are never behind the ghost; a projection about to be stored is not
\* behind it at any tick before its call began, nor the cached one before cachedAt.
Fresh ==
  /\ clock \in 0 .. MaxTime
  /\ CountersTyped
  /\ counted \in [0 .. MaxTime -> Nat]
  /\ \A t \in 0 .. MaxTime : counted[t] <= Reported
  /\ collector \in {"summary", "cache"}
  /\ DOMAIN poll = Pollers /\ DOMAIN gathered = Pollers
  /\ now \in [Pollers -> 0 .. clock]
  /\ \A p \in Pollers : poll[p] = "store" => UpTo(collector, counted, gathered[p], now[p])
  /\ cached.at # -1 =>
       cached.at \in 0 .. clock /\ UpTo(collector, counted, cached.projection, cached.at)

\* statusLabel yields one of the labels the counters have.
LEMMA LabelTyped == ASSUME NEW s PROVE StatusLabel(s) \in Labels
<1> DEFINE named == s \in {401, 403, 404, 413, 429, 502, 503, 504}
<1>1. ASSUME named PROVE StatusLabel(s) \in Labels
  BY <1>1 DEF StatusLabel, Labels
<1>2. ASSUME ~named, s \in 200 .. 599 PROVE StatusLabel(s) \in Labels
  <2>1. s \div 100 \in {2, 3, 4, 5}
    BY <1>2
  <2> QED
    BY <1>2, <2>1 DEF StatusLabel, Labels
<1>3. ASSUME ~named, s \notin 200 .. 599 PROVE StatusLabel(s) \in Labels
  BY <1>3 DEF StatusLabel, Labels
<1> HIDE DEF named
<1> QED
  BY <1>1, <1>2, <1>3, Zenon

\* A sum of counters is a number.
LEMMA SumTyped == ASSUME NEW f \in [Labels -> Nat] PROVE SumOf(f) \in Nat
  BY DEF SumOf, Labels

\* One label counted once more is one more in the sum.
LEMMA SumOneMore ==
  ASSUME NEW f \in [Labels -> Nat], NEW g \in [Labels -> Nat], NEW l \in Labels,
         g = [f EXCEPT ![l] = @ + 1]
  PROVE  SumOf(g) = SumOf(f) + 1
  BY DEF SumOf, Labels

\* The requests that /admin/stats reports are the sum over the labels.
LEMMA TotalIsSum == Total = SumOf(counters.requests)
  BY Zenon DEF Total, Of, SumOf

\* It changes only when a counter does.
LEMMA TotalWas ==
  ASSUME counters'.requests = counters.requests PROVE Total' = Total
<1>1. Total' = SumOf(counters'.requests)
  BY Zenon DEF Total, Of, SumOf
<1> QED
  BY <1>1, TotalIsSum, Zenon

\* A step that leaves the counters leaves what is reported.
LEMMA SameCounters ==
  ASSUME CountersTyped, counters' = counters, collector' = collector
  PROVE  CountersTyped' /\ Reported' = Reported
<1>1. Total' = Total
  BY TotalWas, Zenon
<1> QED
  BY <1>1, Zenon DEF CountersTyped, Reported

\* What the polled collector reports is a number.
LEMMA ReportedTyped == ASSUME CountersTyped PROVE Reported \in Nat
<1>1. Total \in Nat
  BY TotalIsSum, SumTyped, Zenon DEF CountersTyped
<1>2. counters.hits + counters.writes \in Nat
  BY DEF CountersTyped
<1> QED
  BY <1>1, <1>2, Zenon DEF Reported

\* A projection reports what the counters hold.
LEMMA ProjectSize == SizeFor(collector, Project) = Reported
<1> DEFINE whole == [total |-> Total, errors4xx |-> Errors4xx, errors5xx |-> Errors5xx]
           halves == [hits |-> counters.hits, writes |-> counters.writes]
<1>1. whole.total = Total
  BY Zenon
<1>2. halves.hits = counters.hits /\ halves.writes = counters.writes
  BY Zenon
<1> QED
  BY <1>1, <1>2, Zenon DEF SizeFor, Project, Reported

\* Counting a request raises exactly its label, and the total, by one.
LEMMA OneMore ==
  ASSUME CountersTyped, NEW l \in Labels,
         counters' = [counters EXCEPT !.requests[l] = @ + 1]
  PROVE  /\ CountersTyped' /\ Total' = Total + 1
         /\ counters'.hits = counters.hits /\ counters'.writes = counters.writes
<1>1. /\ counters'.requests = [counters.requests EXCEPT ![l] = @ + 1]
      /\ counters'.hits = counters.hits /\ counters'.writes = counters.writes
      /\ counters' = [requests |-> counters'.requests, hits |-> counters'.hits,
                      writes |-> counters'.writes]
  BY Zenon DEF CountersTyped
<1>2. counters.requests \in [Labels -> Nat]
  BY Zenon DEF CountersTyped
<1>3. counters'.requests \in [Labels -> Nat]
  BY <1>1, <1>2
<1>4. SumOf(counters'.requests) = SumOf(counters.requests) + 1
  BY <1>1, <1>2, <1>3, SumOneMore, Zenon
<1>5. Total' = SumOf(counters'.requests)
  BY Zenon DEF Total, Of, SumOf
<1> QED
  BY <1>1, <1>2, <1>3, <1>4, <1>5, TotalIsSum, Zenon DEF CountersTyped

\* Counting n more, for the polled collector or the other one, keeps the ghost
\* behind the counters and leaves its past alone.
LEMMA CountedStep ==
  ASSUME Fresh, NEW c, NEW n \in Nat, counted' = Counted(c, n), Reported' \in Nat,
         IF c = collector THEN Reported' = Reported + n ELSE Reported' = Reported
  PROVE  /\ counted' \in [0 .. MaxTime -> Nat]
         /\ \A t \in 0 .. MaxTime : counted'[t] <= Reported'
         /\ \A t \in 0 .. MaxTime : t < clock => counted'[t] = counted[t]
<1>1. clock \in 0 .. MaxTime /\ counted \in [0 .. MaxTime -> Nat]
  BY Zenon DEF Fresh
<1>2. Reported \in Nat /\ \A t \in 0 .. MaxTime : counted[t] <= Reported
  BY ReportedTyped, Zenon DEF Fresh
<1>3. \A t \in 0 .. MaxTime :
        counted'[t] = IF c = collector /\ t >= clock THEN counted[t] + n ELSE counted[t]
  BY Zenon DEF Counted
<1>4. counted' = [t \in 0 .. MaxTime |-> counted'[t]]
  BY Zenon DEF Counted
<1>5. \A t \in 0 .. MaxTime : counted[t] \in Nat
  BY <1>1, Zenon
<1>6. \A t \in 0 .. MaxTime : counted'[t] \in Nat /\ counted'[t] <= Reported'
  BY <1>2, <1>3, <1>5
<1>7. \A t \in 0 .. MaxTime : t < clock => counted'[t] = counted[t]
  BY <1>1, <1>3
<1> QED
  BY <1>4, <1>6, <1>7, Zenon

\* What was not behind the ghost stays so while its past is left alone.
LEMMA UpToStill ==
  ASSUME NEW c, NEW ghost, NEW later, NEW projection, NEW end \in Nat, NEW t \in 0 .. end,
         UpTo(c, ghost, projection, t),
         \A u \in 0 .. MaxTime : u < end => later[u] = ghost[u]
  PROVE  UpTo(c, later, projection, t)
<1>1. \A u \in 0 .. MaxTime : u < t => u < end
  BY StatsConstants
<1> QED
  BY <1>1, Zenon DEF UpTo

\* A step that counts keeps Fresh.
LEMMA CountingFresh ==
  ASSUME Fresh, NEW c, NEW n \in Nat, CountersTyped', counted' = Counted(c, n),
         IF c = collector THEN Reported' = Reported + n ELSE Reported' = Reported,
         clock' = clock, collector' = collector, poll' = poll, now' = now,
         gathered' = gathered, cached' = cached
  PROVE  Fresh'
<1>1. Reported \in Nat
  BY ReportedTyped, Zenon DEF Fresh
<1>2. Reported' \in Nat
  BY <1>1
<1>3. /\ counted' \in [0 .. MaxTime -> Nat]
      /\ \A t \in 0 .. MaxTime : counted'[t] <= Reported'
      /\ \A t \in 0 .. MaxTime : t < clock => counted'[t] = counted[t]
  BY <1>2, CountedStep, Zenon
<1>4. clock \in Nat
  BY StatsConstants DEF Fresh
<1>5. ASSUME NEW p \in Pollers, poll[p] = "store"
      PROVE  UpTo(collector, counted', gathered[p], now[p])
  <2>1. now[p] \in 0 .. clock /\ UpTo(collector, counted, gathered[p], now[p])
    BY <1>5, Zenon DEF Fresh
  <2> QED
    BY <1>3, <1>4, <2>1, UpToStill, Zenon
<1>6. ASSUME cached.at # -1
      PROVE  UpTo(collector, counted', cached.projection, cached.at)
  <2>1. cached.at \in 0 .. clock /\ UpTo(collector, counted, cached.projection, cached.at)
    BY <1>6, Zenon DEF Fresh
  <2> QED
    BY <1>3, <1>4, <2>1, UpToStill, Zenon
<1> QED
  BY <1>3, <1>5, <1>6, Zenon DEF Fresh

\* A cache hit or write raises the counter and its record together.
LEMMA CountCacheFresh == ASSUME Fresh, NEW r \in Requests, CountCache(r) PROVE Fresh'
<1> DEFINE hit == IF outcome[r].kind = "hit" THEN 1 ELSE 0
           write == IF outcome[r].kind = "written" THEN 1 ELSE 0
<1>1. hit \in Nat /\ write \in Nat /\ hit + write \in Nat
  OBVIOUS
<1>2. /\ counters' = [counters EXCEPT !.hits = @ + hit, !.writes = @ + write]
      /\ counted' = Counted("cache", hit + write)
      /\ clock' = clock /\ collector' = collector /\ poll' = poll /\ now' = now
      /\ gathered' = gathered /\ cached' = cached
  BY Zenon DEF CountCache
<1> HIDE DEF hit, write
<1>3. CountersTyped
  BY Zenon DEF Fresh
<1>4. /\ counters'.requests = counters.requests
      /\ counters'.hits = counters.hits + hit /\ counters'.writes = counters.writes + write
      /\ counters' = [requests |-> counters'.requests, hits |-> counters'.hits,
                      writes |-> counters'.writes]
  BY <1>2, <1>3, Zenon DEF CountersTyped
<1>5. CountersTyped'
  BY <1>1, <1>3, <1>4 DEF CountersTyped
<1>6. Total' = Total
  BY <1>4, TotalWas, Zenon
<1>7. counters'.hits + counters'.writes = counters.hits + counters.writes + (hit + write)
  BY <1>1, <1>3, <1>4 DEF CountersTyped
<1>8. IF "cache" = collector THEN Reported' = Reported + (hit + write)
      ELSE Reported' = Reported
  <2>1. collector \in {"summary", "cache"}
    BY Zenon DEF Fresh
  <2> QED
    BY <1>2, <1>6, <1>7, <2>1, Zenon DEF Reported
<1> QED
  BY <1>1, <1>2, <1>5, <1>8, CountingFresh, Zenon

\* So does a request that is answered.
LEMMA CountFresh == ASSUME Fresh, NEW r \in Requests, Count(r) PROVE Fresh'
<1> DEFINE l == StatusLabel(Status(outcome[r]))
<1>1. l \in Labels
  BY LabelTyped, Zenon
<1>2. /\ counters' = [counters EXCEPT !.requests[l] = @ + 1]
      /\ counted' = Counted("summary", 1)
      /\ clock' = clock /\ collector' = collector /\ poll' = poll /\ now' = now
      /\ gathered' = gathered /\ cached' = cached
  BY Zenon DEF Count
<1> HIDE DEF l
<1>3. CountersTyped
  BY Zenon DEF Fresh
<1>4. /\ CountersTyped' /\ Total' = Total + 1
      /\ counters'.hits = counters.hits /\ counters'.writes = counters.writes
  BY <1>1, <1>2, <1>3, OneMore, Zenon
<1>5. IF "summary" = collector THEN Reported' = Reported + 1 ELSE Reported' = Reported
  <2>1. CASE collector = "summary"
    BY <1>2, <1>4, <2>1, Zenon DEF Reported
  <2>2. CASE collector # "summary"
    <3>1. Reported = counters.hits + counters.writes
      BY <2>2, Zenon DEF Reported
    <3>2. Reported' = counters'.hits + counters'.writes
      BY <1>2, <2>2, Zenon DEF Reported
    <3> QED
      BY <1>4, <2>2, <3>1, <3>2, Zenon
  <2> QED
    BY <2>1, <2>2, Zenon
<1>6. 1 \in Nat
  BY Zenon
<1> QED
  BY <1>2, <1>4, <1>5, <1>6, CountingFresh, Zenon

\* A step of a call that stores nothing and brings no projection.
LEMMA CallFresh ==
  ASSUME Fresh, NEW p \in Pollers, NEW at, at # "store",
         poll' = [poll EXCEPT ![p] = at],
         now' \in [Pollers -> 0 .. clock], DOMAIN gathered' = Pollers,
         \A q \in Pollers \ {p} : now'[q] = now[q] /\ gathered'[q] = gathered[q],
         clock' = clock, counters' = counters, counted' = counted, collector' = collector,
         cached' = cached
  PROVE  Fresh'
<1>1. Reported' = Reported /\ CountersTyped'
  BY SameCounters, Zenon DEF Fresh
<1>2. \A q \in Pollers : poll'[q] = "store" => q # p /\ poll[q] = "store"
  BY Zenon DEF Fresh
<1>3. DOMAIN poll' = Pollers
  BY Zenon DEF Fresh
<1>4. \A q \in Pollers :
        poll'[q] = "store" => UpTo(collector', counted', gathered'[q], now'[q])
  BY <1>2, Zenon DEF Fresh
<1> QED
  BY <1>1, <1>3, <1>4, Zenon DEF Fresh

\* A poll that begins notes the time.
LEMMA BeginFresh == ASSUME Fresh, NEW p \in Pollers, Begin(p) PROVE Fresh'
<1>1. clock \in 0 .. clock
  BY StatsConstants DEF Fresh
<1>2. /\ now' = [now EXCEPT ![p] = clock] /\ now \in [Pollers -> 0 .. clock]
      /\ gathered' = gathered /\ DOMAIN gathered = Pollers
  BY Zenon DEF Begin, Fresh
<1>3. /\ now' \in [Pollers -> 0 .. clock]
      /\ \A q \in Pollers \ {p} : now'[q] = now[q]
  BY <1>1, <1>2, Zenon
<1>4. "check" # "store"
  BY Zenon
<1> QED
  BY <1>2, <1>3, <1>4, CallFresh, Zenon DEF Begin

\* What the end of a poll changes, whichever way its answer was found.
LEMMA ReturnFrame ==
  ASSUME Fresh, NEW p \in Pollers, Return(p)
  PROVE  /\ poll' = [poll EXCEPT ![p] = "idle"]
         /\ now' \in [Pollers -> 0 .. clock] /\ DOMAIN gathered' = Pollers
         /\ \A q \in Pollers \ {p} : now'[q] = now[q] /\ gathered'[q] = gathered[q]
         /\ clock' = clock /\ counters' = counters /\ counted' = counted
         /\ collector' = collector
<1>1. 0 \in 0 .. clock
  BY StatsConstants DEF Fresh
<1>2. /\ now' = [now EXCEPT ![p] = 0] /\ now \in [Pollers -> 0 .. clock]
      /\ gathered' = [gathered EXCEPT ![p] = NoProjection] /\ DOMAIN gathered = Pollers
  BY Zenon DEF Return, Fresh
<1>3. /\ now' \in [Pollers -> 0 .. clock]
      /\ \A q \in Pollers \ {p} : now'[q] = now[q]
  BY <1>1, <1>2, Zenon
<1> QED
  BY <1>2, <1>3, Zenon DEF Return

\* A poll that leaves the cached summary alone.
LEMMA ReturnFresh ==
  ASSUME Fresh, NEW p \in Pollers, Return(p), cached' = cached PROVE Fresh'
<1>1. "idle" # "store"
  BY Zenon
<1> QED
  BY <1>1, ReturnFrame, CallFresh, Zenon

\* A miss computes the summary from the counters and stores it.
LEMMA CacheMissFresh == ASSUME Fresh, NEW p \in Pollers, CacheMiss(p) PROVE Fresh'
<1>1. "gather" # "store"
  BY Zenon
<1> QED
  BY <1>1, CallFresh, Zenon DEF CacheMiss, Fresh

\* Gather reads the counters, which are not behind any tick.
LEMMA GatherFresh == ASSUME Fresh, NEW p \in Pollers, Gather(p) PROVE Fresh'
<1>1. /\ clock' = clock /\ counters' = counters /\ counted' = counted
      /\ collector' = collector /\ cached' = cached /\ now' = now
      /\ gathered' = [gathered EXCEPT ![p] = Project] /\ poll' = [poll EXCEPT ![p] = "store"]
  BY Zenon DEF Gather
<1>2. Reported' = Reported /\ CountersTyped'
  BY <1>1, SameCounters, Zenon DEF Fresh
<1>3. UpTo(collector, counted, Project, now[p])
  BY ReportedTyped, ProjectSize, Zenon DEF UpTo, Fresh
<1>4. DOMAIN poll' = Pollers /\ DOMAIN gathered' = Pollers
  BY <1>1, Zenon DEF Fresh
<1>5. ASSUME NEW q \in Pollers, poll'[q] = "store"
      PROVE  UpTo(collector, counted, gathered'[q], now[q])
  <2>1. CASE q = p
    BY <1>1, <1>3, <2>1, Zenon DEF Fresh
  <2>2. CASE q # p
    BY <1>1, <1>5, <2>2, Zenon DEF Fresh
  <2> QED
    BY <2>1, <2>2, Zenon
<1> QED
  BY <1>1, <1>2, <1>4, <1>5, Zenon DEF Fresh

\* Store keeps the time its call began, and with it what its projection covers.
LEMMA StoreFresh == ASSUME Fresh, NEW p \in Pollers, Store(p) PROVE Fresh'
<1>1. /\ poll' = [poll EXCEPT ![p] = "idle"]
      /\ now' \in [Pollers -> 0 .. clock] /\ DOMAIN gathered' = Pollers
      /\ \A q \in Pollers \ {p} : now'[q] = now[q] /\ gathered'[q] = gathered[q]
      /\ clock' = clock /\ counters' = counters /\ counted' = counted
      /\ collector' = collector
  BY ReturnFrame, Zenon DEF Store
<1>2. Reported' = Reported /\ CountersTyped'
  BY <1>1, SameCounters, Zenon DEF Fresh
<1>3. /\ cached'.at = now[p] /\ now[p] \in 0 .. clock
      /\ cached'.projection = gathered[p]
      /\ UpTo(collector, counted, gathered[p], now[p])
  BY Zenon DEF Store, Fresh
<1>4. "idle" # "store"
  BY Zenon
<1>5. \A q \in Pollers : poll'[q] = "store" => q # p /\ poll[q] = "store"
  BY <1>1, <1>4, Zenon DEF Fresh
<1>6. DOMAIN poll' = Pollers
  BY <1>1, Zenon DEF Fresh
<1>7. \A q \in Pollers :
        poll'[q] = "store" => UpTo(collector', counted', gathered'[q], now'[q])
  BY <1>1, <1>5, Zenon DEF Fresh
<1> QED
  BY <1>1, <1>2, <1>3, <1>6, <1>7, Zenon DEF Fresh

\* Time passes: a summary ages, and what it owes was counted before.
LEMMA TickFresh == ASSUME Fresh, Tick PROVE Fresh'
<1>1. /\ clock' = clock + 1 /\ counters' = counters /\ counted' = counted
      /\ collector' = collector /\ poll' = poll /\ now' = now
      /\ gathered' = gathered /\ cached' = cached
  BY Zenon DEF Tick
<1>2. clock' \in 0 .. MaxTime /\ 0 .. clock \subseteq 0 .. clock'
  <2>1. clock \in 0 .. MaxTime /\ clock < MaxTime /\ clock' = clock + 1 /\ MaxTime \in Nat
    BY StatsConstants, Zenon DEF Tick, Fresh
  <2> QED
    BY <2>1
<1>3. Reported' = Reported /\ CountersTyped'
  BY <1>1, SameCounters, Zenon DEF Fresh
<1>4. now' \in [Pollers -> 0 .. clock']
  BY <1>1, <1>2, Zenon DEF Fresh
<1>5. cached.at # -1 => cached.at \in 0 .. clock'
  BY <1>2, Zenon DEF Fresh
<1> QED
  BY <1>1, <1>2, <1>3, <1>4, <1>5, Zenon DEF Fresh

\* A step that changes nothing Fresh speaks of.
LEMMA StillFresh ==
  ASSUME Fresh, clock' = clock, counters' = counters, counted' = counted,
         collector' = collector, poll' = poll, now' = now, gathered' = gathered,
         cached' = cached
  PROVE  Fresh'
<1>1. Reported' = Reported /\ CountersTyped'
  BY SameCounters, Zenon DEF Fresh
<1> QED
  BY <1>1, Zenon DEF Fresh

\* No summary is cached when the gateway starts.
LEMMA InitFresh == StatsInit => Fresh
<1> SUFFICES ASSUME StatsInit PROVE Fresh
  BY Zenon
<1>1. clock = 0 /\ clock \in 0 .. MaxTime /\ 0 \in 0 .. clock /\ 0 \in Nat
  BY StatsConstants DEF StatsInit
<1>2. counters.requests = [l \in Labels |-> 0] /\ counters.hits = 0 /\ counters.writes = 0
  BY Zenon DEF StatsInit
<1>3. CountersTyped
  BY <1>1, <1>2, Zenon DEF StatsInit, CountersTyped
<1>4. counted \in [0 .. MaxTime -> Nat] /\ \A t \in 0 .. MaxTime : counted[t] = 0
  BY <1>1, Zenon DEF StatsInit
<1>5. \A t \in 0 .. MaxTime : counted[t] <= Reported
  <2>1. Reported \in Nat
    BY <1>3, ReportedTyped, Zenon
  <2> QED
    BY <1>4, <2>1
<1>6. now \in [Pollers -> 0 .. clock]
  BY <1>1, Zenon DEF StatsInit
<1>7. \A p \in Pollers : poll[p] # "store"
  BY Zenon DEF StatsInit
<1>8. cached.at = -1
  BY Zenon DEF StatsInit, NoSummary
<1>9. collector \in {"summary", "cache"} /\ DOMAIN poll = Pollers /\ DOMAIN gathered = Pollers
  BY Zenon DEF StatsInit
<1> QED
  BY <1>1, <1>3, <1>4, <1>5, <1>6, <1>7, <1>8, <1>9, Zenon DEF Fresh

\* Every step of the statistics keeps Fresh.
LEMMA NextFresh == Fresh /\ [StatsNext]_statsVars => Fresh'
<1> SUFFICES ASSUME Fresh, [StatsNext]_statsVars PROVE Fresh'
  BY Zenon
<1>1. ASSUME NEW r \in Requests, CountCache(r) PROVE Fresh'
  BY <1>1, CountCacheFresh, Zenon
<1>2. ASSUME NEW r \in Requests, Count(r) PROVE Fresh'
  BY <1>2, CountFresh, Zenon
<1>3. ASSUME NEW r \in Requests, Record(r) PROVE Fresh'
  BY <1>3, StillFresh, Zenon DEF Record
<1>4. ASSUME NEW p \in Pollers, Begin(p) PROVE Fresh'
  BY <1>4, BeginFresh, Zenon
<1>5. ASSUME NEW p \in Pollers, CacheHit(p) \/ GatherFails(p) PROVE Fresh'
  BY <1>5, ReturnFresh, Zenon DEF CacheHit, GatherFails
<1>6. ASSUME NEW p \in Pollers, CacheMiss(p) PROVE Fresh'
  BY <1>6, CacheMissFresh, Zenon
<1>7. ASSUME NEW p \in Pollers, Gather(p) PROVE Fresh'
  BY <1>7, GatherFresh, Zenon
<1>8. ASSUME NEW p \in Pollers, Store(p) PROVE Fresh'
  BY <1>8, StoreFresh, Zenon
<1>9. CASE Tick
  BY <1>9, TickFresh, Zenon
<1>10. CASE UNCHANGED statsVars
  BY <1>10, StillFresh, Zenon DEF statsVars
<1> QED
  BY <1>1, <1>2, <1>3, <1>4, <1>5, <1>6, <1>7, <1>8, <1>9, <1>10, Zenon DEF StatsNext

\* A time a TTL before n lies before every time less than a TTL before n.
LEMMA TTLAgo ==
  ASSUME NEW m \in Nat, NEW c \in 0 .. m, NEW n \in 0 .. c, NEW t \in 0 .. c, NEW ttl \in Nat,
         n - t < ttl, ~(n < ttl)
  PROVE  n - ttl \in 0 .. m /\ n - ttl < t
  OBVIOUS

\* An admin answer is at most cacheTTL old (Summary, Stats): whichever collector
\* is polled, however calls, slow Gathers and stores over newer projections
\* interleave, and for every cacheTTL.
THEOREM AnswersFreshHolds == StatsSpec => []AnswersFresh
<1>1. ASSUME Fresh PROVE AnswersFresh
  <2> SUFFICES
        ASSUME NEW p \in Pollers
        PROVE  LET due == IF now[p] < CacheTTL THEN 0 ELSE counted[now[p] - CacheTTL] IN
               /\ poll[p] = "check" /\ Recent(p) => Size(cached.projection) >= due
               /\ poll[p] = "store" => Size(gathered[p]) >= due
    BY Zenon DEF AnswersFresh
  <2> DEFINE due == IF now[p] < CacheTTL THEN 0 ELSE counted[now[p] - CacheTTL]
  <2>1. now[p] \in 0 .. clock /\ clock \in 0 .. MaxTime /\ counted \in [0 .. MaxTime -> Nat]
    BY <1>1, Zenon DEF Fresh
  <2>2. ASSUME NEW x, NEW t \in 0 .. clock, UpTo(collector, counted, x, t),
               now[p] - t < CacheTTL
        PROVE  Size(x) >= due
    <3>1. Size(x) = SizeFor(collector, x)
      BY Zenon DEF Size, SizeFor
    <3>2. SizeFor(collector, x) \in Nat
      BY <2>2, Zenon DEF UpTo
    <3>3. CASE now[p] < CacheTTL
      BY <3>1, <3>2, <3>3
    <3>4. CASE ~(now[p] < CacheTTL)
      <4>1. now[p] - CacheTTL \in 0 .. MaxTime /\ now[p] - CacheTTL < t
        <5>1. CacheTTL \in Nat /\ MaxTime \in Nat
          BY StatsConstants, Zenon
        <5> QED
          BY <2>1, <2>2, <3>4, <5>1, TTLAgo, Zenon
      <4>2. counted[now[p] - CacheTTL] <= SizeFor(collector, x)
        BY <2>2, <4>1, Zenon DEF UpTo
      <4>3. counted[now[p] - CacheTTL] \in Nat
        BY <2>1, <4>1, Zenon
      <4> QED
        BY <3>1, <3>2, <3>4, <4>2, <4>3, Zenon
    <3> QED
      BY <3>3, <3>4, Zenon
  <2> HIDE DEF due
  <2>3. ASSUME poll[p] = "check", Recent(p) PROVE Size(cached.projection) >= due
    <3>1. cached.at # -1 /\ now[p] - cached.at < CacheTTL
      BY <2>3, Zenon DEF Recent, NoSummary
    <3>2. cached.at \in 0 .. clock /\ UpTo(collector, counted, cached.projection, cached.at)
      BY <1>1, <3>1, Zenon DEF Fresh
    <3> QED
      BY <2>2, <3>1, <3>2, Zenon
  <2>4. ASSUME poll[p] = "store" PROVE Size(gathered[p]) >= due
    <3>1. UpTo(collector, counted, gathered[p], now[p])
      BY <1>1, <2>4, Zenon DEF Fresh
    <3>2. now[p] - now[p] < CacheTTL
      BY <2>1, StatsConstants
    <3> QED
      BY <2>1, <2>2, <3>1, <3>2, Zenon
  <2> QED
    BY <2>3, <2>4, Zenon DEF due
<1> QED
  BY <1>1, InitFresh, NextFresh, PTL DEF StatsSpec

-----------------------------------------------------------------------------
\* SeriesExact.

\* Division with remainder, for the ring of buckets.
LEMMA DivMod ==
  ASSUME NEW a \in Int, NEW n \in Nat \ {0}
  PROVE  a = n * (a \div n) + (a % n) /\ a \div n \in Int /\ a % n \in 0 .. n - 1
  OBVIOUS

\* Two minutes of one round of the ring have slots of their own (slotIndex).
LEMMA SlotsApart ==
  ASSUME NEW a \in Nat, NEW b \in Nat, NEW n \in Nat \ {0}, a < b, b < a + n
  PROVE  a % n # b % n
<1> SUFFICES ASSUME a % n = b % n PROVE FALSE
  BY Zenon
<1> DEFINE d == (b \div n) - (a \div n)
<1>1. d \in Int /\ b - a = n * d
  BY DivMod
<1> HIDE DEF d
<1>2. d >= 1 => n * d >= n
  BY <1>1
<1>3. d <= 0 => n * d <= 0
  BY <1>1
<1> QED
  BY <1>1, <1>2, <1>3

\* The minute of a later time is no earlier.
LEMMA MinuteMonotone ==
  ASSUME NEW a \in Nat, NEW b \in Nat, a <= b
  PROVE  Minute(a) \in Nat /\ Minute(b) \in Nat /\ Minute(a) <= Minute(b)
  BY StatsConstants DEF Minute

Slots == 0 .. SlotCount - 1
Minutes == 0 .. Minute(MaxTime)
Points == [success : Nat, error : Nat]
Current == Minute(clock)

\* Slot i of the ring is unused, or holds what its minute recorded: one no later
\* than cur.
SlotHolds(slot, i, record, cur) ==
  /\ slot = [start |-> slot.start, success |-> slot.success, error |-> slot.error]
  /\ \/ slot.start = -1 /\ slot.success = 0 /\ slot.error = 0
     \/ /\ slot.start \in 0 .. cur /\ slot.start % SlotCount = i
        /\ record[slot.start] = [success |-> slot.success, error |-> slot.error]

\* A minute with traffic has passed or runs, and while the ring covers it its slot
\* is still its own.
HasSlot(m) ==
  recorded[m] # NoTraffic =>
    m <= Current /\ (Current - SlotCount < m => slots[m % SlotCount].start = m)

Series ==
  /\ clock \in 0 .. MaxTime
  /\ DOMAIN slots = Slots
  /\ recorded \in [Minutes -> Points]
  /\ \A i \in Slots : SlotHolds(slots[i], i, recorded, Current)
  /\ \A m \in Minutes : HasSlot(m)

\* The current minute and its slot of the ring are in range.
LEMMA CurrentMinute ==
  ASSUME Series
  PROVE  /\ Current \in Nat /\ Minute(MaxTime) \in Nat /\ Current \in Minutes
         /\ Current % SlotCount \in Slots
<1>1. clock \in Nat /\ MaxTime \in Nat /\ clock <= MaxTime
  BY StatsConstants DEF Series
<1>2. Current \in Nat /\ Minute(MaxTime) \in Nat /\ Current \in Minutes
  BY <1>1, MinuteMonotone DEF Current, Minutes
<1>3. SlotCount \in Nat \ {0}
  BY StatsConstants, Zenon
<1> QED
  BY <1>2, <1>3, DivMod DEF Slots

\* The ring starts empty.
LEMMA InitSeries == StatsInit => Series
<1> SUFFICES ASSUME StatsInit PROVE Series
  BY Zenon
<1>1. clock \in 0 .. MaxTime
  BY StatsConstants DEF StatsInit
<1>2. NoTraffic \in Points
  BY Zenon DEF NoTraffic, Points
<1>3. recorded \in [Minutes -> Points] /\ \A m \in Minutes : recorded[m] = NoTraffic
  BY <1>2, Zenon DEF StatsInit, Minutes
<1>4. DOMAIN slots = Slots
  BY Zenon DEF StatsInit, Slots
<1>5. \A i \in Slots : SlotHolds(slots[i], i, recorded, Current)
  BY Zenon DEF StatsInit, Slots, SlotHolds
<1> QED
  BY <1>1, <1>3, <1>4, <1>5, Zenon DEF Series, HasSlot

\* Record writes the running minute, in a slot that is its own already or no
\* longer needed, and touches no other.
LEMMA RecordSeries == ASSUME Series, NEW r \in Requests, Record(r) PROVE Series'
<1> DEFINE i0 == Current % SlotCount
           code == Status(outcome[r])
<1>1. Current \in Minutes /\ i0 \in Slots /\ Current \in Nat /\ Minute(MaxTime) \in Nat
  BY CurrentMinute, Zenon
<1>2. /\ slots' = [slots EXCEPT ![i0] = Bump(Restarted(slots[i0]), code)]
      /\ recorded' = [recorded EXCEPT ![Current] = Bump(recorded[Current], code)]
      /\ clock' = clock /\ Current' = Current
  BY Zenon DEF Record, Current, Minute
<1> HIDE DEF code
<1>3. SlotHolds(slots[i0], i0, recorded, Current) /\ HasSlot(Current) /\ recorded[Current] \in Points
  BY <1>1, Zenon DEF Series
<1>4. /\ Restarted(slots[i0]).start = Current
      /\ recorded[Current] = [success |-> Restarted(slots[i0]).success,
                              error |-> Restarted(slots[i0]).error]
      /\ Restarted(slots[i0]) = [start |-> Restarted(slots[i0]).start,
                                 success |-> Restarted(slots[i0]).success,
                                 error |-> Restarted(slots[i0]).error]
  <2>1. CASE slots[i0].start = Current
    <3>1. slots[i0].start # -1
      BY <1>1, <2>1
    <3>2. Restarted(slots[i0]) = slots[i0]
      BY <2>1, Zenon DEF Restarted, Current
    <3> QED
      BY <1>3, <2>1, <3>1, <3>2, Zenon DEF SlotHolds
  <2>2. CASE slots[i0].start # Current
    <3>1. Current - SlotCount < Current
      BY <1>1, StatsConstants
    <3>2. recorded[Current] = NoTraffic
      BY <1>3, <2>2, <3>1, Zenon DEF HasSlot
    <3>3. Restarted(slots[i0]) = [start |-> Current, success |-> 0, error |-> 0]
      BY <2>2, Zenon DEF Restarted, Current
    <3> QED
      BY <3>2, <3>3 DEF NoTraffic
  <2> QED
    BY <2>1, <2>2, Zenon
<1> DEFINE old == Restarted(slots[i0])
<1> HIDE DEF old
<1>5. /\ Bump(old, code).start = Current
      /\ Bump(recorded[Current], code) = [success |-> Bump(old, code).success,
                                          error |-> Bump(old, code).error]
      /\ Bump(old, code) = [start |-> Bump(old, code).start,
                            success |-> Bump(old, code).success,
                            error |-> Bump(old, code).error]
      /\ Bump(recorded[Current], code) \in Points
  <2>1. /\ old = [start |-> old.start, success |-> old.success, error |-> old.error]
        /\ old.start = Current
        /\ recorded[Current] = [success |-> old.success, error |-> old.error]
        /\ recorded[Current] \in Points
    BY <1>3, <1>4, Zenon DEF old
  <2>2. old.success \in Nat /\ old.error \in Nat
    BY <2>1 DEF Points
  <2>3. CASE code >= 400
    <3>1. /\ Bump(old, code) = [start |-> Current, success |-> old.success,
                                error |-> old.error + 1]
          /\ Bump(recorded[Current], code) = [success |-> old.success,
                                              error |-> old.error + 1]
      BY <2>1, <2>3 DEF Bump
    <3> QED
      BY <2>2, <3>1 DEF Points
  <2>4. CASE ~(code >= 400)
    <3>1. /\ Bump(old, code) = [start |-> Current, success |-> old.success + 1,
                                error |-> old.error]
          /\ Bump(recorded[Current], code) = [success |-> old.success + 1,
                                              error |-> old.error]
      BY <2>1, <2>4 DEF Bump
    <3> QED
      BY <2>2, <3>1 DEF Points
  <2> QED
    BY <2>3, <2>4, Zenon
<1>6. /\ slots'[i0] = Bump(old, code) /\ DOMAIN slots' = Slots
      /\ \A i \in Slots : i # i0 => slots'[i] = slots[i]
  BY <1>1, <1>2, Zenon DEF Series, old
<1>7. /\ recorded' \in [Minutes -> Points]
      /\ recorded'[Current] = Bump(recorded[Current], code)
      /\ \A m \in Minutes : m # Current => recorded'[m] = recorded[m]
  BY <1>1, <1>2, <1>5, Zenon DEF Series
<1>8. ASSUME NEW i \in Slots PROVE SlotHolds(slots'[i], i, recorded', Current')
  <2>1. CASE i = i0
    <3>1. Current \in 0 .. Current
      BY <1>1
    <3> QED
      BY <1>2, <1>5, <1>6, <1>7, <2>1, <3>1, Zenon DEF SlotHolds
  <2>2. CASE i # i0
    <3>1. slots'[i] = slots[i] /\ SlotHolds(slots[i], i, recorded, Current)
      BY <1>6, <2>2, Zenon DEF Series
    <3>2. ASSUME slots[i].start \in 0 .. Current, slots[i].start % SlotCount = i
          PROVE  recorded'[slots[i].start] = recorded[slots[i].start]
      <4>1. slots[i].start # Current
        BY <2>2, <3>2, Zenon
      <4>2. slots[i].start \in Minutes
        BY <1>1, <3>2 DEF Minutes
      <4> QED
        BY <1>7, <4>1, <4>2, Zenon
    <3> QED
      BY <1>2, <3>1, <3>2, Zenon DEF SlotHolds
  <2> QED
    BY <2>1, <2>2, Zenon
<1>9. ASSUME NEW m \in Minutes PROVE HasSlot(m)'
  <2>1. CASE m = Current
    <3>1. m <= Current
      BY <1>1, <2>1
    <3> QED
      BY <1>2, <1>5, <1>6, <2>1, <3>1, Zenon DEF HasSlot
  <2>2. CASE m # Current
    <3>1. recorded'[m] = recorded[m] /\ HasSlot(m) /\ m \in Nat
      BY <1>7, <2>2 DEF Series, Minutes
    <3>2. ASSUME m <= Current, Current - SlotCount < m
          PROVE  m % SlotCount # i0 /\ m % SlotCount \in Slots
      <4>1. SlotCount \in Nat \ {0}
        BY StatsConstants, Zenon
      <4>2. m < Current /\ Current < m + SlotCount
        BY <1>1, <2>2, <3>1, <3>2, <4>1
      <4>3. m % SlotCount # Current % SlotCount
        BY <1>1, <3>1, <4>1, <4>2, SlotsApart, Zenon
      <4> QED
        BY <3>1, <4>1, <4>3, DivMod DEF Slots
    <3> QED
      BY <1>2, <1>6, <3>1, <3>2, Zenon DEF HasSlot
  <2> QED
    BY <2>1, <2>2, Zenon
<1> QED
  BY <1>2, <1>6, <1>7, <1>8, <1>9, Zenon DEF Series

\* A minute that begins leaves the ring alone: what drops out of it is not needed.
LEMMA TickSeries == ASSUME Series, Tick PROVE Series'
<1>1. slots' = slots /\ recorded' = recorded /\ clock' = clock + 1
  BY Zenon DEF Tick
<1>2. clock' \in 0 .. MaxTime /\ clock \in Nat /\ clock' \in Nat /\ clock <= clock'
  BY StatsConstants DEF Tick, Series
<1>3. Current \in Nat /\ Current' \in Nat /\ Current <= Current'
  BY <1>2, MinuteMonotone, Zenon DEF Current, Minute
<1>4. ASSUME NEW i \in Slots PROVE SlotHolds(slots[i], i, recorded, Current')
  <2>1. SlotHolds(slots[i], i, recorded, Current)
    BY Zenon DEF Series
  <2>2. slots[i].start \in 0 .. Current => slots[i].start \in 0 .. Current'
    BY <1>3
  <2> QED
    BY <2>1, <2>2, Zenon DEF SlotHolds
<1>5. ASSUME NEW m \in Minutes PROVE HasSlot(m)'
  <2>1. HasSlot(m)
    BY Zenon DEF Series
  <2>2. m <= Current => m <= Current'
    BY <1>3 DEF Minutes
  <2>3. Current' - SlotCount < m => Current - SlotCount < m
    BY <1>3, StatsConstants DEF Minutes
  <2> QED
    BY <1>1, <2>1, <2>2, <2>3, Zenon DEF HasSlot
<1> QED
  BY <1>1, <1>2, <1>4, <1>5, Zenon DEF Series

\* A step that changes nothing Series speaks of.
LEMMA StillSeries ==
  ASSUME Series, clock' = clock, slots' = slots, recorded' = recorded
  PROVE  Series'
<1>1. Current' = Current
  BY Zenon DEF Current, Minute
<1> QED
  BY <1>1, Zenon DEF Series, HasSlot

\* Every step of the statistics keeps Series.
LEMMA NextSeries == Series /\ [StatsNext]_statsVars => Series'
<1> SUFFICES ASSUME Series, [StatsNext]_statsVars PROVE Series'
  BY Zenon
<1>1. ASSUME NEW r \in Requests, Record(r) PROVE Series'
  BY <1>1, RecordSeries, Zenon
<1>2. ASSUME NEW r \in Requests, CountCache(r) \/ Count(r) PROVE Series'
  BY <1>2, StillSeries, Zenon DEF CountCache, Count
<1>3. ASSUME NEW p \in Pollers, Begin(p) \/ CacheMiss(p) \/ Gather(p) PROVE Series'
  BY <1>3, StillSeries, Zenon DEF Begin, CacheMiss, Gather
<1>4. ASSUME NEW p \in Pollers, CacheHit(p) \/ GatherFails(p) \/ Store(p) PROVE Series'
  <2>1. Return(p)
    BY <1>4, Zenon DEF CacheHit, GatherFails, Store
  <2> QED
    BY <2>1, StillSeries, Zenon DEF Return
<1>5. CASE Tick
  BY <1>5, TickSeries, Zenon
<1>6. CASE UNCHANGED statsVars
  BY <1>6, StillSeries, Zenon DEF statsVars
<1> QED
  BY <1>1, <1>2, <1>3, <1>4, <1>5, <1>6, Zenon DEF StatsNext

\* The chart is exact (Record, Snapshot): for a ring and minutes of any length,
\* every minute it shows has the counts of that minute and no other's, however the
\* slots were reused and whatever minutes had no traffic.
THEOREM SeriesExactHolds == StatsSpec => []SeriesExact
<1>1. ASSUME Series PROVE SeriesExact
  <2> DEFINE shown == Current - SlotCount + 1 .. Current
             s(m) == slots[m % SlotCount]
             point(m) == IF s(m).start = m THEN [success |-> s(m).success, error |-> s(m).error]
                         ELSE NoTraffic
  <2>1. /\ Current \in Nat /\ Minute(MaxTime) \in Nat /\ Current \in Minutes
        /\ SlotCount \in Nat \ {0}
    BY <1>1, CurrentMinute, StatsConstants, Zenon
  <2>2. ASSUME NEW m \in shown PROVE point(m) = IF m < 0 THEN NoTraffic ELSE recorded[m]
    <3>1. m \in Int /\ m <= Current /\ Current - SlotCount < m
      BY <2>1
    <3>2. m % SlotCount \in Slots
      BY <2>1, <3>1, DivMod, Zenon DEF Slots
    <3>3. SlotHolds(s(m), m % SlotCount, recorded, Current)
      BY <1>1, <3>2, Zenon DEF Series
    <3>4. CASE m < 0
      <4>1. s(m).start = m => s(m).success = 0 /\ s(m).error = 0
        <5>1. m \notin 0 .. Current
          BY <3>1, <3>4
        <5> QED
          BY <3>3, <5>1, Zenon DEF SlotHolds
      <4> QED
        BY <3>4, <4>1, Zenon DEF NoTraffic
    <3>5. CASE ~(m < 0)
      <4>1. m \in Minutes /\ m # -1
        BY <2>1, <3>1, <3>5 DEF Minutes
      <4>2. s(m).start = m => recorded[m] = [success |-> s(m).success, error |-> s(m).error]
        BY <3>3, <4>1, Zenon DEF SlotHolds
      <4>3. s(m).start # m => recorded[m] = NoTraffic
        BY <1>1, <3>1, <4>1, Zenon DEF Series, HasSlot
      <4> QED
        BY <3>5, <4>2, <4>3, Zenon
    <3> QED
      BY <3>4, <3>5, Zenon
  <2>3. Snapshot(clock) = [m \in shown |-> point(m)]
    BY Zenon DEF Snapshot, Current
  <2> HIDE DEF shown, point
  <2>4. DOMAIN Snapshot(clock) = shown /\ \A m \in shown : Snapshot(clock)[m] = point(m)
    BY <2>3, Zenon
  <2> QED
    BY <2>2, <2>4, Zenon DEF SeriesExact
<1> QED
  BY <1>1, InitSeries, NextSeries, PTL DEF StatsSpec

-----------------------------------------------------------------------------
\* ErrorsAgree.

ErrorLabels == {401, 403, 404, 413, 429, 4, 502, 503, 504, 5}
ErrorSumOf(f) ==
  f[401] + f[403] + f[404] + f[413] + f[429] + f[4] + (f[502] + f[503] + f[504] + f[5])

\* The statuses of answers.
Statuses == 200 .. 599

\* A request that ends as bad says: with an error, or without.
OfKind(code, bad) == IF bad THEN code >= 400 ELSE ~(code >= 400)
Ends(r, bad) == OfKind(Status(outcome[r]), bad)

\* The requests of that kind that the summary counts and the chart does not yet.
Between(bad) == {r \in Requests : req[r] = "record" /\ Ends(r, bad)}

\* Their numbers by minute, without the ring.
Column(rec, bad) == [m \in DOMAIN rec |-> IF bad THEN rec[m].error ELSE rec[m].success]

Seen(bad) == SumOver(Column(recorded, bad)) + Cardinality(Between(bad))
FiniteSeen(bad) == IsFiniteSet(Units(Column(recorded, bad))) /\ IsFiniteSet(Between(bad))

\* What the summary counts is in the chart, or about to be.
Tallied ==
  /\ DOMAIN req = Requests /\ outcome \in Workloads
  /\ FiniteSeen(TRUE) /\ FiniteSeen(FALSE)
  /\ Seen(TRUE) = Errors4xx + Errors5xx
  /\ Seen(TRUE) + Seen(FALSE) = Total

\* g is f elsewhere than at m; it is f with one more at m.
SameBut(S, f, g, m) == \A a \in S : a # m => g[a] = f[a]
OneMoreAt(S, f, g, m) == g[m] = f[m] + 1 /\ SameBut(S, f, g, m)

\* after is rec with one more request, answered with code, in minute m.
Bumped(rec, after, m, code) ==
  DOMAIN after = Minutes /\ after[m] = Bump(rec[m], code) /\ SameBut(Minutes, rec, after, m)

\* y is one of the pairs that the sum of f counts.
InSum(S, f, y) == \E a \in S : \E i \in 1 .. f[a] : y = <<a, i>>

\* Units(f) is the set of those pairs.
LEMMA UnitsAre ==
  ASSUME NEW S, NEW f \in [S -> Nat], NEW y
  PROVE  y \in Units(f) <=> InSum(S, f, y)
<1> DEFINE V(a) == {<<a, i>> : i \in 1 .. f[a]}
<1>1. \A a : y \in V(a) <=> \E i \in 1 .. f[a] : y = <<a, i>>
  BY Zenon
<1>2. Units(f) = UNION {V(a) : a \in S}
  <2>1. DOMAIN f = S
    BY Zenon
  <2> QED
    BY <2>1, Zenon DEF Units
<1> HIDE DEF V
<1>3. y \in UNION {V(a) : a \in S} <=> \E a \in S : y \in V(a)
  BY Zenon
<1> QED
  BY <1>1, <1>2, <1>3, Zenon DEF InSum

\* One more in one place is one more in the sum.
LEMMA SumOverOneMore ==
  ASSUME NEW S, NEW f \in [S -> Nat], NEW g \in [S -> Nat], NEW m \in S,
         OneMoreAt(S, f, g, m), IsFiniteSet(Units(f))
  PROVE  IsFiniteSet(Units(g)) /\ SumOver(g) = SumOver(f) + 1
<1>0. g[m] = f[m] + 1 /\ \A a \in S \ {m} : g[a] = f[a]
  BY Zenon DEF OneMoreAt, SameBut
<1> DEFINE x == <<m, f[m] + 1>>
<1>1. \A y : (y \in Units(f) <=> InSum(S, f, y)) /\ (y \in Units(g) <=> InSum(S, g, y))
  BY UnitsAre, Zenon
<1>2. f[m] \in Nat
  BY Zenon
<1>3. /\ \A i : i \in 1 .. g[m] <=> i \in 1 .. f[m] \/ i = f[m] + 1
      /\ f[m] + 1 \notin 1 .. f[m]
  BY <1>0, <1>2
<1>4. Units(g) = Units(f) \cup {x}
  <2>1. ASSUME NEW y PROVE InSum(S, g, y) <=> InSum(S, f, y) \/ y = x
    <3>1. ASSUME NEW a \in S, NEW i \in 1 .. g[a], y = <<a, i>>
          PROVE  InSum(S, f, y) \/ y = x
      <4>1. CASE a = m
        BY <1>3, <3>1, <4>1, Zenon DEF InSum
      <4>2. CASE a # m
        BY <1>0, <3>1, <4>2, Zenon DEF InSum
      <4> QED
        BY <4>1, <4>2, Zenon
    <3>2. ASSUME NEW a \in S, NEW i \in 1 .. f[a], y = <<a, i>>
          PROVE  InSum(S, g, y)
      <4>1. i \in 1 .. g[a]
        BY <1>0, <1>3, <3>2, Zenon
      <4> QED
        BY <3>2, <4>1, Zenon DEF InSum
    <3>3. y = x => InSum(S, g, y)
      BY <1>3, Zenon DEF InSum
    <3> HIDE DEF x
    <3> QED
      BY <3>1, <3>2, <3>3, Zenon DEF InSum
  <2> HIDE DEF x
  <2> QED
    BY <1>1, <2>1, Zenon
<1>5. x \notin Units(f)
  <2> SUFFICES ASSUME x \in Units(f) PROVE FALSE
    BY Zenon
  <2>1. PICK a \in S : \E i \in 1 .. f[a] : x = <<a, i>>
    BY <1>1, Zenon DEF InSum
  <2>2. PICK i \in 1 .. f[a] : x = <<a, i>>
    BY <2>1, Zenon
  <2>3. a = m /\ i = f[m] + 1
    BY <2>2
  <2> QED
    BY <1>3, <2>2, <2>3, Zenon
<1> HIDE DEF x
<1> DEFINE U == Units(f)
<1> HIDE DEF U
<1>6. IsFiniteSet(U \cup {x}) /\ Cardinality(U \cup {x}) = Cardinality(U) + 1
  BY <1>5, FS_AddElement, Zenon DEF U
<1> QED
  BY <1>4, <1>6, Zenon DEF SumOver, U

\* One request more in a slot is one more of its kind.
LEMMA BumpColumn ==
  ASSUME NEW rec \in [Minutes -> Points], NEW m \in Minutes, NEW code, NEW bad \in BOOLEAN,
         NEW after, Bumped(rec, after, m, code)
  PROVE  /\ Column(rec, bad) \in [Minutes -> Nat]
         /\ Column(after, bad) \in [Minutes -> Nat]
         /\ OfKind(code, bad) => OneMoreAt(Minutes, Column(rec, bad), Column(after, bad), m)
         /\ ~OfKind(code, bad) => Column(after, bad) = Column(rec, bad)
<1> DEFINE field(p) == IF bad THEN p.error ELSE p.success
<1>1. DOMAIN rec = Minutes /\ DOMAIN after = Minutes /\ rec[m] \in Points
  BY Zenon DEF Bumped
<1>2. \A p \in Points : field(p) \in Nat
  BY DEF Points
<1>3. /\ after[m] = Bump(rec[m], code)
      /\ \A a \in Minutes : a # m => after[a] = rec[a]
  BY <1>1, Zenon DEF SameBut, Bumped
<1>4. /\ OfKind(code, bad) => field(Bump(rec[m], code)) = field(rec[m]) + 1
      /\ ~OfKind(code, bad) => field(Bump(rec[m], code)) = field(rec[m])
  <2>1. ASSUME NEW p \in Points, code >= 400
        PROVE  Bump(p, code).error = p.error + 1 /\ Bump(p, code).success = p.success
    BY <2>1 DEF Bump, Points
  <2>2. ASSUME NEW p \in Points, ~(code >= 400)
        PROVE  Bump(p, code).error = p.error /\ Bump(p, code).success = p.success + 1
    BY <2>2 DEF Bump, Points
  <2>3. CASE bad
    BY <1>1, <2>1, <2>2, <2>3, Zenon DEF OfKind
  <2>4. CASE ~bad
    BY <1>1, <2>1, <2>2, <2>4, Zenon DEF OfKind
  <2> QED
    BY <2>3, <2>4, Zenon
<1>5. /\ Column(rec, bad) = [a \in Minutes |-> field(rec[a])]
      /\ Column(after, bad) = [a \in Minutes |-> field(after[a])]
  BY <1>1, Zenon DEF Column
<1> HIDE DEF field
<1>6. Column(rec, bad) \in [Minutes -> Nat] /\ Column(after, bad) \in [Minutes -> Nat]
  <2>1. field(rec[m]) \in Nat /\ \A a \in Minutes : field(rec[a]) \in Nat
    BY <1>1, <1>2, Zenon
  <2>2. field(after[m]) \in Nat
    BY <1>3, <1>4, <2>1
  <2>3. \A a \in Minutes : field(after[a]) \in Nat
    BY <1>3, <2>1, <2>2, Zenon
  <2> QED
    BY <1>5, <2>1, <2>3, Zenon
<1>7. ASSUME OfKind(code, bad)
      PROVE  OneMoreAt(Minutes, Column(rec, bad), Column(after, bad), m)
  <2>1. field(after[m]) = field(rec[m]) + 1
    BY <1>3, <1>4, <1>7, Zenon
  <2>2. \A a \in Minutes : a # m => field(after[a]) = field(rec[a])
    BY <1>3, Zenon
  <2>3. \A a \in Minutes : Column(rec, bad)[a] = field(rec[a]) /\ Column(after, bad)[a] = field(after[a])
    BY <1>5, Zenon
  <2> QED
    BY <2>1, <2>2, <2>3, Zenon DEF OneMoreAt, SameBut
<1>8. ASSUME ~OfKind(code, bad)
      PROVE  Column(after, bad) = Column(rec, bad)
  <2>1. \A a \in Minutes : field(after[a]) = field(rec[a])
    BY <1>3, <1>4, <1>8, Zenon
  <2> QED
    BY <1>5, <2>1, Zenon
<1> QED
  BY <1>6, <1>7, <1>8, Zenon

\* The summary's error labels are those of the statuses from 400 on.
LEMMA LabelErrs ==
  ASSUME NEW s \in Statuses
  PROVE  StatusLabel(s) \in ErrorLabels <=> OfKind(s, TRUE)
<1> DEFINE named == s \in {401, 403, 404, 413, 429, 502, 503, 504}
<1>1. ASSUME named PROVE StatusLabel(s) \in ErrorLabels <=> OfKind(s, TRUE)
  BY <1>1 DEF StatusLabel, ErrorLabels, OfKind
<1>2. ASSUME ~named PROVE StatusLabel(s) \in ErrorLabels <=> OfKind(s, TRUE)
  <2>1. StatusLabel(s) = s \div 100
    BY <1>2 DEF StatusLabel, Statuses
  <2>2. s \div 100 \in 2 .. 5 /\ (s \div 100 >= 4 <=> s >= 400)
    BY DEF Statuses
  <2> QED
    BY <2>1, <2>2 DEF ErrorLabels, OfKind
<1> HIDE DEF named
<1> QED
  BY <1>1, <1>2, Zenon

\* Every outcome has a status from 200 on, if the refusals have.
LEMMA StatusFrom ==
  ASSUME NEW o, o.kind = "refused" => o.status \in Statuses
  PROVE  Status(o) \in Statuses
<1>1. \A x : ClientStatus(x) \in Statuses
  BY DEF ClientStatus, Statuses
<1>2. 200 \in Statuses
  BY DEF Statuses
<1>3. CASE o.kind = "refused"
  <2>1. Status(o) = o.status
    BY <1>3 DEF Status
  <2> QED
    BY <1>3, <2>1, Zenon
<1>4. CASE o.kind = "failed"
  <2>1. Status(o) = ClientStatus(Sentinel(o.reply))
    BY <1>4 DEF Status
  <2> QED
    BY <1>1, <2>1, Zenon
<1>5. CASE ~(o.kind = "refused") /\ ~(o.kind = "failed")
  <2>1. Status(o) = 200
    BY <1>5 DEF Status
  <2> QED
    BY <1>2, <2>1, SMT
<1> QED
  BY <1>3, <1>4, <1>5, SMT

\* A chat request is answered with a status from 200 on.
LEMMA StatusTyped ==
  ASSUME outcome \in Workloads, NEW r \in Requests
  PROVE  Status(outcome[r]) \in Statuses
<1>1. outcome[r].kind = "refused" => outcome[r].status \in Refusals
  BY StatsConstants, Zenon
<1>2. \A s \in Refusals : s \in Statuses
  BY DEF Statuses, Refusals
<1>3. outcome[r].kind = "refused" => outcome[r].status \in Statuses
  BY <1>1, <1>2, Zenon
<1> QED
  BY <1>3, StatusFrom, Zenon

\* One more of a label is one more error if the label is an error's.
LEMMA ErrorOneMore ==
  ASSUME NEW f \in [Labels -> Nat], NEW g \in [Labels -> Nat], NEW l \in Labels,
         g = [f EXCEPT ![l] = @ + 1]
  PROVE  ErrorSumOf(g) = ErrorSumOf(f) + (IF l \in ErrorLabels THEN 1 ELSE 0)
<1>1. CASE l \in ErrorLabels
  BY <1>1 DEF ErrorSumOf, Labels, ErrorLabels
<1>2. CASE l \notin ErrorLabels
  BY <1>2 DEF ErrorSumOf, Labels, ErrorLabels
<1> QED
  BY <1>1, <1>2

\* The numbers of FiniteSeen are numbers.
LEMMA SeenTyped ==
  ASSUME NEW bad \in BOOLEAN, FiniteSeen(bad)
  PROVE  /\ SumOver(Column(recorded, bad)) \in Nat /\ Cardinality(Between(bad)) \in Nat
         /\ Seen(bad) \in Nat
<1>1. SumOver(Column(recorded, bad)) \in Nat /\ Cardinality(Between(bad)) \in Nat
  BY FS_CardinalityType, Zenon DEF FiniteSeen, SumOver
<1> QED
  BY <1>1 DEF Seen

\* What Seen adds up, after a step.
LEMMA SeenNext ==
  ASSUME NEW bad \in BOOLEAN, NEW g, Column(recorded, bad)' = g, NEW B, Between(bad)' = B
  PROVE  /\ Seen(bad)' = SumOver(g) + Cardinality(B)
         /\ FiniteSeen(bad)' <=> IsFiniteSet(Units(g)) /\ IsFiniteSet(B)
<1>1. Seen(bad)' = SumOver(Column(recorded, bad)') + Cardinality(Between(bad)')
  BY Zenon DEF Seen
<1>2. FiniteSeen(bad)' <=> /\ IsFiniteSet(Units(Column(recorded, bad)'))
                           /\ IsFiniteSet(Between(bad)')
  BY Zenon DEF FiniteSeen
<1> QED
  BY <1>1, <1>2, Zenon

\* The counter comes first: the request is then between summary and chart.
LEMMA CountSeen ==
  ASSUME NEW bad \in BOOLEAN, FiniteSeen(bad), DOMAIN req = Requests,
         NEW r \in Requests, req[r] # "record", req' = [req EXCEPT ![r] = "record"],
         recorded' = recorded, outcome' = outcome
  PROVE  /\ FiniteSeen(bad)'
         /\ Ends(r, bad) => Seen(bad)' = Seen(bad) + 1
         /\ ~Ends(r, bad) => Seen(bad)' = Seen(bad)
<1> DEFINE B == Between(bad)
           n == SumOver(Column(recorded, bad))
<1>1. \A q \in Requests : Ends(q, bad)' <=> Ends(q, bad)
  BY Zenon DEF Ends
<1>2. Column(recorded, bad)' = Column(recorded, bad)
  BY Zenon DEF Column
<1>3. \A q \in Requests : req'[q] = "record" <=> req[q] = "record" \/ q = r
  BY Zenon
<1>4. r \notin B
  BY Zenon DEF Between
<1>5. CASE Ends(r, bad)
  <2>1. Between(bad)' = B \cup {r}
    BY <1>1, <1>3, <1>5, Zenon DEF Between
  <2> HIDE DEF B
  <2>2. IsFiniteSet(B) /\ Cardinality(B) \in Nat /\ n \in Nat
    BY SeenTyped, Zenon DEF FiniteSeen, B
  <2>3. IsFiniteSet(B \cup {r}) /\ Cardinality(B \cup {r}) = Cardinality(B) + 1
    BY <1>4, <2>2, FS_AddElement, Zenon
  <2> HIDE DEF n
  <2>4. n + (Cardinality(B) + 1) = (n + Cardinality(B)) + 1
    BY <2>2
  <2>5. Seen(bad)' = n + (Cardinality(B) + 1) /\ Seen(bad) = n + Cardinality(B)
    BY <1>2, <2>1, <2>3, SeenNext, Zenon DEF Seen, B, n
  <2>6. FiniteSeen(bad)'
    BY <1>2, <2>1, <2>3, SeenNext, Zenon DEF FiniteSeen
  <2> QED
    BY <1>5, <2>4, <2>5, <2>6, Zenon
<1>6. CASE ~Ends(r, bad)
  <2>1. Between(bad)' = Between(bad)
    BY <1>1, <1>3, <1>6, Zenon DEF Between
  <2> QED
    BY <1>2, <1>6, <2>1, SeenNext, Zenon DEF Seen, FiniteSeen
<1> QED
  BY <1>5, <1>6, Zenon

\* Record takes it over into the chart.
LEMMA RecordSeen ==
  ASSUME Series, NEW bad \in BOOLEAN, FiniteSeen(bad), DOMAIN req = Requests,
         NEW r \in Requests, Record(r)
  PROVE  FiniteSeen(bad)' /\ Seen(bad)' = Seen(bad)
<1> DEFINE B == Between(bad)
           f == Column(recorded, bad)
           after == recorded'
           g == Column(after, bad)
           code == Status(outcome[r])
<1>1. /\ req[r] = "record" /\ req' = [req EXCEPT ![r] = "done"] /\ outcome' = outcome
      /\ recorded' = [recorded EXCEPT ![Current] = Bump(recorded[Current], code)]
  BY Zenon DEF Record, Current
<1>2. /\ recorded \in [Minutes -> Points] /\ Current \in Minutes
      /\ Bumped(recorded, after, Current, code)
  <2>1. recorded \in [Minutes -> Points] /\ Current \in Minutes
    BY CurrentMinute, Zenon DEF Series
  <2> HIDE DEF code
  <2> QED
    BY <1>1, <2>1, Zenon DEF SameBut, Bumped
<1>3. \A q \in Requests : Ends(q, bad)' <=> Ends(q, bad)
  BY <1>1, Zenon DEF Ends
<1>4. \A q \in Requests : req'[q] = "record" <=> req[q] = "record" /\ q # r
  BY <1>1, Zenon
<1>5. Column(recorded, bad)' = g
  BY Zenon DEF Column
<1> HIDE DEF code, after, g, f
<1>6. Ends(r, bad) <=> OfKind(code, bad)
  BY Zenon DEF Ends, code
<1>7. /\ f \in [Minutes -> Nat] /\ g \in [Minutes -> Nat]
      /\ OfKind(code, bad) => OneMoreAt(Minutes, f, g, Current)
      /\ ~OfKind(code, bad) => g = f
  <2>1. f \in [Minutes -> Nat]
    BY <1>2, BumpColumn, Zenon DEF f, g
  <2>2. g \in [Minutes -> Nat]
    BY <1>2, BumpColumn, Zenon DEF f, g
  <2>3. OfKind(code, bad) => OneMoreAt(Minutes, f, g, Current)
    BY <1>2, BumpColumn, Zenon DEF f, g
  <2>4. ~OfKind(code, bad) => g = f
    BY <1>2, BumpColumn, SMT DEF f, g
  <2> QED
    BY <2>1, <2>2, <2>3, <2>4, Zenon
<1>8. CASE Ends(r, bad)
  <2>1. Between(bad)' = B \ {r} /\ r \in B
    BY <1>1, <1>3, <1>4, <1>8, Zenon DEF Between
  <2> HIDE DEF B
  <2>2. IsFiniteSet(B) /\ Cardinality(B) \in Nat /\ SumOver(f) \in Nat /\ IsFiniteSet(Units(f))
    BY SeenTyped, Zenon DEF FiniteSeen, B, f
  <2>3. IsFiniteSet(B \ {r}) /\ Cardinality(B \ {r}) = Cardinality(B) - 1
    BY <2>1, <2>2, FS_RemoveElement, Zenon
  <2>4. IsFiniteSet(Units(g)) /\ SumOver(g) = SumOver(f) + 1
    BY <1>2, <1>7, <1>6, <1>8, <2>2, SumOverOneMore, Zenon
  <2>5. (SumOver(f) + 1) + (Cardinality(B) - 1) = SumOver(f) + Cardinality(B)
    BY <2>2
  <2>6. Seen(bad)' = (SumOver(f) + 1) + (Cardinality(B) - 1) /\ Seen(bad) = SumOver(f) + Cardinality(B)
    BY <1>5, <2>1, <2>3, <2>4, SeenNext, Zenon DEF Seen, B, f
  <2>7. FiniteSeen(bad)'
    BY <1>5, <2>1, <2>3, <2>4, SeenNext, Zenon
  <2> QED
    BY <2>5, <2>6, <2>7, Zenon
<1>9. CASE ~Ends(r, bad)
  <2>1. Between(bad)' = Between(bad)
    BY <1>1, <1>3, <1>4, <1>9, Zenon DEF Between
  <2>2. Column(recorded, bad)' = Column(recorded, bad)
    BY <1>5, <1>6, <1>7, <1>9, Zenon DEF f
  <2> QED
    BY <2>1, <2>2, SeenNext, Zenon DEF Seen, FiniteSeen
<1> QED
  BY <1>8, <1>9, Zenon

\* The summary's errors are the counters of the error labels.
LEMMA ErrorsAre == Errors4xx + Errors5xx = ErrorSumOf(counters.requests)
  BY Zenon DEF Errors4xx, Errors5xx, Of, ErrorSumOf

\* The summary depends on the request counters alone.
LEMMA SummaryStays ==
  ASSUME counters'.requests = counters.requests
  PROVE  (Errors4xx + Errors5xx)' = Errors4xx + Errors5xx /\ Total' = Total
<1>1. /\ (Errors4xx + Errors5xx)' = ErrorSumOf(counters'.requests)
      /\ Total' = SumOf(counters'.requests)
  BY Zenon DEF Errors4xx, Errors5xx, Total, Of, ErrorSumOf, SumOf
<1> QED
  BY <1>1, ErrorsAre, TotalIsSum, Zenon

\* A sum of error counters is a number.
LEMMA ErrorSumTyped == ASSUME NEW f \in [Labels -> Nat] PROVE ErrorSumOf(f) \in Nat
  BY DEF ErrorSumOf, Labels

\* A request counted: one more in total, and one more error if it ended with one.
LEMMA CountTallied ==
  ASSUME CountersTyped, Tallied, NEW r \in Requests, Count(r)
  PROVE  Tallied'
<1> DEFINE code == Status(outcome[r])
           l == StatusLabel(code)
           e == ErrorSumOf(counters.requests)
           t == Seen(TRUE)
           f == Seen(FALSE)
<1>1. /\ DOMAIN req = Requests /\ outcome \in Workloads /\ FiniteSeen(TRUE) /\ FiniteSeen(FALSE)
      /\ t = e /\ t + f = Total
  BY ErrorsAre, Zenon DEF Tallied
<1>2. /\ req[r] # "record" /\ req' = [req EXCEPT ![r] = "record"]
      /\ recorded' = recorded /\ outcome' = outcome
      /\ counters' = [counters EXCEPT !.requests[l] = @ + 1]
  BY Zenon DEF Count
<1>3. DOMAIN req' = Requests /\ outcome' \in Workloads
  BY <1>1, <1>2, Zenon
<1>4. /\ FiniteSeen(TRUE)' /\ FiniteSeen(FALSE)'
      /\ Ends(r, TRUE) => Seen(TRUE)' = t + 1
      /\ ~Ends(r, TRUE) => Seen(TRUE)' = t
      /\ Ends(r, FALSE) => Seen(FALSE)' = f + 1
      /\ ~Ends(r, FALSE) => Seen(FALSE)' = f
  <2>1. TRUE \in BOOLEAN /\ FALSE \in BOOLEAN
    BY Zenon
  <2> HIDE DEF l
  <2> QED
    BY <1>1, <1>2, <2>1, CountSeen, Zenon
<1>5. Ends(r, FALSE) <=> ~Ends(r, TRUE)
  BY Zenon DEF Ends, OfKind
<1>6. l \in ErrorLabels <=> Ends(r, TRUE)
  <2>1. code \in Statuses
    BY <1>1, StatusTyped, Zenon
  <2> QED
    BY <2>1, LabelErrs, Zenon DEF Ends
<1>7. l \in Labels
  BY LabelTyped, Zenon
<1> HIDE DEF code, l
<1>8. CountersTyped' /\ Total' = Total + 1
  BY <1>2, <1>7, OneMore, Zenon
<1>9. counters.requests \in [Labels -> Nat] /\ counters'.requests \in [Labels -> Nat]
  BY <1>8, Zenon DEF CountersTyped
<1>10. counters'.requests = [counters.requests EXCEPT ![l] = @ + 1]
  BY <1>2 DEF CountersTyped
<1>11. /\ l \in ErrorLabels => ErrorSumOf(counters.requests)' = e + 1
       /\ l \notin ErrorLabels => ErrorSumOf(counters.requests)' = e
  <2>1. ErrorSumOf(counters'.requests) = e + (IF l \in ErrorLabels THEN 1 ELSE 0)
    BY <1>7, <1>9, <1>10, ErrorOneMore, Zenon
  <2>2. e \in Nat
    BY <1>9, ErrorSumTyped, Zenon
  <2>3. ErrorSumOf(counters.requests)' = ErrorSumOf(counters'.requests)
    BY Zenon DEF ErrorSumOf
  <2> HIDE DEF e
  <2> QED
    BY <2>1, <2>2, <2>3
<1>12. (Errors4xx + Errors5xx)' = ErrorSumOf(counters.requests)'
  BY Zenon DEF Errors4xx, Errors5xx, Of, ErrorSumOf
<1>13. t \in Nat /\ f \in Nat
  <2>1. TRUE \in BOOLEAN /\ FALSE \in BOOLEAN
    BY Zenon
  <2> QED
    BY <1>1, <2>1, SeenTyped, Zenon
<1>14. t = e /\ t + f = Total
  BY <1>1, Zenon
<1> HIDE DEF e, t, f
<1>15. t + 1 = e + 1 /\ (t + 1) + f = Total + 1 /\ t + (f + 1) = Total + 1
  BY <1>13, <1>14
<1>16. Seen(TRUE)' = (Errors4xx + Errors5xx)' /\ Seen(TRUE)' + Seen(FALSE)' = Total'
  <2>1. CASE Ends(r, TRUE)
    <3>1. Seen(TRUE)' = t + 1 /\ Seen(FALSE)' = f /\ (Errors4xx + Errors5xx)' = e + 1
      BY <1>4, <1>5, <1>6, <1>11, <1>12, <2>1, Zenon
    <3> QED
      BY <1>8, <1>14, <1>15, <3>1, Zenon
  <2>2. CASE ~Ends(r, TRUE)
    <3>1. Seen(TRUE)' = t /\ Seen(FALSE)' = f + 1 /\ (Errors4xx + Errors5xx)' = e
      BY <1>4, <1>5, <1>6, <1>11, <1>12, <2>2, Zenon
    <3> QED
      BY <1>8, <1>14, <1>15, <3>1, Zenon
  <2> QED
    BY <2>1, <2>2, Zenon
<1> QED
  BY <1>3, <1>4, <1>16, Zenon DEF Tallied

\* A request recorded: between summary and chart no longer, and in the chart.
LEMMA RecordTallied ==
  ASSUME Series, Tallied, NEW r \in Requests, Record(r)
  PROVE  Tallied'
<1>1. /\ DOMAIN req = Requests /\ outcome \in Workloads /\ FiniteSeen(TRUE) /\ FiniteSeen(FALSE)
      /\ Seen(TRUE) = Errors4xx + Errors5xx /\ Seen(TRUE) + Seen(FALSE) = Total
  BY Zenon DEF Tallied
<1>2. DOMAIN req' = Requests /\ outcome' \in Workloads
  BY <1>1, Zenon DEF Record
<1>3. TRUE \in BOOLEAN /\ FALSE \in BOOLEAN
  BY Zenon
<1>4. /\ FiniteSeen(TRUE)' /\ Seen(TRUE)' = Seen(TRUE)
      /\ FiniteSeen(FALSE)' /\ Seen(FALSE)' = Seen(FALSE)
  BY <1>1, <1>3, RecordSeen, Zenon
<1>5. (Errors4xx + Errors5xx)' = Errors4xx + Errors5xx /\ Total' = Total
  BY SummaryStays, Zenon DEF Record
<1> QED
  BY <1>1, <1>2, <1>4, <1>5, Zenon DEF Tallied

\* A step that neither counts nor records a request keeps Tallied.
LEMMA StillTallied ==
  ASSUME Tallied, DOMAIN req' = Requests, outcome' = outcome, recorded' = recorded,
         counters'.requests = counters.requests,
         \A q \in Requests : req'[q] = "record" <=> req[q] = "record"
  PROVE  Tallied'
<1>1. /\ outcome \in Workloads /\ FiniteSeen(TRUE) /\ FiniteSeen(FALSE)
      /\ Seen(TRUE) = Errors4xx + Errors5xx /\ Seen(TRUE) + Seen(FALSE) = Total
  BY Zenon DEF Tallied
<1>2. TRUE \in BOOLEAN /\ FALSE \in BOOLEAN
  BY Zenon
<1>3. ASSUME NEW bad \in BOOLEAN, FiniteSeen(bad)
      PROVE  FiniteSeen(bad)' /\ Seen(bad)' = Seen(bad)
  <2>1. \A q \in Requests : Ends(q, bad)' <=> Ends(q, bad)
    BY Zenon DEF Ends
  <2>2. Between(bad)' = Between(bad)
    BY <2>1, Zenon DEF Between
  <2>3. Column(recorded, bad)' = Column(recorded, bad)
    BY Zenon DEF Column
  <2> QED
    BY <1>3, <2>2, <2>3, SeenNext, Zenon DEF Seen, FiniteSeen
<1>4. (Errors4xx + Errors5xx)' = Errors4xx + Errors5xx /\ Total' = Total
  BY SummaryStays, Zenon
<1>5. outcome' \in Workloads
  BY <1>1, Zenon
<1>6. /\ FiniteSeen(TRUE)' /\ Seen(TRUE)' = Seen(TRUE)
      /\ FiniteSeen(FALSE)' /\ Seen(FALSE)' = Seen(FALSE)
  BY <1>1, <1>2, <1>3, Zenon
<1> QED
  BY <1>1, <1>4, <1>5, <1>6, Zenon DEF Tallied

\* Every step keeps Tallied.
LEMMA NextTallied == Fresh /\ Series /\ Tallied /\ [StatsNext]_statsVars => Tallied'
<1> SUFFICES ASSUME Fresh, Series, Tallied, [StatsNext]_statsVars PROVE Tallied'
  BY Zenon
<1>1. CountersTyped /\ DOMAIN req = Requests
  BY Zenon DEF Fresh, Tallied
<1>2. ASSUME NEW r \in Requests, CountCache(r) PROVE Tallied'
  <2>1. /\ req[r] = "idle" /\ req' = [req EXCEPT ![r] = "count"]
        /\ outcome' = outcome /\ recorded' = recorded
    BY <1>2, Zenon DEF CountCache
  <2>2. counters'.requests = counters.requests
    <3>1. PICK hit, write : counters' = [counters EXCEPT !.hits = @ + hit, !.writes = @ + write]
      BY <1>2, Zenon DEF CountCache
    <3> QED
      BY <1>1, <3>1 DEF CountersTyped
  <2>3. DOMAIN req' = Requests /\ \A q \in Requests : req'[q] = "record" <=> req[q] = "record"
    BY <1>1, <2>1, Zenon
  <2> QED
    BY <2>1, <2>2, <2>3, StillTallied, Zenon
<1>3. ASSUME NEW r \in Requests, Count(r) PROVE Tallied'
  BY <1>1, <1>3, CountTallied, Zenon
<1>4. ASSUME NEW r \in Requests, Record(r) PROVE Tallied'
  BY <1>4, RecordTallied, Zenon
<1>5. ASSUME req' = req, outcome' = outcome, recorded' = recorded, counters' = counters
      PROVE  Tallied'
  <2>1. DOMAIN req' = Requests /\ \A q \in Requests : req'[q] = "record" <=> req[q] = "record"
    BY <1>1, <1>5, Zenon
  <2> QED
    BY <1>5, <2>1, StillTallied, Zenon
<1>6. ASSUME NEW p \in Pollers,
             \/ Begin(p) \/ CacheHit(p) \/ CacheMiss(p)
             \/ Gather(p) \/ GatherFails(p) \/ Store(p)
      PROVE  Tallied'
  BY <1>5, <1>6, Zenon DEF Begin, CacheHit, CacheMiss, Gather, GatherFails, Store, Return
<1>7. CASE Tick
  BY <1>5, <1>7, Zenon DEF Tick
<1>8. CASE UNCHANGED statsVars
  BY <1>5, <1>8, Zenon DEF statsVars
<1> QED
  BY <1>2, <1>3, <1>4, <1>6, <1>7, <1>8, Zenon DEF StatsNext

\* Two columns that agree where both have a minute and are zero elsewhere have
\* the same sum.
LEMMA UnitsSame ==
  ASSUME NEW S, NEW T, NEW f \in [S -> Nat], NEW g \in [T -> Nat],
         \A m \in S : m \in T => f[m] = g[m],
         \A m \in S : m \notin T => f[m] = 0,
         \A m \in T : m \notin S => g[m] = 0
  PROVE  Units(f) = Units(g)
<1>1. \A i : i \notin 1 .. 0
  OBVIOUS
<1>2. ASSUME NEW y PROVE InSum(S, f, y) <=> InSum(T, g, y)
  <2>1. ASSUME NEW a \in S, NEW i \in 1 .. f[a], y = <<a, i>> PROVE InSum(T, g, y)
    <3>1. a \in T
      BY <1>1, <2>1, Zenon
    <3>2. i \in 1 .. g[a]
      BY <2>1, <3>1, Zenon
    <3> QED
      BY <2>1, <3>1, <3>2, Zenon DEF InSum
  <2>2. ASSUME NEW a \in T, NEW i \in 1 .. g[a], y = <<a, i>> PROVE InSum(S, f, y)
    <3>1. a \in S
      BY <1>1, <2>2, Zenon
    <3>2. i \in 1 .. f[a]
      BY <2>2, <3>1, Zenon
    <3> QED
      BY <2>2, <3>1, <3>2, Zenon DEF InSum
  <2> QED
    BY <2>1, <2>2, Zenon DEF InSum
<1>3. \A y : (y \in Units(f) <=> InSum(S, f, y)) /\ (y \in Units(g) <=> InSum(T, g, y))
  BY UnitsAre, Zenon
<1> QED
  BY <1>2, <1>3, Zenon

\* An empty column has no units.
LEMMA NoUnits ==
  ASSUME NEW S, NEW f \in [S -> Nat], \A m \in S : f[m] = 0
  PROVE  Units(f) = {}
<1>1. \A i : i \notin 1 .. 0
  OBVIOUS
<1>2. ASSUME NEW y PROVE ~InSum(S, f, y)
  BY <1>1, Zenon DEF InSum
<1> QED
  BY <1>2, UnitsAre, Zenon

\* With nothing between summary and chart, Seen is the chart's sum.
LEMMA NoneBetween ==
  ASSUME NEW bad \in BOOLEAN, FiniteSeen(bad), \A r \in Requests : req[r] # "record"
  PROVE  Seen(bad) = SumOver(Column(recorded, bad))
<1>1. Between(bad) = {}
  BY Zenon DEF Between
<1>2. Cardinality({}) = 0
  BY FS_EmptySet, Zenon
<1>3. SumOver(Column(recorded, bad)) \in Nat
  BY SeenTyped, Zenon
<1>4. Seen(bad) = SumOver(Column(recorded, bad)) + 0
  BY <1>1, <1>2, Zenon DEF Seen
<1> QED
  BY <1>3, <1>4

\* Nothing is counted and nothing recorded in the beginning.
LEMMA InitTallied == StatsInit => Tallied
<1> SUFFICES ASSUME StatsInit PROVE Tallied
  BY Zenon
<1>1. DOMAIN req = Requests /\ outcome \in Workloads /\ \A r \in Requests : req[r] # "record"
  BY Zenon DEF StatsInit
<1>2. recorded = [m \in Minutes |-> NoTraffic]
  BY Zenon DEF StatsInit, Minutes
<1>3. ASSUME NEW bad \in BOOLEAN PROVE FiniteSeen(bad) /\ Seen(bad) = 0
  <2>1. Column(recorded, bad) = [m \in Minutes |-> IF bad THEN NoTraffic.error ELSE NoTraffic.success]
    BY <1>2, Zenon DEF Column
  <2>2. (IF bad THEN NoTraffic.error ELSE NoTraffic.success) = 0 /\ 0 \in Nat
    BY DEF NoTraffic
  <2>3. Column(recorded, bad) \in [Minutes -> Nat] /\ \A m \in Minutes : Column(recorded, bad)[m] = 0
    BY <2>1, <2>2, Zenon
  <2>4. Units(Column(recorded, bad)) = {}
    BY <2>3, NoUnits, Zenon
  <2>5. IsFiniteSet({}) /\ Cardinality({}) = 0
    BY FS_EmptySet, Zenon
  <2>6. Between(bad) = {}
    BY <1>1, Zenon DEF Between
  <2>7. FiniteSeen(bad) /\ SumOver(Column(recorded, bad)) = 0
    BY <2>4, <2>5, <2>6, Zenon DEF FiniteSeen, SumOver
  <2> QED
    BY <1>1, <2>7, NoneBetween, Zenon
<1>4. counters.requests = [l \in Labels |-> 0]
  BY Zenon DEF StatsInit
<1>5. ErrorSumOf(counters.requests) = 0 /\ SumOf(counters.requests) = 0
  BY <1>4 DEF ErrorSumOf, SumOf, Labels
<1>6. TRUE \in BOOLEAN /\ FALSE \in BOOLEAN /\ 0 + 0 = 0
  OBVIOUS
<1> QED
  BY <1>1, <1>3, <1>5, <1>6, ErrorsAre, TotalIsSum, Zenon DEF Tallied

\* What the chart shows for its minutes, and that they lie before the next one.
LEMMA PointsAre ==
  ASSUME Series, SeriesExact, NEW m \in DOMAIN Snapshot(clock)
  PROVE  /\ Snapshot(clock)[m] \in Points
         /\ m \in Minutes => Snapshot(clock)[m] = recorded[m]
         /\ m \notin Minutes => Snapshot(clock)[m] = NoTraffic
<1>1. m \in Current - SlotCount + 1 .. Current
  BY Zenon DEF Snapshot, Current
<1>2. Current \in Nat /\ Minute(MaxTime) \in Nat /\ Current \in Minutes /\ SlotCount \in Nat
  BY CurrentMinute, StatsConstants
<1>3. m \in Minutes <=> ~(m < 0)
  BY <1>1, <1>2 DEF Minutes
<1>4. NoTraffic \in Points
  BY DEF NoTraffic, Points
<1>5. \A a \in Minutes : recorded[a] \in Points
  BY Zenon DEF Series
<1>6. Snapshot(clock)[m] = IF m < 0 THEN NoTraffic ELSE recorded[m]
  BY Zenon DEF SeriesExact
<1>7. CASE m < 0
  BY <1>3, <1>4, <1>6, <1>7, Zenon
<1>8. CASE ~(m < 0)
  BY <1>3, <1>5, <1>6, <1>8, Zenon
<1> QED
  BY <1>7, <1>8, Zenon

\* A chart that covers everything recorded adds up to it.
LEMMA ChartSum ==
  ASSUME Series, SeriesExact, NEW bad \in BOOLEAN,
         \A m \in DOMAIN recorded \ DOMAIN Snapshot(clock) : recorded[m] = NoTraffic
  PROVE  SumOver(Column(Snapshot(clock), bad)) = SumOver(Column(recorded, bad))
<1> DEFINE points == Snapshot(clock)
           T == DOMAIN points
           field(p) == IF bad THEN p.error ELSE p.success
           f == Column(recorded, bad)
           g == Column(points, bad)
<1>1. recorded \in [Minutes -> Points] /\ DOMAIN recorded = Minutes
  BY Zenon DEF Series
<1>2. /\ \A m \in T : points[m] \in Points
      /\ \A m \in T : m \in Minutes => points[m] = recorded[m]
      /\ \A m \in T : m \notin Minutes => points[m] = NoTraffic
  BY PointsAre, Zenon
<1>3. (\A p \in Points : field(p) \in Nat) /\ field(NoTraffic) = 0
  BY DEF Points, NoTraffic
<1>4. \A m \in Minutes : m \notin T => recorded[m] = NoTraffic
  BY <1>1, Zenon
<1>5. f = [m \in Minutes |-> field(recorded[m])] /\ g = [m \in T |-> field(points[m])]
  BY <1>1, Zenon DEF Column
<1> HIDE DEF field, f, g, points, T
<1>6. f \in [Minutes -> Nat] /\ g \in [T -> Nat]
  BY <1>1, <1>2, <1>3, <1>5, Zenon
<1>7. /\ \A m \in Minutes : f[m] = field(recorded[m])
      /\ \A m \in T : g[m] = field(points[m])
  BY <1>5, Zenon
<1>8. /\ \A m \in Minutes : m \in T => f[m] = g[m]
      /\ \A m \in Minutes : m \notin T => f[m] = 0
      /\ \A m \in T : m \notin Minutes => g[m] = 0
  BY <1>2, <1>3, <1>4, <1>7, Zenon
<1>9. Units(f) = Units(g)
  BY <1>6, <1>8, UnitsSame, SMT
<1>10. SumOver(f) = SumOver(g)
  BY <1>9, Zenon DEF SumOver
<1> QED
  BY <1>10, Zenon DEF f, g, points

\* The chart and the summary of the admin console report the same errors and the
\* same successes whenever no request is between its counter and its slot and the
\* ring covers what was recorded (ObserveRequest, Record, Snapshot, Summary).
THEOREM ErrorsAgreeHolds == StatsSpec => []ErrorsAgree
<1>1. ASSUME Fresh, Series, Tallied, SeriesExact PROVE ErrorsAgree
  <2> DEFINE points == Snapshot(clock)
             a == SumOver([m \in DOMAIN points |-> points[m].error])
             b == SumOver([m \in DOMAIN points |-> points[m].success])
  <2> SUFFICES ASSUME \A r \in Requests : req[r] \in {"idle", "count", "done"},
                      \A m \in DOMAIN recorded \ DOMAIN points : recorded[m] = NoTraffic
               PROVE  a = Errors4xx + Errors5xx /\ b = Total - Errors4xx - Errors5xx
    BY Zenon DEF ErrorsAgree
  <2>1. TRUE \in BOOLEAN /\ FALSE \in BOOLEAN /\ \A r \in Requests : req[r] # "record"
    OBVIOUS
  <2>2. /\ FiniteSeen(TRUE) /\ FiniteSeen(FALSE)
        /\ Seen(TRUE) = Errors4xx + Errors5xx /\ Seen(TRUE) + Seen(FALSE) = Total
    BY <1>1, Zenon DEF Tallied
  <2>3. a = Seen(TRUE)
    <3>1. Column(points, TRUE) = [m \in DOMAIN points |-> points[m].error]
      BY Zenon DEF Column
    <3> HIDE DEF points
    <3>2. SumOver(Column(points, TRUE)) = SumOver(Column(recorded, TRUE))
      BY <1>1, <2>1, ChartSum, Zenon DEF points
    <3> QED
      BY <2>1, <2>2, <3>1, <3>2, NoneBetween, Zenon
  <2>4. b = Seen(FALSE)
    <3>1. Column(points, FALSE) = [m \in DOMAIN points |-> points[m].success]
      BY Zenon DEF Column
    <3> HIDE DEF points
    <3>2. SumOver(Column(points, FALSE)) = SumOver(Column(recorded, FALSE))
      BY <1>1, <2>1, ChartSum, Zenon DEF points
    <3> QED
      BY <2>1, <2>2, <3>1, <3>2, NoneBetween, Zenon
  <2>5. Seen(TRUE) \in Nat /\ Seen(FALSE) \in Nat
    BY <2>1, <2>2, SeenTyped, Zenon
  <2>6. Errors4xx \in Nat /\ Errors5xx \in Nat
    <3>1. counters.requests \in [Labels -> Nat]
      BY <1>1, Zenon DEF Fresh, CountersTyped
    <3> QED
      BY <3>1 DEF Errors4xx, Errors5xx, Of, Labels
  <2> HIDE DEF a, b
  <2>7. a = Errors4xx + Errors5xx /\ a + b = Total /\ a \in Nat /\ b \in Nat
    BY <2>2, <2>3, <2>4, <2>5, Zenon
  <2> QED
    BY <2>6, <2>7
<1> QED
  BY <1>1, InitFresh, NextFresh, InitSeries, NextSeries, InitTallied, NextTallied,
     SeriesExactHolds, PTL DEF StatsSpec
=============================================================================
