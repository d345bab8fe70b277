---------------------------- MODULE RouterProofs ----------------------------
(***************************************************************************)
(* The theorems about Router: the invariants it keeps, that it implements  *)
(* BreakerPool under the identity mapping of the breakers and the permits, *)
(* that the work for a request is bounded, and that breaker and client are *)
(* told the same of a stream.                                              *)
(***************************************************************************)
EXTENDS RouterStepProofs
-----------------------------------------------------------------------------
\* The invariant holds when the gateway starts ...
LEMMA InitInv == Init => IInv
<1> SUFFICES ASSUME Init PROVE IInv
  BY Zenon
<1>1. NewGeneration("closed") \in Breaker
  BY FreshType, Zenon DEF BreakerStates
<1>2. NoEvent \in Events /\ <<>> \in Seq(Events) /\ Len(<<>>) = 0
  BY DEF NoEvent, Events
<1>3. TypeOK
  BY <1>1, <1>2, Zenon DEF Init, TypeOK, RouteTypeOK, ReqTypeOK, GateTypeOK, SrcTypeOK, FwdTypeOK
<1>4. ASSUME NEW r \in Requests PROVE InvAt(r)
  <2>1. PhaseAt(r)
    BY Zenon DEF Init, PhaseAt
  <2>2. PipeAt(r)
    BY <1>2 DEF Init, PipeAt, Reading
  <2> QED
    BY <2>1, <2>2, Zenon DEF Init, InvAt
<1> QED
  BY <1>3, <1>4, InvPointwise, Zenon

\* ... and every step of every goroutine preserves it.
LEMMA NextInv == IInv /\ [Next]_vars => IInv'
<1> SUFFICES ASSUME IInv, [Next]_vars PROVE IInv'
  BY Zenon
<1>1. TypeOK'
  BY TypePreserved, Zenon
<1>2. \A q \in Requests : InvAt(q)'
  <2>1. ASSUME NEW r \in Requests, ClientGone(r) PROVE \A q \in Requests : InvAt(q)'
    <3>1. TypeOK /\ \A q \in Requests : InvAt(q)
      BY InvPointwise, Zenon
    <3>2. \A q \in Requests \ {r} : Same(q)
      BY <2>1, <3>1, Zenon DEF ClientGone, Same, TypeOK, RouteTypeOK, reqVars, gateVars, srcVars,
                        fwdVars
    <3>3. /\ cancelled'[r]
          /\ UNCHANGED <<pc, chain, idx, calls, outcome, permit, prod, emitted, src, fwd,
                         hold, out, delivered>>
      BY <2>1, <3>1, Zenon DEF ClientGone, TypeOK, RouteTypeOK, reqVars, gateVars, srcVars, fwdVars
    <3>4. /\ Taken(r)' = Taken(r) /\ Queued(r)' = Queued(r) /\ Produced(r)' = Produced(r)
          /\ Reading(r)' <=> Reading(r)
          /\ \A k : Chunk(r, k)' = Chunk(r, k)
      BY Zenon, <3>3 DEF Taken, Queued, Produced, Reading, Chunk
    <3>5. PipeAt(r)'
      BY <3>1, <3>3, <3>4 DEF PipeAt, InvAt
    <3>6. InvAt(r)'
      BY <3>1, <3>3, <3>5, Zenon DEF InvAt, PhaseAt
    <3> QED
      BY <3>1, <3>2, <3>6, SameInv, Zenon
  <2>2. ASSUME NEW p \in Providers, Expire(p) PROVE \A q \in Requests : InvAt(q)'
    <3>1. \A q \in Requests : Same(q)
      BY <2>2, Zenon DEF Expire, Same, reqVars, srcVars, fwdVars
    <3> QED
      BY <3>1, InvPointwise, SameInv, Zenon
  <2>3. ASSUME UNCHANGED vars PROVE \A q \in Requests : InvAt(q)'
    <3>1. \A q \in Requests : Same(q)
      BY <2>3, Zenon DEF vars, Same, reqVars, gateVars, srcVars, fwdVars
    <3> QED
      BY Zenon, <3>1, InvPointwise, SameInv
  <2> QED
    BY <2>1, <2>2, <2>3, RouteInv, ProduceInv, ForwardInv, ReceiveInv, Zenon DEF Next, AllSettled
<1> QED
  BY <1>1, <1>2, InvPointwise, Zenon

\* The invariant of all the goroutines of all requests: every reachable state
\* satisfies IInv.
THEOREM InvariantHolds == Spec => []IInv
BY InitInv, NextInv, PTL DEF Spec

\* Every variable of the router keeps its type, whatever the constants.
THEOREM TypeHolds == Spec => []TypeOK
<1>1. IInv => TypeOK
  BY Zenon DEF IInv
<1> QED
  BY <1>1, InvariantHolds, PTL

\* router.go pairs every breakers.allow with exactly one done callback, on every
\* path through retries, failover, peek and forwarder.
THEOREM PermitDisciplineHolds == Spec => []PermitDiscipline
<1>1. IInv => PermitDiscipline
  BY Zenon DEF IInv
<1> QED
  BY <1>1, InvariantHolds, PTL

\* What the client receives is a prefix of one provider call's chunks, whatever
\* the channel capacities, the chain and the number of retries.
THEOREM NoSpliceHolds == Spec => []NoSplice
<1>1. IInv => NoSplice
  BY Zenon DEF IInv, Pipe, PipeAt, NoSplice
<1> QED
  BY <1>1, InvariantHolds, PTL

\* [DONE] is written only at the end of a stream the provider completed and the
\* client received in full.
THEOREM CleanEndHolds == Spec => []CleanEndIsComplete
<1>1. IInv => CleanEndIsComplete
  BY Zenon DEF IInv
<1> QED
  BY <1>1, InvariantHolds, PTL

-----------------------------------------------------------------------------
\* The breaker operators of the pool are the router's.
LEMMA PoolOperators ==
  /\ \A cb : Pool!CurrentState(cb) = CurrentState(cb)
  /\ \A cb : Pool!Admits(cb) <=> Admits(cb)
  /\ \A cb : Pool!CanExpire(cb) <=> CanExpire(cb)
  /\ \A cb, c : Pool!Admit(cb, c) = Admit(cb, c)
  /\ \A cb, c, ok : Pool!AfterRequest(cb, c, ok) = AfterRequest(cb, c, ok)
  /\ Pool!NewGeneration("closed") = NewGeneration("closed")
BY DEF Pool!CurrentState, CurrentState, Pool!Admits, Admits, Pool!CanExpire, CanExpire,
       Pool!Admit, Admit, Pool!AfterRequest, AfterRequest, Pool!NewGeneration, NewGeneration,
       Pool!OnSuccess, OnSuccess, Pool!OnFailure, OnFailure, Pool!Succeed, Succeed,
       Pool!Fail, Fail, Pool!ReadyToTrip, ReadyToTrip

\* A refusal is never the step that changes the breaker: an open breaker whose
\* timeout has passed admits.
LEMMA RefusalStutters ==
  ASSUME NEW cb \in Breaker, ~Admits(CurrentState(cb))
  PROVE  CurrentState(cb) = cb
<1>1. cb.due => Admits(CurrentState(cb))
  BY BreakerSettings DEF CurrentState, NewGeneration, Admits
<1> QED
  BY <1>1, Zenon DEF CurrentState

\* A released permit is a Done step of the pool.
LEMMA DoneStep ==
  ASSUME NEW r \in Requests, NEW ok \in BOOLEAN, permit[r] \in Providers, Release(r, ok)
  PROVE  Pool!Next
<1>1. Pool!Done(r, ok)
  BY Zenon, PoolOperators DEF Release, Pool!Done
<1> QED
  BY <1>1, Zenon DEF Pool!Next

\* Every step of the router is a step of the pool, or leaves the pool alone.
LEMMA StepImplements == IInv /\ [Next]_vars => [Pool!Next]_(Pool!vars)
<1> SUFFICES ASSUME IInv, [Next]_vars PROVE Pool!Next \/ UNCHANGED <<cbs, permit>>
  BY Zenon DEF Pool!vars
<1>0. TypeOK /\ Phase /\ PermitDiscipline
  BY Zenon DEF IInv
<1>h. ASSUME NEW r \in Requests, pc[r] \in {"call", "peek"} \/ fwd[r] \in {"send", "recv"}
      PROVE  permit[r] \in Providers
  BY <1>0, <1>h, PermitHeld, Zenon
<1>o. \A e : ObservedOk(e) \in BOOLEAN
  BY Zenon DEF ObservedOk, IsRetryable
<1>1. ASSUME NEW r \in Requests, GateAdmits(r) PROVE Pool!Next
  <2> DEFINE p == chain[r][idx[r]]
  <2>1. p \in Providers /\ permit[r] = NoProvider
    BY <1>0, <1>1, ChainType DEF GateAdmits, Phase, PhaseAt, PermitDiscipline
  <2>2. Pool!Allow(r, p)
    BY Zenon, <1>1, <2>1, PoolOperators DEF GateAdmits, Pool!Allow
  <2> QED
    BY Zenon, <2>1, <2>2 DEF Pool!Next
<1>2. ASSUME NEW r \in Requests, GateRejects(r) PROVE UNCHANGED <<cbs, permit>>
  <2> DEFINE p == chain[r][idx[r]]
  <2>1. p \in Providers
    BY <1>0, <1>2, ChainType DEF GateRejects, Phase, PhaseAt
  <2>2. cbs \in [Providers -> Breaker] /\ cbs' = [cbs EXCEPT ![p] = CurrentState(cbs[p])]
    BY Zenon, <1>0, <1>2 DEF GateRejects, TypeOK, GateTypeOK
  <2>3. CurrentState(cbs[p]) = cbs[p]
    BY Zenon, <1>2, <2>1, <2>2, RefusalStutters DEF GateRejects
  <2> QED
    BY Zenon, <1>2, <2>2, <2>3 DEF GateRejects
<1>3. ASSUME NEW r \in Requests, NEW d \in CallTimes, CallSucceeds(r, d) PROVE Pool!Next
  BY Zenon, <1>3, <1>h, DoneStep DEF CallSucceeds
<1>4. ASSUME NEW r \in Requests, NEW e, NEW ra, NEW d, CallFails(r, e, ra, d) PROVE Pool!Next
  BY <1>4, <1>h, <1>o, DoneStep, Zenon DEF CallFails
<1>5. ASSUME NEW r \in Requests, PeekCancelled(r) PROVE Pool!Next
  BY Zenon, <1>5, <1>h, DoneStep DEF PeekCancelled
<1>6. ASSUME NEW r \in Requests, NEW d, PeekClosed(r, d) \/ PeekError(r, d) PROVE Pool!Next
  BY <1>6, <1>h, <1>o, DoneStep, Zenon DEF PeekClosed, PeekError
<1>7. ASSUME NEW r \in Requests, ForwardAbandons(r) \/ ForwardEnds(r) PROVE Pool!Next
  BY Zenon, <1>7, <1>h, <1>o, DoneStep DEF ForwardAbandons, ForwardEnds
<1>8. ASSUME NEW p \in Providers, Expire(p) PROVE Pool!Next
  <2>1. Pool!Expire(p)
    BY Zenon, <1>8, PoolOperators DEF Expire, Pool!Expire
  <2> QED
    BY <2>1, Zenon DEF Pool!Next
<1>9. ASSUME NEW r \in Requests,
             \/ Start(r) \/ StreamOpens(r) \/ PeekChunk(r) \/ SleepEnds(r) \/ SleepCancelled(r)
             \/ Produce(r) \/ ForwardSend(r) \/ ForwardReceive(r) \/ Receive(r) \/ ClientGone(r)
      PROVE  UNCHANGED <<cbs, permit>>
  BY <1>9, Zenon DEF Start, StreamOpens, PeekChunk, SleepEnds, SleepCancelled, Produce, ProduceChunk,
              ProduceError, ProduceEnd, ProduceCancel, ForwardSend, ForwardReceive, Receive,
              ReceiveChunk, ReceiveError, ReceiveClosed, WriteFails, ClientGone, gateVars
<1>10. UNCHANGED vars => UNCHANGED <<cbs, permit>>
  BY Zenon DEF vars, gateVars
<1> QED
  BY Zenon, <1>1, <1>2, <1>3, <1>4, <1>5, <1>6, <1>7, <1>8, <1>9, <1>10
     DEF Next, Route, CallReturns, Peek, Forward, AllSettled

\* The router implements the breaker pool: what ProviderProofs shows of the
\* pool (accounting, probe limits, no breaker left without a probe owing its
\* result) holds of the breakers under the router's retries, failovers and
\* streams.
THEOREM RouterImplementsPool == Spec => ImplementsPool
<1>1. Init => Pool!Init
  BY PoolOperators, Zenon DEF Init, Pool!Init
<1> QED
  BY <1>1, StepImplements, InvariantHolds, PTL DEF Spec, ImplementsPool, Pool!Spec

-----------------------------------------------------------------------------
\* Calls the first i providers of a chain may get.
Allowance(i) == i * (MaxRetries + 1)

\* The attempt under way is one of the calls.
Calling(r) == IF pc[r] = "gate" THEN 0 ELSE 1

\* The work done for request r so far, by the place its handler has reached: the
\* providers given up, the attempts with this one, and the time.
WorkAt(r) ==
  /\ pc[r] = "idle" => attempt[r] = 0 /\ elapsed[r] = 0
  /\ chain[r] = <<>> => calls[r] = 0
  /\ chain[r] # <<>> =>
       /\ attempt[r] <= MaxRetries
       /\ calls[r] + MaxRetries + 1 <= Allowance(idx[r]) + attempt[r] + Calling(r)
  /\ pc[r] = "sleep" => /\ attempt[r] < MaxRetries
                        /\ delay[r] \in 0..MaxBackoff \cup RetryAfters
  /\ MaxTotal > 0 =>
       /\ pc[r] = "sleep" => elapsed[r] + delay[r] <= MaxTotal
       /\ pc[r] \in {"gate", "call"} => elapsed[r] <= MaxTotal

\* The allowance grows by MaxRetries + 1 with each provider.
LEMMA AllowanceGrows ==
  ASSUME NEW i \in Nat
  PROVE  /\ Allowance(i) \in Nat /\ Allowance(i + 1) \in Nat
         /\ Allowance(i + 1) = Allowance(i) + MaxRetries + 1
BY RouterConstants DEF Allowance

\* More providers tried allow no fewer calls.
LEMMA AllowanceMonotone ==
  ASSUME NEW i \in Nat, NEW n \in Nat, i <= n
  PROVE  Allowance(i) <= Allowance(n)
BY RouterConstants DEF Allowance

\* What WorkAt looks at.
SameWork(q) ==
  /\ pc'[q] = pc[q] /\ chain'[q] = chain[q] /\ idx'[q] = idx[q] /\ calls'[q] = calls[q]
  /\ attempt'[q] = attempt[q] /\ elapsed'[q] = elapsed[q] /\ delay'[q] = delay[q]

\* A step that leaves what WorkAt looks at keeps it.
LEMMA SameWorkKeeps ==
  ASSUME NEW q \in Requests, WorkAt(q), SameWork(q)
  PROVE  WorkAt(q)'
BY Zenon DEF WorkAt, SameWork, Calling

\* A handler past the gate has its provider call counted.
LEMMA CallingCases ==
  ASSUME NEW r
  PROVE  Calling(r) \in {0, 1} /\ (pc[r] # "gate" => Calling(r) = 1)
BY Zenon DEF Calling

\* The types of what WorkAt looks at.
LEMMA WorkTypes ==
  ASSUME IInv, NEW r \in Requests
  PROVE  /\ attempt[r] \in Nat /\ calls[r] \in Nat /\ elapsed[r] \in Nat /\ delay[r] \in Nat
         /\ Len(chain[r]) \in Nat /\ idx[r] \in Nat
         /\ MaxRetries \in Nat /\ MaxTotal \in Nat
         /\ chain[r] # <<>> => idx[r] \in 1..Len(chain[r])
         /\ pc[r] = "idle" => chain[r] = <<>> /\ idx[r] = 1
         /\ pc[r] \in {"gate", "call", "peek", "sleep", "range"} => chain[r] # <<>>
BY ChainType, RouterConstants, Zenon DEF IInv, TypeOK, ReqTypeOK, Phase, PhaseAt

\* Once the handler neither calls nor waits to, the bounds stay as they are.
LEMMA StopsWork ==
  ASSUME IInv, NEW r \in Requests, WorkAt(r), pc[r] # "idle",
         pc'[r] \in {"end", "peek", "range"},
         chain'[r] = chain[r], idx'[r] = idx[r], calls'[r] = calls[r],
         attempt'[r] = attempt[r]
  PROVE  WorkAt(r)'
<1>1. idx[r] \in Nat /\ attempt[r] \in Nat /\ calls[r] \in Nat /\ MaxRetries \in Nat
  BY WorkTypes, Zenon
<1>2. Allowance(idx[r]) \in Nat
  BY <1>1, AllowanceGrows, Zenon
<1>3. Calling(r)' = 1
  BY Zenon DEF Calling
<1>4. calls[r] + MaxRetries + 1 <= Allowance(idx[r]) + attempt[r] + Calling(r)
      => calls[r] + MaxRetries + 1 <= Allowance(idx[r]) + attempt[r] + 1
  BY <1>1, <1>2, CallingCases
<1> QED
  BY <1>3, <1>4, Zenon DEF WorkAt

\* A provider is given up: its calls were at most MaxRetries + 1.
LEMMA ChainNextWork ==
  ASSUME IInv, NEW r \in Requests, WorkAt(r), pc[r] \in {"gate", "call", "peek"},
         NEW e, NEW t \in Nat, ChainNext(r, e, t),
         chain' = chain, calls' = calls, elapsed'[r] = t
  PROVE  WorkAt(r)'
<1>1. /\ pc \in [Requests -> {"idle", "gate", "call", "peek", "sleep", "range", "end"}]
      /\ idx \in [Requests -> Nat] /\ attempt \in [Requests -> Nat]
      /\ chain[r] # <<>> /\ idx[r] \in 1..Len(chain[r]) /\ Len(chain[r]) \in Nat
  BY WorkTypes, Zenon DEF IInv, TypeOK, RouteTypeOK, ReqTypeOK
<1>2. CASE LastInChain(r, t)
  BY <1>1, <1>2, StopsWork, Zenon DEF ChainNext, Finish
<1>3. CASE ~LastInChain(r, t)
  <2>1. /\ pc'[r] = "gate" /\ idx'[r] = idx[r] + 1 /\ attempt'[r] = 0
        /\ MaxTotal > 0 => t < MaxTotal
    BY <1>1, <1>3, WorkTypes DEF ChainNext, LastInChain
  <2>2. /\ Allowance(idx[r]) \in Nat /\ Allowance(idx[r] + 1) \in Nat
        /\ Allowance(idx[r] + 1) = Allowance(idx[r]) + MaxRetries + 1
    BY <1>1, AllowanceGrows, Zenon
  <2>3. attempt[r] <= MaxRetries
        /\ calls[r] + MaxRetries + 1 <= Allowance(idx[r]) + attempt[r] + Calling(r)
    BY Zenon, <1>1 DEF WorkAt
  <2>4. calls[r] <= Allowance(idx[r])
    <3>1. attempt[r] \in Nat /\ calls[r] \in Nat /\ MaxRetries \in Nat
      BY WorkTypes, Zenon
    <3> QED
      BY <2>2, <2>3, <3>1, CallingCases
  <2>5. /\ 0 <= MaxRetries /\ chain'[r] # <<>> /\ calls'[r] = calls[r] /\ Calling(r)' = 0
        /\ calls[r] + MaxRetries + 1 <= Allowance(idx[r] + 1) + 0 + 0
    <3>1. calls[r] \in Nat /\ MaxRetries \in Nat
      BY WorkTypes, Zenon
    <3>2. Calling(r)' = 0 /\ chain'[r] # <<>> /\ calls'[r] = calls[r]
      BY <1>1, <2>1, Zenon DEF Calling
    <3> QED
      BY <2>2, <2>4, <3>1, <3>2
  <2>6. MaxTotal > 0 => t <= MaxTotal
    <3>1. MaxTotal \in Nat
      BY WorkTypes, Zenon
    <3> QED
      BY <2>1, <3>1
  <2> QED
    BY <2>1, <2>5, <2>6, Zenon DEF WorkAt
<1> QED
  BY <1>2, <1>3, Zenon

\* So does a failed attempt, which otherwise sleeps within the time budget.
LEMMA AttemptFailedWork ==
  ASSUME IInv, NEW r \in Requests, WorkAt(r), pc[r] \in {"call", "peek"},
         NEW e, NEW ra \in RetryAfters \cup {0}, NEW d \in CallTimes,
         AttemptFailed(r, e, ra, d)
  PROVE  WorkAt(r)'
<1> DEFINE t == elapsed[r] + d
<1>1. /\ t \in Nat /\ elapsed'[r] = t /\ chain' = chain /\ calls' = calls
      /\ pc \in [Requests -> {"idle", "gate", "call", "peek", "sleep", "range", "end"}]
      /\ delay \in [Requests -> Nat] /\ attempt \in [Requests -> Nat]
      /\ chain[r] # <<>>
  <2>1. d \in Nat /\ elapsed \in [Requests -> Nat]
    BY RouterConstants, Zenon DEF IInv, TypeOK, ReqTypeOK
  <2>2. elapsed' = [elapsed EXCEPT ![r] = t] /\ chain' = chain /\ calls' = calls
    BY Zenon DEF AttemptFailed
  <2>3. t \in Nat
    BY <2>1
  <2> QED
    BY <2>1, <2>2, <2>3, WorkTypes, Zenon DEF IInv, TypeOK, RouteTypeOK, ReqTypeOK
<1> HIDE DEF t
<1>2. CASE Finish(r, e) /\ UNCHANGED <<idx, attempt, delay>>
  BY <1>1, <1>2, StopsWork, Zenon DEF Finish
<1>3. CASE ChainNext(r, e, t)
  BY <1>1, <1>3, ChainNextWork, Zenon
<1>4. CASE \E w \in BackoffDelays(attempt[r] + 1, ra) :
             /\ attempt[r] < MaxRetries /\ ~Overruns(t, w)
             /\ delay' = [delay EXCEPT ![r] = w]
             /\ pc' = [pc EXCEPT ![r] = "sleep"]
             /\ UNCHANGED <<idx, attempt>>
  <2>1. PICK w \in BackoffDelays(attempt[r] + 1, ra) :
             /\ attempt[r] < MaxRetries /\ ~Overruns(t, w)
             /\ delay' = [delay EXCEPT ![r] = w]
             /\ pc' = [pc EXCEPT ![r] = "sleep"]
             /\ UNCHANGED <<idx, attempt>>
    BY Zenon, <1>4
  <2>2. /\ pc'[r] = "sleep" /\ delay'[r] = w /\ attempt[r] < MaxRetries
        /\ MaxTotal > 0 => ~(t + w > MaxTotal)
    BY <1>1, <2>1, Zenon DEF Overruns
  <2>3. w \in Nat /\ w \in 0..MaxBackoff \cup RetryAfters
    <3>1. attempt[r] + 1 \in Nat \ {0}
      BY <1>1
    <3> QED
      BY <2>1, <3>1, BackoffType, Zenon
  <2>4. MaxTotal > 0 => t + w <= MaxTotal
    BY <1>1, <2>2, <2>3, WorkTypes
  <2> QED
    BY <1>1, <2>1, <2>2, <2>3, <2>4, WorkTypes, CallingCases, Zenon DEF WorkAt, Calling
<1> QED
  BY <1>2, <1>3, <1>4, Zenon DEF AttemptFailed, t

\* The other requests, at a failed attempt or a refusal.
LEMMA OthersWork ==
  ASSUME IInv, NEW r \in Requests, NEW q \in Requests \ {r}, NEW e, NEW ra, NEW d, NEW t,
         \/ AttemptFailed(r, e, ra, d)
         \/ ChainNext(r, e, t) /\ UNCHANGED <<chain, calls, elapsed>>
  PROVE  SameWork(q)
<1>1. /\ pc \in [Requests -> {"idle", "gate", "call", "peek", "sleep", "range", "end"}]
      /\ idx \in [Requests -> Nat] /\ attempt \in [Requests -> Nat]
      /\ elapsed \in [Requests -> Nat] /\ delay \in [Requests -> Nat]
  BY Zenon DEF IInv, TypeOK, RouteTypeOK, ReqTypeOK
<1>2. ASSUME NEW s, ChainNext(r, e, s)
      PROVE  /\ pc'[q] = pc[q] /\ idx'[q] = idx[q]
             /\ attempt'[q] = attempt[q] /\ delay'[q] = delay[q]
  BY <1>1, <1>2, Zenon DEF ChainNext, Finish
<1>3. CASE ChainNext(r, e, t) /\ UNCHANGED <<chain, calls, elapsed>>
  BY <1>2, <1>3, Zenon DEF SameWork
<1>4. CASE AttemptFailed(r, e, ra, d)
  <2>1. elapsed'[q] = elapsed[q] /\ chain' = chain /\ calls' = calls
    BY <1>1, <1>4, Zenon DEF AttemptFailed
  <2>2. \/ Finish(r, e) /\ UNCHANGED <<idx, attempt, delay>>
        \/ ChainNext(r, e, elapsed[r] + d)
        \/ \E w : /\ delay' = [delay EXCEPT ![r] = w] /\ pc' = [pc EXCEPT ![r] = "sleep"]
                  /\ UNCHANGED <<idx, attempt>>
    BY <1>4, Zenon DEF AttemptFailed
  <2>3. pc'[q] = pc[q] /\ idx'[q] = idx[q] /\ attempt'[q] = attempt[q] /\ delay'[q] = delay[q]
    BY <1>1, <1>2, <2>2, Zenon DEF Finish
  <2> QED
    BY <2>1, <2>3, Zenon DEF SameWork
<1> QED
  BY <1>3, <1>4, Zenon

\* A step of the router loop keeps the work of its request within the bounds and
\* leaves the other requests alone.
LEMMA RouteWork ==
  ASSUME IInv, NEW r \in Requests, WorkAt(r), Route(r)
  PROVE  WorkAt(r)' /\ \A q \in Requests \ {r} : SameWork(q)
<1>1. /\ pc \in [Requests -> {"idle", "gate", "call", "peek", "sleep", "range", "end"}]
      /\ idx \in [Requests -> Nat] /\ attempt \in [Requests -> Nat]
      /\ elapsed \in [Requests -> Nat] /\ delay \in [Requests -> Nat]
      /\ calls \in [Requests -> Nat] /\ chain \in [Requests -> Chains \cup {<<>>}]
  BY Zenon DEF IInv, TypeOK, RouteTypeOK, ReqTypeOK
<1>2. ASSUME Start(r) PROVE WorkAt(r)' /\ \A q \in Requests \ {r} : SameWork(q)
  <2>1. /\ idx'[r] = 1 /\ attempt'[r] = 0 /\ calls'[r] = 0 /\ elapsed'[r] = 0
        /\ MaxRetries \in Nat /\ MaxTotal \in Nat
    BY <1>2, WorkTypes, Zenon DEF Start, WorkAt
  <2>2. Allowance(1) = MaxRetries + 1
    BY <2>1 DEF Allowance
  <2>3. pc'[r] = "gate" \/ (pc'[r] = "end" /\ chain'[r] = <<>>)
    BY <1>1, <1>2, Zenon DEF Start, Finish
  <2>4. WorkAt(r)'
    BY <2>1, <2>2, <2>3 DEF WorkAt, Calling
  <2>5. \A q \in Requests \ {r} : SameWork(q)
    BY <1>1, <1>2, Zenon DEF Start, Finish, SameWork
  <2> QED
    BY <2>4, <2>5, Zenon
<1>3. ASSUME GateAdmits(r) PROVE WorkAt(r)' /\ \A q \in Requests \ {r} : SameWork(q)
  <2>1. /\ pc[r] = "gate" /\ pc'[r] = "call" /\ calls'[r] = calls[r] + 1
        /\ UNCHANGED <<chain, idx, attempt, elapsed, delay>>
    BY <1>1, <1>3, Zenon DEF GateAdmits
  <2>2. chain[r] # <<>> /\ Allowance(idx[r]) \in Nat
    BY <2>1, WorkTypes, AllowanceGrows, Zenon
  <2>3. WorkAt(r)'
    <3>1. Calling(r) = 0 /\ Calling(r)' = 1
      BY <2>1, Zenon DEF Calling
    <3>2. /\ attempt[r] \in Nat /\ calls[r] \in Nat /\ MaxRetries \in Nat
      BY WorkTypes, Zenon
    <3>3. calls[r] + MaxRetries + 1 <= Allowance(idx[r]) + attempt[r] + 0
          => calls[r] + 1 + MaxRetries + 1 <= Allowance(idx[r]) + attempt[r] + 1
      BY <2>2, <3>2
    <3> QED
      BY <2>1, <2>2, <3>1, <3>3, Zenon DEF WorkAt
  <2>4. \A q \in Requests \ {r} : SameWork(q)
    BY <1>1, <1>3, Zenon DEF GateAdmits, SameWork
  <2> QED
    BY <2>3, <2>4, Zenon
<1>4. ASSUME GateRejects(r) PROVE WorkAt(r)' /\ \A q \in Requests \ {r} : SameWork(q)
  <2>1. /\ pc[r] = "gate" /\ ChainNext(r, "breaker", elapsed[r]) /\ elapsed[r] \in Nat
        /\ UNCHANGED <<chain, calls, elapsed>>
    BY <1>1, <1>4, Zenon DEF GateRejects
  <2>2. WorkAt(r)'
    BY <2>1, ChainNextWork, Zenon
  <2> QED
    BY <2>1, <2>2, OthersWork, Zenon
<1>5. ASSUME NEW e, NEW ra \in RetryAfters \cup {0}, NEW d \in CallTimes,
             pc[r] \in {"call", "peek"}, AttemptFailed(r, e, ra, d)
      PROVE  WorkAt(r)' /\ \A q \in Requests \ {r} : SameWork(q)
  BY <1>5, AttemptFailedWork, OthersWork, Zenon
<1>6. ASSUME pc[r] # "idle", UNCHANGED <<chain, idx, attempt, calls, delay>>,
             NEW s \in {"end", "peek", "range"}, pc' = [pc EXCEPT ![r] = s],
             \A q \in Requests \ {r} : elapsed'[q] = elapsed[q]
      PROVE  WorkAt(r)' /\ \A q \in Requests \ {r} : SameWork(q)
  <2>1. pc'[r] \in {"end", "peek", "range"}
    BY <1>1, <1>6, Zenon
  <2>2. WorkAt(r)'
    BY <1>6, <2>1, StopsWork, Zenon
  <2> QED
    BY <1>1, <1>6, <2>2, Zenon DEF SameWork
<1>7. ASSUME CallReturns(r) PROVE WorkAt(r)' /\ \A q \in Requests \ {r} : SameWork(q)
  <2>1. PICK d \in CallTimes : \/ CallSucceeds(r, d)
                               \/ \E ra \in RetryAfters : CallFails(r, "retryable", ra, d)
                               \/ \E e \in {"fatal", "canceled"} : CallFails(r, e, 0, d)
    BY Zenon, <1>7 DEF CallReturns
  <2>2. CASE CallSucceeds(r, d)
    BY <1>1, <1>6, <2>2, Zenon DEF CallSucceeds, Finish
  <2>3. ASSUME NEW e, NEW ra \in RetryAfters \cup {0}, CallFails(r, e, ra, d)
        PROVE  WorkAt(r)' /\ \A q \in Requests \ {r} : SameWork(q)
    BY <1>5, <2>3, Zenon DEF CallFails
  <2> QED
    BY Zenon, <2>1, <2>2, <2>3
<1>8. ASSUME StreamOpens(r) PROVE WorkAt(r)' /\ \A q \in Requests \ {r} : SameWork(q)
  BY <1>6, <1>8, Zenon DEF StreamOpens, reqVars
<1>9. ASSUME Peek(r) PROVE WorkAt(r)' /\ \A q \in Requests \ {r} : SameWork(q)
  <2>1. CASE PeekCancelled(r)
    BY <1>6, <2>1, Zenon DEF PeekCancelled, Finish, reqVars
  <2>2. CASE PeekChunk(r)
    BY <1>6, <2>2, Zenon DEF PeekChunk, reqVars
  <2>3. ASSUME NEW d \in CallTimes, PeekClosed(r, d)
        PROVE  WorkAt(r)' /\ \A q \in Requests \ {r} : SameWork(q)
    BY <1>5, <2>3, Zenon DEF PeekClosed
  <2>4. ASSUME NEW d \in CallTimes, PeekError(r, d)
        PROVE  WorkAt(r)' /\ \A q \in Requests \ {r} : SameWork(q)
    BY <1>5, <2>4, Zenon DEF PeekError
  <2> QED
    BY Zenon, <1>9, <2>1, <2>2, <2>3, <2>4 DEF Peek
<1>10. ASSUME SleepEnds(r) PROVE WorkAt(r)' /\ \A q \in Requests \ {r} : SameWork(q)
  <2>1. /\ pc[r] = "sleep" /\ pc'[r] = "gate" /\ attempt'[r] = attempt[r] + 1
        /\ elapsed'[r] = elapsed[r] + delay[r] /\ UNCHANGED <<chain, idx, calls>>
    BY <1>1, <1>10, Zenon DEF SleepEnds
  <2>2. chain[r] # <<>> /\ Allowance(idx[r]) \in Nat
    BY <2>1, WorkTypes, AllowanceGrows, Zenon
  <2>3. WorkAt(r)'
    <3>1. Calling(r) = 1 /\ Calling(r)' = 0
      BY <2>1, Zenon DEF Calling
    <3>2. /\ attempt[r] \in Nat /\ calls[r] \in Nat /\ MaxRetries \in Nat
      BY WorkTypes, Zenon
    <3>3. /\ calls[r] + MaxRetries + 1 <= Allowance(idx[r]) + attempt[r] + 1
             => calls[r] + MaxRetries + 1 <= Allowance(idx[r]) + (attempt[r] + 1) + 0
          /\ attempt[r] < MaxRetries => attempt[r] + 1 <= MaxRetries
      BY <2>2, <3>2
    <3> QED
      BY <2>1, <2>2, <3>1, <3>3, Zenon DEF WorkAt
  <2>4. \A q \in Requests \ {r} : SameWork(q)
    BY <1>1, <1>10, Zenon DEF SleepEnds, SameWork
  <2> QED
    BY <2>3, <2>4, Zenon
<1>11. ASSUME SleepCancelled(r) PROVE WorkAt(r)' /\ \A q \in Requests \ {r} : SameWork(q)
  BY <1>6, <1>11, Zenon DEF SleepCancelled, Finish, reqVars
<1> QED
  BY Zenon, <1>2, <1>3, <1>4, <1>7, <1>8, <1>9, <1>10, <1>11 DEF Route

\* The handler's loop ends without calling, and no other step touches the work.
LEMMA OtherStepsWork ==
  ASSUME IInv, \A q \in Requests : WorkAt(q), [Next]_vars,
         ~\E r \in Requests : Route(r)
  PROVE  \A q \in Requests : WorkAt(q)'
<1>1. pc \in [Requests -> {"idle", "gate", "call", "peek", "sleep", "range", "end"}]
  BY Zenon DEF IInv, TypeOK, RouteTypeOK
<1>2. ASSUME NEW r \in Requests, pc[r] = "range", pc' = [pc EXCEPT ![r] = "end"],
             UNCHANGED reqVars
      PROVE  \A q \in Requests : WorkAt(q)'
  <2>1. \A q \in Requests \ {r} : SameWork(q)
    BY <1>1, <1>2, Zenon DEF SameWork, reqVars
  <2>2. WorkAt(r)'
    BY <1>1, <1>2, StopsWork, Zenon DEF reqVars
  <2> QED
    BY <2>1, <2>2, SameWorkKeeps, Zenon
<1>3. ASSUME UNCHANGED <<pc, reqVars>> PROVE \A q \in Requests : WorkAt(q)'
  <2>1. \A q \in Requests : SameWork(q)
    BY <1>3, Zenon DEF SameWork, reqVars
  <2> QED
    BY <2>1, SameWorkKeeps, Zenon
<1>4. ASSUME NEW r \in Requests, Produce(r) PROVE UNCHANGED <<pc, reqVars>>
  BY Zenon, <1>4 DEF Produce, ProduceChunk, ProduceEnd, ProduceCancel, ProduceError
<1>5. ASSUME NEW r \in Requests, Forward(r) PROVE UNCHANGED <<pc, reqVars>>
  BY Zenon, <1>5 DEF Forward, ForwardSend, ForwardAbandons, ForwardReceive, ForwardEnds
<1>6. ASSUME NEW r \in Requests, Receive(r)
      PROVE  \/ UNCHANGED <<pc, reqVars>>
             \/ pc[r] = "range" /\ pc' = [pc EXCEPT ![r] = "end"] /\ UNCHANGED reqVars
  BY Zenon, <1>6 DEF Receive, ReceiveChunk, ReceiveError, ReceiveClosed, WriteFails, Finish
<1>7. ASSUME NEW r \in Requests, ClientGone(r) PROVE UNCHANGED <<pc, reqVars>>
  BY Zenon, <1>7 DEF ClientGone
<1>8. ASSUME NEW p \in Providers, Expire(p) PROVE UNCHANGED <<pc, reqVars>>
  BY Zenon, <1>8 DEF Expire
<1>9. ASSUME UNCHANGED vars PROVE UNCHANGED <<pc, reqVars>>
  BY Zenon, <1>9 DEF vars
<1> QED
  BY Zenon, <1>2, <1>3, <1>4, <1>5, <1>6, <1>7, <1>8, <1>9 DEF Next, AllSettled

\* Retry count, chain length, backoff and time budget bound the work for every
\* request, whatever the chains, the policy, the width of time.Duration, the
\* Retry-After values and the interleaving: at most MaxRetries + 1 calls per
\* provider, no wait above MaxBackoff unless asked for, no call after MaxTotal.
THEOREM WorkBoundedHolds == Spec => []WorkBounded
<1> DEFINE Work == \A r \in Requests : WorkAt(r)
<1>1. Init => Work
  BY RouterConstants DEF Init, WorkAt
<1>2. IInv /\ Work /\ [Next]_vars => Work'
  <2> SUFFICES ASSUME IInv, Work, [Next]_vars PROVE \A q \in Requests : WorkAt(q)'
    BY Zenon
  <2>1. ASSUME NEW r \in Requests, Route(r) PROVE \A q \in Requests : WorkAt(q)'
    BY <2>1, RouteWork, SameWorkKeeps, Zenon
  <2>2. CASE ~\E r \in Requests : Route(r)
    BY <2>2, OtherStepsWork, Zenon
  <2> QED
    BY <2>1, <2>2, Zenon
<1>3. IInv /\ Work => WorkBounded
  <2> SUFFICES ASSUME IInv, Work, NEW r \in Requests
               PROVE  /\ calls[r] <= Len(chain[r]) * (MaxRetries + 1)
                      /\ pc[r] = "sleep" => delay[r] \in 0..MaxBackoff \cup RetryAfters
                      /\ pc[r] = "call" /\ MaxTotal > 0 => elapsed[r] <= MaxTotal
    BY Zenon DEF WorkBounded
  <2>1. CASE chain[r] = <<>>
    BY <2>1, WorkTypes DEF WorkAt
  <2>2. CASE chain[r] # <<>>
    <3>1. /\ Allowance(idx[r]) \in Nat /\ Allowance(Len(chain[r])) \in Nat
          /\ Allowance(idx[r]) <= Allowance(Len(chain[r]))
      <4>1. idx[r] \in Nat /\ Len(chain[r]) \in Nat /\ idx[r] <= Len(chain[r])
        BY <2>2, WorkTypes
      <4> QED
        BY <4>1, AllowanceGrows, AllowanceMonotone, Zenon
    <3>2. calls[r] <= Allowance(Len(chain[r]))
      <4>1. /\ calls[r] + MaxRetries + 1 <= Allowance(idx[r]) + attempt[r] + Calling(r)
            /\ attempt[r] <= MaxRetries
        BY <2>2, Zenon DEF WorkAt
      <4>2. /\ attempt[r] \in Nat /\ calls[r] \in Nat /\ MaxRetries \in Nat
        BY WorkTypes, Zenon
      <4>3. calls[r] <= Allowance(idx[r])
        BY <3>1, <4>1, <4>2, CallingCases
      <4> QED
        BY <3>1, <4>2, <4>3
    <3> QED
      BY <2>2, <3>2, WorkTypes, Zenon DEF WorkAt, Allowance
  <2> QED
    BY <2>1, <2>2, Zenon
<1> QED
  BY <1>1, <1>2, <1>3, InvariantHolds, PTL DEF Spec

-----------------------------------------------------------------------------
\* The events in a channel: only chunks, an error only as the last one, and a
\* retryable error among them.
AllChunks(s) == \A i \in 1..Len(s) : s[i].kind = "chunk"
ErrorsLast(s) == \A i \in 1..Len(s) : s[i].kind # "chunk" => i = Len(s)
Retryable(s) == \E i \in 1..Len(s) : s[i].kind = "retryable"

\* The forwarder has sent a retryable error, its last event, and reports it.
Reports(r) ==
  /\ fwd[r] \in {"recv", "end"} /\ Len(src[r]) = 0 /\ prod[r] = "err"
  /\ lastErr[r] = "retryable"
  /\ fwd[r] = "end" => verdict[r] = "fail"

\* A provider's error is the last event of its stream, and it reaches the breaker
\* before or after, but never without, the client.
VerdictAt(r) ==
  /\ prod[r] # "err" => /\ lastErr[r] = "none" /\ AllChunks(src[r])
                        /\ fwd[r] = "send" => hold[r].kind = "chunk"
  /\ ErrorsLast(src[r])
  /\ fwd[r] = "send" /\ hold[r].kind # "chunk" => Len(src[r]) = 0
  /\ Retryable(out[r]) => Reports(r)
  /\ fwd[r] # "none" /\ outcome[r] = "retryable" => Reports(r)
  /\ fwd[r] = "end" /\ verdict[r] = "fail" => prod[r] = "err"
  /\ fwd[r] = "none" => lastErr[r] = "none"

\* The three predicates on channels, when an event is sent and when one is taken.
LEMMA ChannelEmpty == AllChunks(<<>>) /\ ErrorsLast(<<>>) /\ ~Retryable(<<>>)
BY DEF AllChunks, ErrorsLast, Retryable

\* A send puts the event at the end of the channel.
LEMMA ChannelAppend ==
  ASSUME NEW s \in Seq(Events), NEW x \in Events
  PROVE  /\ AllChunks(s) /\ x.kind = "chunk" => AllChunks(Append(s, x))
         /\ AllChunks(s) => ErrorsLast(Append(s, x))
         /\ Retryable(Append(s, x)) => Retryable(s) \/ x.kind = "retryable"
<1>1. /\ \A i \in 1..Len(Append(s, x)) : i \in 1..Len(s) \/ i = Len(s) + 1
      /\ Len(Append(s, x)) = Len(s) + 1
  BY AppendFacts
<1>2. \A i \in 1..Len(s) : Append(s, x)[i] = s[i]
  BY AppendFacts, Zenon
<1>3. \A i \in 1..Len(Append(s, x)) :
        \/ Append(s, x)[i] = x /\ i = Len(s) + 1
        \/ i \in 1..Len(s) /\ Append(s, x)[i] = s[i]
  <2> SUFFICES ASSUME NEW i \in 1..Len(Append(s, x))
               PROVE  \/ Append(s, x)[i] = x /\ i = Len(s) + 1
                      \/ i \in 1..Len(s) /\ Append(s, x)[i] = s[i]
    BY Zenon
  <2>1. CASE i \in 1..Len(s)
    BY Zenon, <1>2, <2>1
  <2>2. CASE i = Len(s) + 1
    BY <2>2, AppendFacts, Zenon
  <2> QED
    BY Zenon, <1>1, <2>1, <2>2
<1>4. AllChunks(s) /\ x.kind = "chunk" => AllChunks(Append(s, x))
  BY Zenon, <1>3 DEF AllChunks
<1>5. AllChunks(s) => ErrorsLast(Append(s, x))
  BY Zenon, <1>1, <1>3 DEF AllChunks, ErrorsLast
<1>6. Retryable(Append(s, x)) => Retryable(s) \/ x.kind = "retryable"
  BY Zenon, <1>3 DEF Retryable
<1> QED
  BY <1>4, <1>5, <1>6, Zenon

\* A receive takes the first event and leaves the others in order.
LEMMA ChannelTail ==
  ASSUME NEW s \in Seq(Events), s # <<>>
  PROVE  /\ Head(s) \in Events /\ Len(s) # 0
         /\ AllChunks(s) => AllChunks(Tail(s)) /\ Head(s).kind = "chunk"
         /\ ErrorsLast(s) => ErrorsLast(Tail(s))
         /\ ErrorsLast(s) /\ Head(s).kind # "chunk" => Len(Tail(s)) = 0
         /\ Retryable(Tail(s)) => Retryable(s)
         /\ Head(s).kind = "retryable" => Retryable(s)
<1>1. /\ Head(s) \in Events /\ Len(s) \in Nat /\ Len(s) >= 1 /\ Head(s) = s[1]
      /\ Len(Tail(s)) = Len(s) - 1 /\ Tail(s) \in Seq(Events)
      /\ \A i \in 1..Len(Tail(s)) : i + 1 \in 1..Len(s) /\ Tail(s)[i] = s[i + 1]
  BY HeadTail
<1>2. /\ AllChunks(s) => AllChunks(Tail(s)) /\ Head(s).kind = "chunk"
      /\ Head(s).kind = "retryable" => Retryable(s)
  BY <1>1 DEF AllChunks, Retryable
<1>3. ErrorsLast(s) => ErrorsLast(Tail(s))
  <2> SUFFICES ASSUME ErrorsLast(s), NEW i \in 1..Len(Tail(s)), Tail(s)[i].kind # "chunk"
               PROVE  i = Len(Tail(s))
    BY Zenon DEF ErrorsLast
  <2>1. i + 1 \in 1..Len(s) /\ s[i + 1].kind # "chunk"
    BY <1>1, Zenon
  <2>2. i + 1 = Len(s)
    BY Zenon, <2>1 DEF ErrorsLast
  <2>3. Len(s) \in Nat /\ Len(Tail(s)) = Len(s) - 1 /\ i \in Int
    BY <1>1
  <2> QED
    BY <2>2, <2>3
<1>4. ErrorsLast(s) /\ Head(s).kind # "chunk" => Len(Tail(s)) = 0
  <2> SUFFICES ASSUME ErrorsLast(s), Head(s).kind # "chunk" PROVE Len(Tail(s)) = 0
    BY Zenon
  <2>1. 1 \in 1..Len(s) /\ s[1].kind # "chunk"
    BY <1>1
  <2>2. 1 = Len(s)
    BY Zenon, <2>1 DEF ErrorsLast
  <2>3. Len(Tail(s)) = Len(s) - 1
    BY <1>1, Zenon
  <2> QED
    BY <2>2, <2>3
<1>5. Retryable(Tail(s)) => Retryable(s)
  BY <1>1, Zenon DEF Retryable
<1> QED
  BY <1>1, <1>2, <1>3, <1>4, <1>5

\* A step of one request leaves what VerdictAt looks at in the others alone.
SameVerdict(q) ==
  /\ prod'[q] = prod[q] /\ src'[q] = src[q] /\ fwd'[q] = fwd[q] /\ hold'[q] = hold[q]
  /\ lastErr'[q] = lastErr[q] /\ out'[q] = out[q] /\ outcome'[q] = outcome[q]
  /\ verdict'[q] = verdict[q]

\* A step that leaves what VerdictAt looks at keeps it.
LEMMA SameVerdictKeeps ==
  ASSUME NEW q \in Requests, VerdictAt(q), SameVerdict(q)
  PROVE  VerdictAt(q)'
BY Zenon DEF VerdictAt, SameVerdict, Reports

\* The types of what VerdictAt looks at.
LEMMA VerdictTypes ==
  ASSUME IInv
  PROVE  /\ outcome \in [Requests -> {"none", "nochain", "ok", "breaker", "retryable",
                                      "fatal", "canceled"}]
         /\ verdict \in [Requests -> {"none", "ok", "fail"}]
         /\ prod \in [Requests -> {"none", "run", "done", "err", "cancel"}]
         /\ src \in [Requests -> Seq(Events)]
         /\ fwd \in [Requests -> {"none", "send", "recv", "end"}]
         /\ hold \in [Requests -> Events]
         /\ lastErr \in [Requests -> {"none", "retryable", "fatal"}]
         /\ out \in [Requests -> Seq(Events)]
BY Zenon DEF IInv, TypeOK, RouteTypeOK, GateTypeOK, SrcTypeOK, FwdTypeOK

\* Before a stream is committed there is no forwarder and nothing to report.
LEMMA BeforeStreamVerdict ==
  ASSUME IInv, \A q \in Requests : VerdictAt(q), NEW r \in Requests,
         pc[r] \in {"idle", "gate", "call", "peek", "sleep"}, UNCHANGED fwdVars,
         prod'[r] # "err" => AllChunks(src'[r]), ErrorsLast(src'[r]),
         \A q \in Requests \ {r} : /\ src'[q] = src[q] /\ prod'[q] = prod[q]
                                   /\ verdict'[q] = verdict[q] /\ outcome'[q] = outcome[q]
  PROVE  \A q \in Requests : VerdictAt(q)'
<1>1. fwd[r] = "none" /\ out[r] = <<>>
  BY InvPointwise, NotCommitted, Zenon
<1>2. VerdictAt(r)'
  BY <1>1, ChannelEmpty, Zenon DEF VerdictAt, fwdVars
<1>3. \A q \in Requests \ {r} : SameVerdict(q)
  BY Zenon DEF SameVerdict, fwdVars
<1> QED
  BY <1>2, <1>3, SameVerdictKeeps, Zenon

\* A refusal or a failed attempt ends no other request.
LEMMA OthersOutcome ==
  ASSUME IInv, NEW r \in Requests, NEW e, NEW ra, NEW d, NEW t,
         ChainNext(r, e, t) \/ AttemptFailed(r, e, ra, d)
  PROVE  \A q \in Requests \ {r} : outcome'[q] = outcome[q]
<1>1. ASSUME NEW s, ChainNext(r, e, s) PROVE \A q \in Requests \ {r} : outcome'[q] = outcome[q]
  BY <1>1, VerdictTypes, Zenon DEF ChainNext, Finish
<1>2. CASE AttemptFailed(r, e, ra, d)
  <2>1. Finish(r, e) \/ ChainNext(r, e, elapsed[r] + d) \/ outcome' = outcome
    BY <1>2, Zenon DEF AttemptFailed
  <2> QED
    BY <1>1, <2>1, VerdictTypes, Zenon DEF Finish
<1> QED
  BY <1>1, <1>2, Zenon

\* Steps of the handler inside the router.
LEMMA RouteVerdict ==
  ASSUME IInv, \A q \in Requests : VerdictAt(q), NEW r \in Requests, Route(r)
  PROVE  \A q \in Requests : VerdictAt(q)'
<1>1. ASSUME pc[r] \in {"idle", "gate", "call", "peek", "sleep"},
             UNCHANGED <<srcVars, fwdVars>>,
             \A q \in Requests \ {r} : verdict'[q] = verdict[q] /\ outcome'[q] = outcome[q]
      PROVE  \A q \in Requests : VerdictAt(q)'
  <2>1. (prod'[r] # "err" => AllChunks(src'[r])) /\ ErrorsLast(src'[r])
    BY Zenon, <1>1 DEF VerdictAt, srcVars
  <2>2. prod' = prod /\ src' = src /\ UNCHANGED fwdVars
    BY <1>1, Zenon DEF srcVars
  <2> QED
    BY <1>1, <2>1, <2>2, BeforeStreamVerdict, Zenon
<1>2. ASSUME NEW ok, Release(r, ok) PROVE \A q \in Requests \ {r} : verdict'[q] = verdict[q]
  BY <1>2, VerdictTypes, Zenon DEF Release
<1>3. ASSUME NEW e, Finish(r, e) PROVE \A q \in Requests \ {r} : outcome'[q] = outcome[q]
  BY <1>3, VerdictTypes, Zenon DEF Finish
<1>4. CASE Start(r)
  BY <1>1, <1>3, <1>4, Zenon DEF Start, gateVars
<1>5. CASE GateAdmits(r)
  BY <1>1, <1>5, VerdictTypes, Zenon DEF GateAdmits
<1>6. CASE GateRejects(r)
  BY <1>1, <1>6, OthersOutcome, Zenon DEF GateRejects
<1>7. CASE CallReturns(r)
  <2>1. ASSUME NEW d, CallSucceeds(r, d) PROVE \A q \in Requests : VerdictAt(q)'
    BY <1>1, <1>2, <1>3, <2>1, Zenon DEF CallSucceeds
  <2>2. ASSUME NEW e, NEW ra, NEW d, CallFails(r, e, ra, d)
        PROVE  \A q \in Requests : VerdictAt(q)'
    BY <1>1, <1>2, <2>2, OthersOutcome, Zenon DEF CallFails
  <2> QED
    BY Zenon, <1>7, <2>1, <2>2 DEF CallReturns
<1>8. CASE StreamOpens(r)
  <2>1. /\ prod'[r] = "run" /\ src'[r] = <<>>
        /\ \A q \in Requests \ {r} : prod'[q] = prod[q] /\ src'[q] = src[q]
    BY <1>8, VerdictTypes, Zenon DEF StreamOpens
  <2> QED
    BY <1>8, <2>1, BeforeStreamVerdict, ChannelEmpty, Zenon DEF StreamOpens, gateVars
<1>9. CASE PeekCancelled(r)
  BY <1>1, <1>2, <1>3, <1>9, Zenon DEF PeekCancelled
<1>10. ASSUME NEW d, PeekClosed(r, d) PROVE \A q \in Requests : VerdictAt(q)'
  BY <1>1, <1>2, <1>10, OthersOutcome, Zenon DEF PeekClosed
<1>11. ASSUME NEW d, PeekError(r, d) PROVE \A q \in Requests : VerdictAt(q)'
  <2>1. /\ pc[r] = "peek" /\ src[r] # <<>> /\ src[r] \in Seq(Events) /\ src'[r] = Tail(src[r])
        /\ \A q \in Requests \ {r} : src'[q] = src[q]
        /\ UNCHANGED <<prod, fwdVars>>
    BY <1>11, VerdictTypes, Zenon DEF PeekError
  <2>2. \A q \in Requests \ {r} : verdict'[q] = verdict[q] /\ outcome'[q] = outcome[q]
    BY <1>2, <1>11, OthersOutcome, Zenon DEF PeekError
  <2>3. (prod'[r] # "err" => AllChunks(src'[r])) /\ ErrorsLast(src'[r])
    BY <2>1, ChannelTail, Zenon DEF VerdictAt
  <2> QED
    BY <2>1, <2>2, <2>3, BeforeStreamVerdict, Zenon
<1>12. CASE PeekChunk(r)
  <2>1. /\ fwd[r] = "none" /\ out[r] = <<>> /\ outcome[r] = "none"
    BY <1>12, InvPointwise, NotCommitted, Zenon DEF PeekChunk
  <2>2. /\ src[r] # <<>> /\ src[r] \in Seq(Events) /\ src'[r] = Tail(src[r])
        /\ hold'[r] = Head(src[r]) /\ Head(src[r]).kind = "chunk" /\ fwd'[r] = "send"
        /\ UNCHANGED <<outcome, verdict, prod, lastErr, out>>
        /\ \A q \in Requests \ {r} : SameVerdict(q)
    BY <1>12, VerdictTypes DEF PeekChunk, SameVerdict, gateVars
  <2>3. VerdictAt(r)'
    BY <2>1, <2>2, ChannelTail, ChannelEmpty, Zenon DEF VerdictAt
  <2> QED
    BY <2>2, <2>3, SameVerdictKeeps, Zenon
<1>13. CASE SleepEnds(r)
  BY <1>1, <1>13, Zenon DEF SleepEnds, gateVars
<1>14. CASE SleepCancelled(r)
  BY <1>1, <1>3, <1>14, Zenon DEF SleepCancelled, gateVars
<1> QED
  BY Zenon, <1>4, <1>5, <1>6, <1>7, <1>8, <1>9, <1>10, <1>11, <1>12, <1>13, <1>14
     DEF Route, Peek

\* Steps of the producer: an error is the last event it sends.
LEMMA ProduceVerdict ==
  ASSUME IInv, \A q \in Requests : VerdictAt(q), NEW r \in Requests, Produce(r)
  PROVE  \A q \in Requests : VerdictAt(q)'
<1>1. /\ prod[r] = "run" /\ UNCHANGED <<outcome, verdict, fwd, hold, lastErr, out>>
      /\ \A q \in Requests \ {r} : prod'[q] = prod[q] /\ src'[q] = src[q]
  BY VerdictTypes, Zenon DEF Produce, ProduceChunk, ProduceEnd, ProduceCancel, ProduceError, gateVars,
                      fwdVars
<1>2. /\ prod'[r] # "err" => AllChunks(src'[r])
      /\ ErrorsLast(src'[r])
  <2>1. AllChunks(src[r]) /\ ErrorsLast(src[r])
    BY <1>1, Zenon DEF VerdictAt
  <2>2. CASE ProduceChunk(r)
    <3>1. Chunk(r, emitted[r] + 1) \in Events /\ Chunk(r, emitted[r] + 1).kind = "chunk"
      BY DEF Chunk, Events, IInv, TypeOK, ReqTypeOK, SrcTypeOK
    <3>2. src'[r] = Append(src[r], Chunk(r, emitted[r] + 1)) /\ src[r] \in Seq(Events)
      BY <2>2, VerdictTypes, Zenon DEF ProduceChunk
    <3> QED
      BY <2>1, <3>1, <3>2, ChannelAppend, Zenon
  <2>3. ASSUME NEW e \in ErrorClasses, ProduceError(r, e)
        PROVE  prod'[r] = "err" /\ ErrorsLast(src'[r])
    <3>1. ErrorEvent(r, e) \in Events
      BY Zenon DEF ErrorEvent, ErrorClasses, Events, IInv, TypeOK, ReqTypeOK
    <3>2. /\ src'[r] = Append(src[r], ErrorEvent(r, e)) /\ src[r] \in Seq(Events)
          /\ prod'[r] = "err"
      BY <2>3, VerdictTypes, Zenon DEF ProduceError
    <3> QED
      BY <2>1, <3>1, <3>2, ChannelAppend, Zenon
  <2>4. CASE ProduceEnd(r) \/ ProduceCancel(r)
    BY <2>1, <2>4, Zenon DEF ProduceEnd, ProduceCancel
  <2> QED
    BY <2>2, <2>3, <2>4, Zenon DEF Produce
<1>3. VerdictAt(r)'
  BY <1>1, <1>2, Zenon DEF VerdictAt, Reports
<1>4. \A q \in Requests \ {r} : SameVerdict(q)
  BY <1>1, Zenon DEF SameVerdict
<1> QED
  BY <1>3, <1>4, SameVerdictKeeps, Zenon

\* Steps of the forwarder: what it has sent is what it reports.
LEMMA ForwardVerdict ==
  ASSUME IInv, \A q \in Requests : VerdictAt(q), NEW r \in Requests, Forward(r)
  PROVE  \A q \in Requests : VerdictAt(q)'
<1>0. /\ src[r] \in Seq(Events) /\ out[r] \in Seq(Events) /\ hold[r] \in Events
      /\ lastErr[r] \in {"none", "retryable", "fatal"}
  BY VerdictTypes, Zenon
<1>1. CASE ForwardSend(r)
  <2>1. /\ fwd[r] = "send" /\ fwd'[r] = "recv" /\ out'[r] = Append(out[r], hold[r])
        /\ lastErr'[r] = IF hold[r].kind = "chunk" THEN lastErr[r] ELSE hold[r].kind
        /\ UNCHANGED <<outcome, verdict, prod, src, hold>>
        /\ \A q \in Requests \ {r} : SameVerdict(q)
    BY <1>1, VerdictTypes DEF ForwardSend, SameVerdict, gateVars, srcVars
  <2>2. Retryable(out'[r]) => hold[r].kind = "retryable"
    <3>1. ~Reports(r)
      BY <2>1, Zenon DEF Reports
    <3>2. ~Retryable(out[r])
      BY Zenon, <3>1 DEF VerdictAt
    <3> QED
      BY Zenon, <1>0, <2>1, <3>2, ChannelAppend
  <2>3. VerdictAt(r)'
    BY <2>1, <2>2, Zenon DEF VerdictAt, Reports
  <2> QED
    BY <2>1, <2>3, SameVerdictKeeps, Zenon
<1>2. CASE ForwardAbandons(r)
  <2>1. /\ fwd[r] = "send" /\ fwd'[r] = "end" /\ verdict'[r] = "ok"
        /\ UNCHANGED <<outcome, prod, src, hold, lastErr, out>>
        /\ \A q \in Requests \ {r} : SameVerdict(q)
    BY <1>2, VerdictTypes, Zenon DEF ForwardAbandons, Release, SameVerdict, srcVars
  <2>2. VerdictAt(r)'
    BY <2>1, Zenon DEF VerdictAt, Reports
  <2> QED
    BY <2>1, <2>2, SameVerdictKeeps, Zenon
<1>3. CASE ForwardReceive(r)
  <2>1. /\ fwd[r] = "recv" /\ fwd'[r] = "send" /\ src[r] # <<>>
        /\ src'[r] = Tail(src[r]) /\ hold'[r] = Head(src[r])
        /\ UNCHANGED <<outcome, verdict, prod, lastErr, out>>
        /\ \A q \in Requests \ {r} : SameVerdict(q)
    BY <1>3, VerdictTypes DEF ForwardReceive, SameVerdict, gateVars
  <2>2. VerdictAt(r)'
    <3>1. /\ Len(src[r]) # 0
          /\ AllChunks(src[r]) => AllChunks(src'[r]) /\ hold'[r].kind = "chunk"
          /\ ErrorsLast(src[r]) => ErrorsLast(src'[r])
          /\ ErrorsLast(src[r]) /\ hold'[r].kind # "chunk" => Len(src'[r]) = 0
      BY Zenon, <1>0, <2>1, ChannelTail
    <3>2. ~Reports(r)
      BY <3>1, Zenon DEF Reports
    <3>3. ~Retryable(out[r]) /\ outcome[r] # "retryable"
      BY <2>1, <3>2, Zenon DEF VerdictAt
    <3> QED
      BY <2>1, <3>1, <3>3, Zenon DEF VerdictAt
  <2> QED
    BY <2>1, <2>2, SameVerdictKeeps, Zenon
<1>4. CASE ForwardEnds(r)
  <2>1. /\ fwd[r] = "recv" /\ fwd'[r] = "end"
        /\ verdict'[r] = IF lastErr[r] = "retryable" THEN "fail" ELSE "ok"
        /\ UNCHANGED <<outcome, prod, src, hold, lastErr, out>>
        /\ \A q \in Requests \ {r} : SameVerdict(q)
    BY <1>4, VerdictTypes, Zenon DEF ForwardEnds, Release, SameVerdict, srcVars, ObservedOk,
                              IsRetryable
  <2>2. VerdictAt(r)'
    BY <2>1, Zenon DEF VerdictAt, Reports
  <2> QED
    BY <2>1, <2>2, SameVerdictKeeps, Zenon
<1> QED
  BY <1>1, <1>2, <1>3, <1>4, Zenon DEF Forward

\* Steps of the handler's loop: it ends with the error it reads.
LEMMA ReceiveVerdict ==
  ASSUME IInv, \A q \in Requests : VerdictAt(q), NEW r \in Requests, Receive(r)
  PROVE  \A q \in Requests : VerdictAt(q)'
<1>0. out[r] \in Seq(Events) /\ fwd[r] # "none" /\ outcome[r] = "none"
  BY VerdictTypes, Zenon DEF IInv, Phase, PhaseAt, Receive, ReceiveChunk, ReceiveError, ReceiveClosed,
                      WriteFails
<1>1. CASE ReceiveChunk(r) \/ ReceiveError(r)
  <2>0. /\ out[r] # <<>> /\ out' = [out EXCEPT ![r] = Tail(@)]
        /\ outcome' \in {outcome, [outcome EXCEPT ![r] = Head(out[r]).kind]}
        /\ verdict' = verdict /\ prod' = prod /\ src' = src /\ fwd' = fwd
        /\ hold' = hold /\ lastErr' = lastErr
    BY <1>1, Zenon DEF ReceiveChunk, ReceiveError, Finish, gateVars, srcVars
  <2>1. /\ out[r] # <<>> /\ out'[r] = Tail(out[r])
        /\ outcome'[r] \in {outcome[r], Head(out[r]).kind}
        /\ UNCHANGED <<verdict, prod, src, fwd, hold, lastErr>>
        /\ \A q \in Requests \ {r} : SameVerdict(q)
    BY <2>0, VerdictTypes, Zenon DEF SameVerdict
  <2>2. VerdictAt(r)'
    <3>1. /\ Retryable(out'[r]) => Retryable(out[r])
          /\ outcome'[r] = "retryable" => Retryable(out[r])
      BY Zenon, <1>0, <2>1, ChannelTail
    <3>2. Reports(r)' <=> Reports(r)
      BY <2>1, Zenon DEF Reports
    <3>3. (Retryable(out'[r]) \/ outcome'[r] = "retryable") => Reports(r)'
      BY Zenon, <3>1, <3>2 DEF VerdictAt
    <3> QED
      BY <2>1, <3>3, Zenon DEF VerdictAt
  <2> QED
    BY <2>1, <2>2, SameVerdictKeeps, Zenon
<1>2. CASE ReceiveClosed(r) \/ WriteFails(r)
  <2>1. /\ outcome'[r] \in {"canceled", "ok"}
        /\ UNCHANGED <<verdict, prod, src, fwd, hold, lastErr, out>>
        /\ \A q \in Requests \ {r} : SameVerdict(q)
    BY <1>2, VerdictTypes DEF ReceiveClosed, WriteFails, Finish, SameVerdict,
                              gateVars, srcVars,
                              fwdVars
  <2>2. VerdictAt(r)'
    BY <2>1, Zenon DEF VerdictAt, Reports
  <2> QED
    BY <2>1, <2>2, SameVerdictKeeps, Zenon
<1> QED
  BY <1>1, <1>2, Zenon DEF Receive

\* The breaker and the client are told the same story of a stream, in whichever
\* order the forwarder's done callback and the client's read happen: a retryable
\* error that reached the client is a failure of the provider, and a failure is
\* recorded only when the provider did fail.
THEOREM MidStreamVerdictHolds == Spec => []MidStreamVerdict
<1> DEFINE Verdicts == \A r \in Requests : VerdictAt(r)
<1>1. Init => Verdicts
  BY ChannelEmpty DEF Init, VerdictAt
<1>2. IInv /\ Verdicts /\ [Next]_vars => Verdicts'
  <2> SUFFICES ASSUME IInv, Verdicts, [Next]_vars PROVE \A q \in Requests : VerdictAt(q)'
    BY Zenon
  <2>1. ASSUME NEW r \in Requests, Route(r) \/ Produce(r) \/ Forward(r) \/ Receive(r)
        PROVE  \A q \in Requests : VerdictAt(q)'
    BY <2>1, RouteVerdict, ProduceVerdict, ForwardVerdict, ReceiveVerdict, Zenon
  <2>2. ASSUME UNCHANGED <<outcome, verdict, srcVars, fwdVars>>
        PROVE  \A q \in Requests : VerdictAt(q)'
    BY <2>2, SameVerdictKeeps, Zenon DEF SameVerdict, srcVars, fwdVars
  <2>3. ASSUME NEW r \in Requests, ClientGone(r) PROVE \A q \in Requests : VerdictAt(q)'
    BY <2>2, <2>3, Zenon DEF ClientGone, gateVars
  <2>4. ASSUME NEW p \in Providers, Expire(p) PROVE \A q \in Requests : VerdictAt(q)'
    BY <2>2, <2>4, Zenon DEF Expire
  <2>5. CASE UNCHANGED vars
    BY <2>2, <2>5, Zenon DEF vars, gateVars
  <2> QED
    BY Zenon, <2>1, <2>3, <2>4, <2>5 DEF Next, AllSettled
<1>3. Verdicts => MidStreamVerdict
  BY Zenon DEF VerdictAt, Reports, MidStreamVerdict
<1> QED
  BY <1>1, <1>2, <1>3, InvariantHolds, PTL DEF Spec
====
