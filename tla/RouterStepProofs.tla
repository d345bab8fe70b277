-------------------------- MODULE RouterStepProofs --------------------------
(***************************************************************************)
(* Every step of Router preserves the inductive invariant, for every set   *)
(* of requests and providers, every chain, retry policy and capacity.      *)
(*                                                                         *)
(* The invariant has four parts: TypeOK; Phase, which goroutines of a      *)
(* request exist in which state of the handler; PermitDiscipline; and      *)
(* Pipe, the contents of the pipeline src -> hold -> out -> delivered.     *)
(* Number the events of the current stream in the order the producer sent  *)
(* them: Pipe says that each stage holds consecutive events, that event k  *)
(* is chunk k of the last provider call when k <= emitted, and that only   *)
(* an error can follow.                                                    *)
(*                                                                         *)
(* First come the types, then what each step does to one request: the      *)
(* handler inside the router (RouteInv) and the three goroutines along the *)
(* pipeline (ProduceInv, ForwardInv, ReceiveInv).  A step of one request   *)
(* is shown to leave the others as they were (Same), so each action is     *)
(* looked at for its own request only.                                     *)
(***************************************************************************)
EXTENDS Router, TLAPS

\* Which goroutines of request r exist in which state of its handler.
PhaseAt(r) ==
  /\ chain[r] # <<>> => idx[r] \in 1..Len(chain[r])
  /\ pc[r] \in {"gate", "call", "peek", "sleep", "range"} => chain[r] # <<>>
  /\ fwd[r] # "none" => pc[r] \in {"range", "end"} /\ chain[r] # <<>>
  /\ pc[r] = "range" => fwd[r] # "none"
  /\ pc[r] \in {"peek", "range"} => prod[r] # "none"
  /\ prod[r] = "cancel" => cancelled[r]
  /\ pc[r] # "end" => outcome[r] = "none"
  /\ pc[r] = "idle" => chain[r] = <<>> /\ idx[r] = 1

Phase == \A r \in Requests : PhaseAt(r)

\* e is event number k of call c, which has emitted n chunks so far ...
EventOk(c, n, k, e) ==
  IF k <= n THEN e = [kind |-> "chunk", call |-> c, seq |-> k]
            ELSE e.kind \in ErrorClasses

\* ... and s holds the events that follow number k.
Run(c, n, k, s) == \A i \in 1..Len(s) : EventOk(c, n, k + i, s[i])

\* Events the producer has sent, and those that have left its channel.
Produced(r) == emitted[r] + (IF prod[r] = "err" THEN 1 ELSE 0)
Queued(r) == Len(delivered[r]) + Len(out[r])
Taken(r) == Queued(r) + (IF fwd[r] = "send" THEN 1 ELSE 0)

\* The handler or the forwarder still reads the producer's channel.
Reading(r) == pc[r] = "peek" \/ (pc[r] = "range" /\ fwd[r] \in {"send", "recv"})

\* The contents of the pipeline of request r.
PipeAt(r) ==
  /\ \A i \in 1..Len(delivered[r]) : delivered[r][i] = Chunk(r, i)
  /\ fwd[r] = "none" => delivered[r] = <<>> /\ out[r] = <<>>
  /\ pc[r] = "range" =>
       Run(calls[r], emitted[r], Len(delivered[r]), out[r])
  /\ pc[r] = "range" /\ fwd[r] = "send" =>
       EventOk(calls[r], emitted[r], Queued(r) + 1, hold[r])
  /\ pc[r] = "range" => Taken(r) <= Produced(r) /\ Len(delivered[r]) <= emitted[r]
  /\ Reading(r) =>
       /\ Run(calls[r], emitted[r], Taken(r), src[r])
       /\ Taken(r) + Len(src[r]) = Produced(r)
  /\ pc[r] = "range" /\ fwd[r] = "end" /\ ~cancelled[r] =>
       prod[r] # "run" /\ Queued(r) = Produced(r)

Pipe == \A r \in Requests : PipeAt(r)

IInv == TypeOK /\ Phase /\ PermitDiscipline /\ Pipe /\ CleanEndIsComplete

-----------------------------------------------------------------------------
\* Breaker records stay breaker records.
LEMMA FreshType ==
  ASSUME NEW s \in BreakerStates
  PROVE  NewGeneration(s) \in Breaker
BY Zenon DEF NewGeneration, Breaker, BreakerStates

\* What Allow and done see as the current state is a breaker record.
LEMMA CurrentType ==
  ASSUME NEW cb \in Breaker
  PROVE  CurrentState(cb) \in Breaker
BY FreshType, Zenon DEF CurrentState, BreakerStates

\* Admitting a caller keeps the record well-typed.
LEMMA AdmitType ==
  ASSUME NEW cb \in Breaker, NEW r \in Requests
  PROVE  Admit(cb, r) \in Breaker
<1>1. cb.live \cup {r} \in SUBSET Requests /\ cb.requests + 1 \in Nat
  BY DEF Breaker
<1> QED
  BY Zenon, <1>1 DEF Admit, Breaker

\* So does reporting a result, in every state and for every generation.
LEMMA AfterType ==
  ASSUME NEW cb \in Breaker, NEW r \in Requests, NEW ok \in BOOLEAN
  PROVE  AfterRequest(cb, r, ok) \in Breaker
<1> DEFINE cur == CurrentState(cb)
<1>1. cur \in Breaker
  BY CurrentType, Zenon
<1>2. /\ NewGeneration("open") \in Breaker
      /\ NewGeneration("closed") \in Breaker
  BY FreshType, Zenon DEF BreakerStates
<1> HIDE DEF cur
<1>3. /\ cur.live \ {r} \in SUBSET Requests
      /\ cur.successes + 1 \in Nat /\ cur.failures + 1 \in Nat
  BY <1>1 DEF Breaker
<1>4. Succeed(cur, r) \in Breaker /\ Fail(cur, r) \in Breaker
  BY Zenon, <1>1, <1>3 DEF Succeed, Fail, Breaker
<1> QED
  BY <1>1, <1>2, <1>4, Zenon DEF AfterRequest, OnSuccess, OnFailure, cur

\* Every chain ResolveChain returns is a sequence of providers.
LEMMA ChainType ==
  ASSUME TypeOK, NEW r \in Requests
  PROVE  chain[r] \in Seq(Providers) /\ Len(chain[r]) \in Nat
<1>1. <<>> \in Seq(Providers)
  OBVIOUS
<1>2. chain[r] \in Seq(Providers)
  BY Zenon, <1>1, RouterConstants DEF TypeOK, ReqTypeOK
<1> QED
  BY <1>2

\* The backoff envelope stays between 0 and MaxBackoff, overflow or not ...
LEMMA EnvelopeType ==
  ASSUME NEW n \in Nat \ {0}
  PROVE  Envelope(n) \in 0..MaxBackoff
<1>1. \A i \in Nat : Doubled(i) \in Int
  <2> SUFFICES ASSUME NEW i \in Nat PROVE Doubled(i) \in Int
    BY Zenon
  <2>1. 2^i \in Int
    OBVIOUS
  <2>2. BaseBackoff * 2^i + DurationLimit \in Int /\ 2 * DurationLimit \in Nat \ {0}
    BY <2>1, RouterConstants
  <2> QED
    BY <2>2, RouterConstants DEF Doubled
<1>2. CASE \E i \in 1..n - 1 : Doubled(i) <= 0 \/ Doubled(i) >= MaxBackoff
  BY <1>2, RouterConstants DEF Envelope
<1>3. CASE ~\E i \in 1..n - 1 : Doubled(i) <= 0 \/ Doubled(i) >= MaxBackoff
  <2>1. CASE n > 1
    <3>1. n - 1 \in 1..n - 1 /\ Doubled(n - 1) \in Int
      BY <1>1, <2>1
    <3>2. ~(Doubled(n - 1) <= 0) /\ ~(Doubled(n - 1) >= MaxBackoff)
      BY <1>3, <3>1, Zenon
    <3> QED
      BY <1>3, <2>1, <3>1, <3>2, RouterConstants DEF Envelope
  <2>2. CASE ~(n > 1)
    BY <1>3, <2>2, RouterConstants DEF Envelope
  <2> QED
    BY <2>1, <2>2, Zenon
<1> QED
  BY <1>2, <1>3, Zenon

\* ... and so does every delay the upstream did not ask for.
LEMMA BackoffType ==
  ASSUME NEW n \in Nat \ {0}, NEW ra \in RetryAfters \cup {0},
         NEW w \in BackoffDelays(n, ra)
  PROVE  w \in Nat /\ w \in 0..MaxBackoff \cup RetryAfters
<1>1. ra \in Nat /\ RetryAfters \subseteq Nat /\ MaxBackoff \in Nat
  BY RouterConstants
<1>2. CASE ra > 0
  BY <1>1, <1>2 DEF BackoffDelays
<1>3. CASE ~(ra > 0)
  <2>1. PICK p \in Draws : w = (p * Envelope(n)) \div 100
    BY <1>3, Zenon DEF BackoffDelays
  <2>2. /\ p \in 0..99 /\ Envelope(n) \in 0..MaxBackoff
        /\ p \in Nat /\ Envelope(n) \in Nat
    BY <1>1, EnvelopeType, RouterConstants
  <2>3. p * Envelope(n) \in Nat /\ p * Envelope(n) <= 100 * Envelope(n)
    BY <2>2
  <2>4. w \in 0..Envelope(n)
    BY <2>1, <2>2, <2>3
  <2> QED
    BY <1>1, <2>2, <2>4
<1> QED
  BY <1>2, <1>3, Zenon

\* What a failed attempt or a refusal does to the request: it is back at the
\* gate, asleep, or finished with error e.
Moves(r, e) ==
  /\ \E s \in {"gate", "sleep", "end"} : pc' = [pc EXCEPT ![r] = s]
  /\ pc'[r] # "end" => outcome' = outcome /\ cancelled' = cancelled
  /\ pc'[r] = "end" => /\ outcome' = [outcome EXCEPT ![r] = e]
                       /\ cancelled' = [cancelled EXCEPT ![r] = TRUE]
  /\ idx' \in {idx, [idx EXCEPT ![r] = @ + 1]}
  /\ idx'[r] \in 1..Len(chain[r])
  /\ attempt' \in [Requests -> Nat]

\* The failover loop moves a request in one of the ways of Moves.
LEMMA ChainNextMoves ==
  ASSUME TypeOK, Phase, NEW r \in Requests, NEW e \in {"breaker", "retryable"},
         NEW t \in Nat, chain[r] # <<>>, ChainNext(r, e, t)
  PROVE  Moves(r, e) /\ delay' = delay
<1> USE DEF Moves
<1>0. /\ idx[r] \in 1..Len(chain[r]) /\ Len(chain[r]) \in Nat
      /\ idx \in [Requests -> Nat] /\ attempt \in [Requests -> Nat]
  BY ChainType, Zenon DEF TypeOK, RouteTypeOK, ReqTypeOK, Phase, PhaseAt
<1>a. pc = [q \in Requests |-> pc[q]]
  BY Zenon DEF TypeOK, RouteTypeOK, ReqTypeOK
<1>1. CASE LastInChain(r, t)
  <2>1. pc' = [pc EXCEPT ![r] = "end"] /\ pc'[r] = "end"
    BY <1>1, <1>a, Zenon DEF ChainNext, Finish
  <2> QED
    BY <1>0, <1>1, <2>1, Zenon DEF ChainNext, Finish
<1>2. CASE ~LastInChain(r, t)
  <2>1. pc' = [pc EXCEPT ![r] = "gate"] /\ pc'[r] = "gate"
    BY <1>2, <1>a, Zenon DEF ChainNext
  <2>2. /\ idx' = [idx EXCEPT ![r] = @ + 1]
        /\ attempt' = [attempt EXCEPT ![r] = 0]
        /\ outcome' = outcome /\ cancelled' = cancelled /\ delay' = delay
    BY <1>2, Zenon DEF ChainNext
  <2>3. idx'[r] \in 1..Len(chain[r])
    BY <1>0, <1>2, <2>2 DEF LastInChain
  <2> QED
    BY <1>0, <2>1, <2>2, <2>3, Zenon
<1> QED
  BY <1>1, <1>2, Zenon

\* So does the retry loop after a failed attempt.
LEMMA AttemptFailedMoves ==
  ASSUME TypeOK, Phase, NEW r \in Requests,
         NEW e \in {"retryable", "fatal", "canceled"},
         NEW ra \in RetryAfters \cup {0}, NEW d \in CallTimes,
         chain[r] # <<>>, AttemptFailed(r, e, ra, d)
  PROVE  /\ Moves(r, e)
         /\ elapsed' \in [Requests -> Nat]
         /\ delay' \in [Requests -> Nat]
         /\ chain' = chain /\ calls' = calls
<1> USE DEF Moves
<1> DEFINE t == elapsed[r] + d
<1>0. /\ t \in Nat
      /\ elapsed' = [elapsed EXCEPT ![r] = t] /\ elapsed' \in [Requests -> Nat]
      /\ delay \in [Requests -> Nat] /\ attempt \in [Requests -> Nat]
      /\ chain' = chain /\ calls' = calls
      /\ idx[r] \in 1..Len(chain[r])
  <2>1. d \in Nat /\ elapsed[r] \in Nat
    BY RouterConstants, Zenon DEF TypeOK, ReqTypeOK
  <2>2. elapsed' = [elapsed EXCEPT ![r] = t] /\ chain' = chain /\ calls' = calls
    BY Zenon DEF AttemptFailed
  <2> QED
    BY <2>1, <2>2 DEF TypeOK, RouteTypeOK, ReqTypeOK, Phase, PhaseAt
<1>a. pc = [q \in Requests |-> pc[q]]
  BY Zenon DEF TypeOK, RouteTypeOK, ReqTypeOK
<1> HIDE DEF t
<1>1. CASE ~IsRetryable(e) /\ Finish(r, e) /\ UNCHANGED <<idx, attempt, delay>>
  <2>1. pc' = [pc EXCEPT ![r] = "end"] /\ pc'[r] = "end"
    BY <1>1, <1>a, Zenon DEF Finish
  <2> QED
    BY <1>0, <1>1, <2>1, Zenon DEF Finish
<1>2. CASE IsRetryable(e) /\ ChainNext(r, e, t)
  <2>1. e \in {"breaker", "retryable"}
    BY <1>2, Zenon DEF IsRetryable
  <2> QED
    BY <1>0, <1>2, <2>1, ChainNextMoves
<1>3. CASE \E w \in BackoffDelays(attempt[r] + 1, ra) :
             /\ attempt[r] < MaxRetries
             /\ delay' = [delay EXCEPT ![r] = w]
             /\ pc' = [pc EXCEPT ![r] = "sleep"]
             /\ UNCHANGED <<idx, attempt, outcome, cancelled>>
  <2>1. PICK w \in BackoffDelays(attempt[r] + 1, ra) :
             /\ attempt[r] < MaxRetries
             /\ delay' = [delay EXCEPT ![r] = w]
             /\ pc' = [pc EXCEPT ![r] = "sleep"]
             /\ UNCHANGED <<idx, attempt, outcome, cancelled>>
    BY Zenon, <1>3
  <2>2. attempt[r] + 1 \in 1..MaxRetries
    BY <1>0, <2>1, RouterConstants
  <2>3. w \in Nat
    <3>1. attempt[r] + 1 \in Nat \ {0}
      BY <2>2, RouterConstants
    <3> QED
      BY <2>1, <3>1, BackoffType, Zenon
  <2>4. pc'[r] = "sleep"
    BY <1>a, <2>1, Zenon
  <2> QED
    BY <1>0, <2>1, <2>3, <2>4, Zenon
<1> QED
  BY <1>1, <1>2, <1>3, Zenon DEF AttemptFailed, t

\* Moves keeps the types of what it changes and leaves the other requests alone.
LEMMA MovesTypes ==
  ASSUME RouteTypeOK, ReqTypeOK, NEW r \in Requests,
         NEW e \in {"breaker", "retryable", "fatal", "canceled"}, Moves(r, e)
  PROVE  /\ RouteTypeOK'
         /\ idx' \in [Requests -> Nat]
         /\ pc'[r] \in {"gate", "sleep", "end"}
         /\ \A q \in Requests \ {r} :
              /\ pc'[q] = pc[q] /\ idx'[q] = idx[q]
              /\ outcome'[q] = outcome[q] /\ cancelled'[q] = cancelled[q]
         /\ cancelled[r] => cancelled'[r]
         /\ pc'[r] # "end" => outcome'[r] = outcome[r]
         /\ outcome'[r] = "ok" => outcome[r] = "ok"
<1>1. PICK s \in {"gate", "sleep", "end"} : pc' = [pc EXCEPT ![r] = s]
  BY Zenon DEF Moves
<1>2. /\ pc'[r] = s
      /\ pc' \in [Requests -> {"idle", "gate", "call", "peek", "sleep", "range", "end"}]
      /\ \A q \in Requests \ {r} : pc'[q] = pc[q]
  BY <1>1, Zenon DEF RouteTypeOK
<1>3. idx' \in [Requests -> Nat] /\ \A q \in Requests \ {r} : idx'[q] = idx[q]
  <2>1. idx \in [Requests -> Nat]
    BY Zenon DEF ReqTypeOK
  <2>2. CASE idx' = idx
    BY <2>1, <2>2, Zenon
  <2>3. CASE idx' = [idx EXCEPT ![r] = @ + 1]
    BY <2>1, <2>3
  <2> QED
    BY <2>2, <2>3, Zenon DEF Moves
<1>4. CASE pc'[r] = "end"
  <2>1. /\ outcome' = [outcome EXCEPT ![r] = e]
        /\ cancelled' = [cancelled EXCEPT ![r] = TRUE]
    BY <1>4, Zenon DEF Moves
  <2>2. /\ outcome' \in [Requests -> {"none", "nochain", "ok", "breaker", "retryable",
                                     "fatal", "canceled"}]
        /\ outcome'[r] = e /\ \A q \in Requests \ {r} : outcome'[q] = outcome[q]
    BY <2>1, Zenon DEF RouteTypeOK
  <2>3. /\ cancelled' \in [Requests -> BOOLEAN]
        /\ cancelled'[r] /\ \A q \in Requests \ {r} : cancelled'[q] = cancelled[q]
    BY <2>1, Zenon DEF RouteTypeOK
  <2> QED
    BY <1>2, <1>3, <1>4, <2>2, <2>3, Zenon DEF RouteTypeOK
<1>5. CASE pc'[r] # "end"
  BY <1>2, <1>3, <1>5, Zenon DEF Moves, RouteTypeOK
<1> QED
  BY <1>4, <1>5, Zenon

\* The types after a failed attempt.
LEMMA FailedTypes ==
  ASSUME TypeOK, Phase, NEW r \in Requests,
         NEW e \in {"retryable", "fatal", "canceled"},
         NEW ra \in RetryAfters \cup {0}, NEW d \in CallTimes,
         chain[r] # <<>>, AttemptFailed(r, e, ra, d)
  PROVE  RouteTypeOK' /\ ReqTypeOK'
<1>1. /\ Moves(r, e)
      /\ elapsed' \in [Requests -> Nat] /\ delay' \in [Requests -> Nat]
      /\ chain' = chain /\ calls' = calls
  BY Zenon, AttemptFailedMoves
<1>2. RouteTypeOK' /\ idx' \in [Requests -> Nat] /\ attempt' \in [Requests -> Nat]
  BY Zenon, <1>1, MovesTypes DEF TypeOK, Moves
<1> QED
  BY <1>1, <1>2, Zenon DEF TypeOK, ReqTypeOK

\* A done callback keeps the breakers well typed.
LEMMA ReleaseType ==
  ASSUME TypeOK, NEW r \in Requests, permit[r] \in Providers,
         NEW ok \in BOOLEAN, Release(r, ok)
  PROVE  /\ cbs' \in [Providers -> Breaker]
         /\ permit' = [permit EXCEPT ![r] = NoProvider]
         /\ permit' \in [Requests -> Providers \cup {NoProvider}]
         /\ verdict' \in [Requests -> {"none", "ok", "fail"}]
<1>1. AfterRequest(cbs[permit[r]], r, ok) \in Breaker
  BY AfterType, Zenon DEF TypeOK, GateTypeOK
<1> QED
  BY <1>1, Zenon DEF Release, TypeOK, GateTypeOK

\* Whoever owes a done callback owes it to a provider.
LEMMA PermitHeld ==
  ASSUME TypeOK, Phase, PermitDiscipline, NEW r \in Requests,
         pc[r] \in {"call", "peek"} \/ fwd[r] \in {"send", "recv"}
  PROVE  permit[r] = chain[r][idx[r]] /\ permit[r] \in Providers
<1>1. chain[r] # <<>> /\ idx[r] \in 1..Len(chain[r])
  BY Zenon DEF Phase, PhaseAt
<1>2. permit[r] = chain[r][idx[r]]
  BY Zenon DEF PermitDiscipline
<1> QED
  BY <1>1, <1>2, ChainType

\* A non-empty sequence is its head followed by its tail.
LEMMA HeadTail ==
  ASSUME NEW q \in Seq(Events), q # <<>>
  PROVE  /\ Head(q) \in Events /\ Tail(q) \in Seq(Events)
         /\ Len(Tail(q)) = Len(q) - 1 /\ Len(q) \in Nat \ {0} /\ Len(q) >= 1
         /\ Head(q) = q[1]
         /\ \A i \in 1..Len(q) - 1 : Tail(q)[i] = q[i + 1]
OBVIOUS

\* What Append does to the length and to the elements.
LEMMA AppendFacts ==
  ASSUME NEW q \in Seq(Events), NEW x \in Events
  PROVE  /\ Len(Append(q, x)) = Len(q) + 1
         /\ Append(q, x)[Len(q) + 1] = x
         /\ \A i \in 1..Len(q) : Append(q, x)[i] = q[i]
         /\ Len(q) \in Nat
OBVIOUS

\* An empty channel is a run of consecutive events.
LEMMA RunEmpty ==
  ASSUME NEW c, NEW n, NEW k
  PROVE  Run(c, n, k, <<>>)
BY DEF Run

\* A channel stays a run of consecutive events when the next one is sent ...
LEMMA RunAppend ==
  ASSUME NEW c, NEW n \in Nat, NEW k \in Nat, NEW s \in Seq(Events), NEW x \in Events,
         Run(c, n, k, s), EventOk(c, n, k + Len(s) + 1, x)
  PROVE  Run(c, n, k, Append(s, x))
<1>1. SUFFICES ASSUME NEW i \in 1..Len(s) + 1 PROVE EventOk(c, n, k + i, Append(s, x)[i])
  BY AppendFacts, Zenon DEF Run
<1>2. CASE i = Len(s) + 1
  <2>1. k + i = k + Len(s) + 1
    BY <1>2, AppendFacts
  <2> QED
    BY <1>2, <2>1, AppendFacts, Zenon
<1>3. CASE i \in 1..Len(s)
  BY <1>3, AppendFacts, Zenon DEF Run
<1> QED
  BY <1>2, <1>3, AppendFacts

\* ... and when its first one is received.
LEMMA RunTail ==
  ASSUME NEW c, NEW n \in Nat, NEW k \in Nat, NEW s \in Seq(Events), s # <<>>,
         Run(c, n, k, s)
  PROVE  EventOk(c, n, k + 1, Head(s)) /\ Run(c, n, k + 1, Tail(s))
<1>1. EventOk(c, n, k + 1, Head(s))
  BY HeadTail DEF Run
<1>2. ASSUME NEW i \in 1..Len(s) - 1 PROVE EventOk(c, n, k + 1 + i, Tail(s)[i])
  <2>1. k + (i + 1) = k + 1 + i /\ i + 1 \in 1..Len(s)
    BY HeadTail
  <2> QED
    BY <2>1, HeadTail, Zenon DEF Run
<1> QED
  BY <1>1, <1>2, HeadTail, Zenon DEF Run

\* An event that is a chunk stays what it was when more chunks are emitted ...
LEMMA EventGrow ==
  ASSUME NEW c, NEW n \in Nat, NEW k \in Nat, NEW x, k <= n, EventOk(c, n, k, x)
  PROVE  EventOk(c, n + 1, k, x)
BY DEF EventOk

\* ... and so does a run of them.
LEMMA RunGrow ==
  ASSUME NEW c, NEW n \in Nat, NEW k \in Nat, NEW s \in Seq(Events),
         k + Len(s) <= n, Run(c, n, k, s)
  PROVE  Run(c, n + 1, k, s)
<1>1. SUFFICES ASSUME NEW i \in 1..Len(s) PROVE EventOk(c, n + 1, k + i, s[i])
  BY Zenon DEF Run
<1>2. k + i \in Nat /\ k + i <= n
  OBVIOUS
<1> QED
  BY <1>2, EventGrow, Zenon DEF Run

-----------------------------------------------------------------------------
\* Type correctness of every step.
LEMMA TypePreserved == IInv /\ [Next]_vars => TypeOK'
<1> SUFFICES ASSUME IInv, [Next]_vars PROVE TypeOK'
  BY Zenon
<1>0. TypeOK /\ Phase /\ PermitDiscipline
  BY Zenon DEF IInv
<1> USE DEF TypeOK
<1>a. UNCHANGED reqVars => ReqTypeOK'
  BY <1>0, Zenon DEF ReqTypeOK, reqVars
<1>b. UNCHANGED gateVars => GateTypeOK'
  BY <1>0, Zenon DEF GateTypeOK, gateVars
<1>c. UNCHANGED srcVars => SrcTypeOK'
  BY <1>0, Zenon DEF SrcTypeOK, srcVars
<1>d. UNCHANGED <<fwdVars, delivered>> => FwdTypeOK'
  BY <1>0, Zenon DEF FwdTypeOK, fwdVars
<1>e. UNCHANGED <<pc, cancelled, outcome>> => RouteTypeOK'
  BY <1>0, Zenon DEF RouteTypeOK
<1>f. ASSUME NEW r \in Requests,
             NEW e \in {"nochain", "ok", "breaker", "retryable", "fatal", "canceled"},
             Finish(r, e)
      PROVE  RouteTypeOK'
  BY <1>0, <1>f, Zenon DEF Finish, RouteTypeOK
<1>1. ASSUME NEW r \in Requests, Start(r) PROVE TypeOK'
  <2>1. ReqTypeOK'
    BY <1>0, <1>1, Zenon DEF Start, ReqTypeOK
  <2>2. RouteTypeOK'
    <3>1. CASE Finish(r, "nochain")
      BY <3>1, <1>f, Zenon
    <3>2. CASE pc' = [pc EXCEPT ![r] = "gate"] /\ UNCHANGED <<outcome, cancelled>>
      BY <1>0, <3>2, Zenon DEF RouteTypeOK
    <3> QED
      BY <1>1, <3>1, <3>2, Zenon DEF Start
  <2> QED
    BY <1>1, <1>b, <1>c, <1>d, <2>1, <2>2, Zenon DEF Start
<1>2. ASSUME NEW r \in Requests, GateAdmits(r) PROVE TypeOK'
  <2> DEFINE p == chain[r][idx[r]]
  <2>1. p \in Providers
    <3>1. PhaseAt(r) /\ pc[r] = "gate"
      BY Zenon, <1>0, <1>2 DEF GateAdmits, Phase
    <3>2. idx[r] \in 1..Len(chain[r])
      BY <3>1, Zenon DEF PhaseAt
    <3> QED
      BY <1>0, <3>2, ChainType
  <2>2. Admit(CurrentState(cbs[p]), r) \in Breaker
    BY <1>0, <2>1, CurrentType, AdmitType, Zenon DEF GateTypeOK
  <2>3. /\ cbs' = [cbs EXCEPT ![p] = Admit(CurrentState(cbs[p]), r)]
        /\ permit' = [permit EXCEPT ![r] = p]
        /\ verdict' = [verdict EXCEPT ![r] = "none"]
    BY <1>2, Zenon DEF GateAdmits
  <2> HIDE DEF p
  <2>4. GateTypeOK'
    BY <1>0, <2>1, <2>2, <2>3, Zenon DEF GateTypeOK
  <2>5. ReqTypeOK' /\ RouteTypeOK'
    BY <1>0, <1>2 DEF GateAdmits, ReqTypeOK, RouteTypeOK
  <2> QED
    BY <1>2, <1>c, <1>d, <2>4, <2>5, Zenon DEF GateAdmits
<1>3. ASSUME NEW r \in Requests, GateRejects(r) PROVE TypeOK'
  <2> DEFINE p == chain[r][idx[r]]
  <2>1. p \in Providers
    BY <1>0, <1>3, ChainType DEF GateRejects, Phase, PhaseAt
  <2>2. CurrentState(cbs[p]) \in Breaker
    BY <1>0, <2>1, CurrentType, Zenon DEF GateTypeOK
  <2>3. /\ ChainNext(r, "breaker", elapsed[r])
        /\ elapsed[r] \in Nat /\ chain[r] # <<>>
    BY Zenon, <1>0, <1>3 DEF GateRejects, ReqTypeOK, Phase, PhaseAt
  <2>4. GateTypeOK'
    BY Zenon, <1>0, <1>3, <2>1, <2>2 DEF GateTypeOK, GateRejects
  <2>5. Moves(r, "breaker") /\ delay' = delay
    BY <1>0, <2>3, ChainNextMoves, Zenon
  <2>6. RouteTypeOK' /\ idx' \in [Requests -> Nat] /\ attempt' \in [Requests -> Nat]
    BY Zenon, <1>0, <2>5, MovesTypes DEF Moves
  <2>7. ReqTypeOK'
    BY <1>0, <1>3, <2>5, <2>6, Zenon DEF GateRejects, ReqTypeOK
  <2> QED
    BY <1>3, <1>c, <1>d, <2>4, <2>6, <2>7, Zenon DEF GateRejects
<1>4. ASSUME NEW r \in Requests, NEW d \in CallTimes, CallSucceeds(r, d) PROVE TypeOK'
  <2>1. GateTypeOK'
    BY Zenon, <1>0, <1>4, PermitHeld, ReleaseType DEF CallSucceeds, GateTypeOK
  <2>2. elapsed' \in [Requests -> Nat]
    <3>1. d \in Nat
      BY RouterConstants, Zenon
    <3> QED
      BY <1>0, <1>4, <3>1 DEF CallSucceeds, ReqTypeOK
  <2>3. ReqTypeOK' /\ RouteTypeOK'
    BY <1>0, <1>4, <1>f, <2>2, Zenon DEF CallSucceeds, ReqTypeOK
  <2> QED
    BY <1>4, <1>c, <1>d, <2>1, <2>3, Zenon DEF CallSucceeds
<1>5. ASSUME NEW r \in Requests, NEW e \in {"retryable", "fatal", "canceled"},
             NEW ra \in RetryAfters \cup {0}, NEW d \in CallTimes, CallFails(r, e, ra, d)
      PROVE  TypeOK'
  <2>1. GateTypeOK'
    <3>1. ObservedOk(e) \in BOOLEAN
      BY Zenon DEF ObservedOk, IsRetryable
    <3> QED
      BY Zenon, <1>0, <1>5, <3>1, PermitHeld, ReleaseType DEF CallFails, GateTypeOK
  <2>2. RouteTypeOK' /\ ReqTypeOK'
    BY Zenon, <1>0, <1>5, FailedTypes DEF CallFails, Phase, PhaseAt
  <2> QED
    BY Zenon, <1>5, <1>c, <1>d, <2>1, <2>2 DEF CallFails
<1>6. ASSUME NEW r \in Requests, StreamOpens(r) PROVE TypeOK'
  <2>1. RouteTypeOK' /\ SrcTypeOK'
    BY <1>0, <1>6 DEF StreamOpens, RouteTypeOK, SrcTypeOK
  <2> QED
    BY <1>6, <1>a, <1>b, <1>d, <2>1, Zenon DEF StreamOpens
<1>7. ASSUME NEW r \in Requests, PeekCancelled(r) PROVE TypeOK'
  <2>1. GateTypeOK'
    BY Zenon, <1>0, <1>7, PermitHeld, ReleaseType DEF PeekCancelled, GateTypeOK
  <2> QED
    BY <1>7, <1>a, <1>c, <1>d, <1>f, <2>1, Zenon DEF PeekCancelled
<1>8. ASSUME NEW r \in Requests, NEW d \in CallTimes, PeekClosed(r, d) PROVE TypeOK'
  <2>1. GateTypeOK'
    <3>1. ObservedOk("retryable") \in BOOLEAN
      BY Zenon DEF ObservedOk, IsRetryable
    <3> QED
      BY <1>0, <1>8, <3>1, PermitHeld, ReleaseType, Zenon DEF PeekClosed, GateTypeOK
  <2>2. RouteTypeOK' /\ ReqTypeOK'
    BY <1>0, <1>8, FailedTypes, Zenon DEF PeekClosed, Phase, PhaseAt
  <2> QED
    BY <1>8, <1>c, <1>d, <2>1, <2>2, Zenon DEF PeekClosed
<1>9. ASSUME NEW r \in Requests, NEW d \in CallTimes, PeekError(r, d) PROVE TypeOK'
  <2> DEFINE e == Head(src[r]).kind
  <2>0. e \in {"retryable", "fatal"}
    BY <1>9, Zenon DEF PeekError, ErrorClasses
  <2>1. GateTypeOK'
    <3>1. ObservedOk(e) \in BOOLEAN
      BY Zenon DEF ObservedOk, IsRetryable
    <3> QED
      BY <1>0, <1>9, <3>1, PermitHeld, ReleaseType, Zenon DEF PeekError, GateTypeOK
  <2>2. RouteTypeOK' /\ ReqTypeOK'
    BY Zenon, <1>0, <1>9, <2>0, FailedTypes DEF PeekError, Phase, PhaseAt
  <2>3. SrcTypeOK'
    BY <1>0, <1>9, HeadTail, Zenon DEF PeekError, SrcTypeOK
  <2> QED
    BY Zenon, <1>9, <1>d, <2>1, <2>2, <2>3 DEF PeekError
<1>10. ASSUME NEW r \in Requests, PeekChunk(r) PROVE TypeOK'
  <2>1. src[r] \in Seq(Events) /\ src[r] # <<>>
    BY <1>0, <1>10, Zenon DEF PeekChunk, SrcTypeOK
  <2>2. Head(src[r]) \in Events /\ Tail(src[r]) \in Seq(Events)
    BY <2>1, HeadTail, Zenon
  <2>3. SrcTypeOK'
    BY <1>0, <1>10, <2>2, Zenon DEF PeekChunk, SrcTypeOK
  <2>4. FwdTypeOK'
    BY <1>0, <1>10, <2>2, Zenon DEF PeekChunk, FwdTypeOK
  <2>5. RouteTypeOK'
    BY <1>0, <1>10, Zenon DEF PeekChunk, RouteTypeOK
  <2> QED
    BY <1>10, <1>a, <1>b, <2>3, <2>4, <2>5, Zenon DEF PeekChunk
<1>11. ASSUME NEW r \in Requests, SleepEnds(r) PROVE TypeOK'
  <2>1. attempt[r] + 1 \in Nat /\ elapsed[r] + delay[r] \in Nat
    <3>1. attempt[r] \in Nat /\ elapsed[r] \in Nat /\ delay[r] \in Nat
      BY <1>0, Zenon DEF ReqTypeOK
    <3> QED
      BY <3>1
  <2>2. RouteTypeOK' /\ ReqTypeOK'
    BY <1>0, <1>11, <2>1, Zenon DEF SleepEnds, RouteTypeOK, ReqTypeOK
  <2> QED
    BY <1>11, <1>b, <1>c, <1>d, <2>2, Zenon DEF SleepEnds
<1>12. ASSUME NEW r \in Requests, SleepCancelled(r) PROVE TypeOK'
  BY <1>12, <1>a, <1>b, <1>c, <1>d, <1>f, Zenon DEF SleepCancelled
<1>13. ASSUME NEW r \in Requests, ProduceChunk(r) PROVE TypeOK'
  <2>1. Chunk(r, emitted[r] + 1) \in Events
    BY <1>0 DEF Chunk, Events, ReqTypeOK, SrcTypeOK
  <2>2. SrcTypeOK'
    BY <1>0, <1>13, <2>1 DEF ProduceChunk, SrcTypeOK
  <2> QED
    BY <1>13, <1>a, <1>b, <1>d, <1>e, <2>2, Zenon DEF ProduceChunk
<1>14. ASSUME NEW r \in Requests, NEW e \in ErrorClasses, ProduceError(r, e) PROVE TypeOK'
  <2>1. ErrorEvent(r, e) \in Events
    BY <1>0, Zenon DEF ErrorEvent, ErrorClasses, Events, ReqTypeOK
  <2>2. SrcTypeOK'
    BY <1>0, <1>14, <2>1 DEF ProduceError, SrcTypeOK
  <2> QED
    BY <1>14, <1>a, <1>b, <1>d, <1>e, <2>2, Zenon DEF ProduceError
<1>15. ASSUME NEW r \in Requests, ProduceEnd(r) \/ ProduceCancel(r) PROVE TypeOK'
  <2>1. SrcTypeOK'
    BY Zenon, <1>0, <1>15 DEF ProduceEnd, ProduceCancel, SrcTypeOK
  <2> QED
    BY <1>15, <1>a, <1>b, <1>d, <1>e, <2>1, Zenon DEF ProduceEnd, ProduceCancel
<1>16. ASSUME NEW r \in Requests, ForwardSend(r) PROVE TypeOK'
  <2>1. hold[r].kind # "chunk" => hold[r].kind \in {"none", "retryable", "fatal"}
    BY <1>0, Zenon DEF FwdTypeOK, Events
  <2>2. lastErr' \in [Requests -> {"none", "retryable", "fatal"}]
    BY <1>0, <1>16, <2>1, Zenon DEF ForwardSend, FwdTypeOK
  <2>3. out' \in [Requests -> Seq(Events)]
    BY <1>0, <1>16 DEF ForwardSend, FwdTypeOK
  <2>4. FwdTypeOK'
    BY <1>0, <1>16, <2>2, <2>3, Zenon DEF ForwardSend, FwdTypeOK
  <2> QED
    BY <1>16, <1>a, <1>b, <1>c, <1>e, <2>4, Zenon DEF ForwardSend
<1>17. ASSUME NEW r \in Requests, ForwardAbandons(r) \/ ForwardEnds(r) PROVE TypeOK'
  <2>1. GateTypeOK'
    <3>1. ObservedOk(lastErr[r]) \in BOOLEAN
      BY Zenon DEF ObservedOk, IsRetryable
    <3>2. permit[r] \in Providers
      BY Zenon, <1>0, <1>17, PermitHeld DEF ForwardAbandons, ForwardEnds
    <3>3. \E ok \in BOOLEAN : Release(r, ok)
      BY Zenon, <1>17, <3>1 DEF ForwardAbandons, ForwardEnds
    <3> QED
      BY <1>0, <3>2, <3>3, ReleaseType, Zenon DEF GateTypeOK
  <2>2. FwdTypeOK'
    BY Zenon, <1>0, <1>17 DEF ForwardAbandons, ForwardEnds, FwdTypeOK
  <2> QED
    BY Zenon, <1>17, <1>a, <1>c, <1>e, <2>1, <2>2 DEF ForwardAbandons, ForwardEnds
<1>18. ASSUME NEW r \in Requests, ForwardReceive(r) PROVE TypeOK'
  <2>1. src[r] \in Seq(Events) /\ src[r] # <<>>
    BY <1>0, <1>18, Zenon DEF ForwardReceive, SrcTypeOK
  <2>2. Head(src[r]) \in Events /\ Tail(src[r]) \in Seq(Events)
    BY <2>1, HeadTail, Zenon
  <2>3. SrcTypeOK'
    BY <1>0, <1>18, <2>2, Zenon DEF ForwardReceive, SrcTypeOK
  <2>4. FwdTypeOK'
    BY <1>0, <1>18, <2>2, Zenon DEF ForwardReceive, FwdTypeOK
  <2> QED
    BY <1>18, <1>a, <1>b, <1>e, <2>3, <2>4, Zenon DEF ForwardReceive
<1>19. ASSUME NEW r \in Requests, ReceiveChunk(r) \/ ReceiveError(r) PROVE TypeOK'
  <2>1. out[r] \in Seq(Events) /\ out[r] # <<>>
    BY <1>0, <1>19, Zenon DEF ReceiveChunk, ReceiveError, FwdTypeOK
  <2>2. Head(out[r]) \in Events /\ Tail(out[r]) \in Seq(Events)
    BY <2>1, HeadTail, Zenon
  <2>3. FwdTypeOK'
    <3>1. CASE ReceiveChunk(r)
      <4>1. delivered' \in [Requests -> Seq(Events)]
        BY <1>0, <2>2, <3>1 DEF ReceiveChunk, FwdTypeOK
      <4> QED
        BY <1>0, <2>2, <3>1, <4>1, Zenon DEF ReceiveChunk, FwdTypeOK
    <3>2. CASE ReceiveError(r)
      BY <1>0, <2>2, <3>2, Zenon DEF ReceiveError, FwdTypeOK
    <3> QED
      BY <1>19, <3>1, <3>2, Zenon
  <2>4. RouteTypeOK'
    BY <1>19, <1>e, <1>f, Zenon DEF ReceiveChunk, ReceiveError, ErrorClasses
  <2> QED
    BY <1>19, <1>a, <1>b, <1>c, <2>3, <2>4, Zenon DEF ReceiveChunk, ReceiveError
<1>20. ASSUME NEW r \in Requests, ReceiveClosed(r) \/ WriteFails(r) PROVE TypeOK'
  <2>1. RouteTypeOK'
    BY <1>20, <1>f, Zenon DEF ReceiveClosed, WriteFails
  <2> QED
    BY <1>20, <1>a, <1>b, <1>c, <1>d, <2>1, Zenon DEF ReceiveClosed, WriteFails
<1>21. ASSUME NEW r \in Requests, ClientGone(r) PROVE TypeOK'
  <2>1. RouteTypeOK'
    BY <1>0, <1>21, Zenon DEF ClientGone, RouteTypeOK
  <2> QED
    BY <1>21, <1>a, <1>b, <1>c, <1>d, <2>1, Zenon DEF ClientGone
<1>22. ASSUME NEW p \in Providers, Expire(p) PROVE TypeOK'
  <2>1. [cbs[p] EXCEPT !.due = TRUE] \in Breaker
    BY Zenon, <1>0 DEF GateTypeOK, Breaker
  <2>2. GateTypeOK'
    BY <1>0, <1>22, <2>1, Zenon DEF Expire, GateTypeOK
  <2> QED
    BY <1>22, <1>a, <1>c, <1>d, <1>e, <2>2, Zenon DEF Expire
<1>23. ASSUME UNCHANGED vars PROVE TypeOK'
  BY <1>23, <1>a, <1>b, <1>c, <1>d, <1>e, Zenon DEF vars
<1> QED
  BY Zenon, <1>1, <1>2, <1>3, <1>4, <1>5, <1>6, <1>7, <1>8, <1>9, <1>10, <1>11, <1>12, <1>13,
     <1>14, <1>15, <1>16, <1>17, <1>18, <1>19, <1>20, <1>21, <1>22, <1>23, RouterConstants
     DEF Next, Route, CallReturns, Peek, Produce, Forward, Receive, AllSettled

-----------------------------------------------------------------------------
\* A step of one request leaves what the others see alone.
Same(q) ==
  /\ pc'[q] = pc[q] /\ chain'[q] = chain[q] /\ idx'[q] = idx[q] /\ calls'[q] = calls[q]
  /\ cancelled'[q] = cancelled[q] /\ outcome'[q] = outcome[q] /\ permit'[q] = permit[q]
  /\ prod'[q] = prod[q] /\ emitted'[q] = emitted[q] /\ src'[q] = src[q]
  /\ fwd'[q] = fwd[q] /\ hold'[q] = hold[q] /\ out'[q] = out[q]
  /\ delivered'[q] = delivered[q]

\* What the invariant says of one request.
InvAt(r) ==
  /\ PhaseAt(r)
  /\ permit[r] = IF pc[r] \in {"call", "peek"} \/ fwd[r] \in {"send", "recv"}
                 THEN chain[r][idx[r]] ELSE NoProvider
  /\ PipeAt(r)
  /\ r \in Streams /\ outcome[r] = "ok" =>
       prod[r] = "done" /\ Len(delivered[r]) = emitted[r]

\* The invariant is TypeOK and InvAt of every request, now and after a step.
LEMMA InvPointwise ==
  /\ IInv <=> TypeOK /\ \A r \in Requests : InvAt(r)
  /\ IInv' <=> TypeOK' /\ \A r \in Requests : InvAt(r)'
<1>1. Streams \subseteq Requests
  BY RouterConstants, Zenon
<1> QED
  BY <1>1, Zenon DEF IInv, Phase, Pipe, PermitDiscipline, CleanEndIsComplete, InvAt

\* A request that a step leaves alone keeps its part of the invariant.
LEMMA SameInv ==
  ASSUME NEW q \in Requests, InvAt(q), Same(q)
  PROVE  InvAt(q)'
<1>1. PhaseAt(q)'
  BY Zenon DEF InvAt, Same, PhaseAt
<1>2. /\ \A k : Chunk(q, k)' = Chunk(q, k)
      /\ Taken(q)' = Taken(q) /\ Queued(q)' = Queued(q) /\ Produced(q)' = Produced(q)
      /\ Reading(q)' <=> Reading(q)
  BY Zenon DEF Same, Chunk, Taken, Queued, Produced, Reading
<1>3. PipeAt(q)'
  BY <1>2, Zenon DEF InvAt, Same, PipeAt
<1> QED
  BY <1>1, <1>3, Zenon DEF InvAt, Same

\* A failed attempt or a refusal, seen from the other requests.
LEMMA MovesSame ==
  ASSUME TypeOK, NEW r \in Requests, NEW q \in Requests \ {r},
         NEW e \in {"breaker", "retryable", "fatal", "canceled"}, Moves(r, e)
  PROVE  /\ pc'[q] = pc[q] /\ idx'[q] = idx[q]
         /\ outcome'[q] = outcome[q] /\ cancelled'[q] = cancelled[q]
BY MovesTypes, Zenon DEF TypeOK

\* While no forwarder exists and the handler reads no channel, the pipeline is
\* empty and only Phase and the permit are left to show.
LEMMA QuietInv ==
  ASSUME NEW r \in Requests, PhaseAt(r)',
         fwd'[r] = "none", delivered'[r] = <<>>, out'[r] = <<>>,
         pc'[r] \notin {"peek", "range"},
         permit'[r] = IF pc'[r] = "call" THEN chain'[r][idx'[r]] ELSE NoProvider,
         r \in Streams => outcome'[r] # "ok"
  PROVE  InvAt(r)'
<1>1. PipeAt(r)'
  BY DEF PipeAt, Reading
<1> QED
  BY <1>1, Zenon DEF InvAt

\* The handler has not committed to a stream, so nothing was forwarded.
LEMMA NotCommitted ==
  ASSUME NEW r \in Requests, InvAt(r), pc[r] \in {"idle", "gate", "call", "peek", "sleep"}
  PROVE  /\ fwd[r] = "none" /\ delivered[r] = <<>> /\ out[r] = <<>>
         /\ outcome[r] = "none"
         /\ pc[r] # "idle" => chain[r] # <<>> /\ idx[r] \in 1..Len(chain[r])
BY Zenon DEF InvAt, PhaseAt, PipeAt

\* A provider is given up: retry, failover or return.
LEMMA MovedInv ==
  ASSUME IInv, NEW r \in Requests, pc[r] \in {"gate", "call", "peek"},
         NEW e \in {"breaker", "retryable", "fatal", "canceled"}, Moves(r, e),
         chain' = chain, calls' = calls,
         permit' \in [Requests -> Providers \cup {NoProvider}], permit'[r] = NoProvider,
         \A q \in Requests \ {r} : permit'[q] = permit[q],
         prod' = prod, emitted' = emitted,
         \A q \in Requests \ {r} : src'[q] = src[q],
         UNCHANGED <<fwdVars, delivered>>
  PROVE  \A q \in Requests : InvAt(q)'
<1>0. TypeOK /\ InvAt(r)
  BY InvPointwise, Zenon
<1>1. SUFFICES ASSUME NEW q \in Requests PROVE InvAt(q)'
  BY Zenon
<1>2. CASE q # r
  <2>1. /\ pc'[q] = pc[q] /\ idx'[q] = idx[q]
        /\ outcome'[q] = outcome[q] /\ cancelled'[q] = cancelled[q]
    BY <1>0, <1>2, MovesSame, Zenon
  <2>2. Same(q)
    BY <1>2, <2>1, Zenon DEF Same, fwdVars
  <2> QED
    BY <2>2, InvPointwise, SameInv, Zenon
<1>3. CASE q = r
  <2>1. /\ fwd'[r] = "none" /\ delivered'[r] = <<>> /\ out'[r] = <<>>
        /\ outcome[r] = "none" /\ chain[r] # <<>>
    BY <1>0, NotCommitted, Zenon DEF fwdVars
  <2>2. /\ pc'[r] \in {"gate", "sleep", "end"}
        /\ cancelled[r] => cancelled'[r]
        /\ pc'[r] # "end" => outcome'[r] = outcome[r]
        /\ outcome'[r] = "ok" => outcome[r] = "ok"
        /\ idx'[r] \in 1..Len(chain[r])
    BY Zenon, <1>0, MovesTypes DEF Moves, TypeOK
  <2>3. PhaseAt(r)'
    BY Zenon, <1>0, <2>1, <2>2 DEF PhaseAt, InvAt
  <2> QED
    BY Zenon, <1>3, <2>1, <2>2, <2>3, QuietInv
<1> QED
  BY <1>2, <1>3, Zenon

\* The done callback changes the caller's permit only.
LEMMA ReleaseInv ==
  ASSUME TypeOK, NEW r \in Requests, NEW ok \in BOOLEAN, Release(r, ok),
         permit[r] \in Providers
  PROVE  /\ permit' \in [Requests -> Providers \cup {NoProvider}]
         /\ permit'[r] = NoProvider
         /\ \A q \in Requests \ {r} : permit'[q] = permit[q]
<1>1. permit' = [permit EXCEPT ![r] = NoProvider] /\ permit \in [Requests -> Providers \cup {NoProvider}]
  BY Zenon DEF Release, TypeOK, GateTypeOK
<1> QED
  BY <1>1, Zenon

\* Steps of the handler inside the router.
LEMMA RouteInv ==
  ASSUME IInv, NEW r \in Requests, Route(r)
  PROVE  \A q \in Requests : InvAt(q)'
<1>0. TypeOK /\ InvAt(r) /\ Phase /\ PermitDiscipline
  BY Zenon, InvPointwise DEF IInv
<1>s. ASSUME \A q \in Requests \ {r} : Same(q), InvAt(r)'
      PROVE  \A q \in Requests : InvAt(q)'
  BY <1>s, InvPointwise, SameInv, Zenon
<1>h. pc[r] \in {"call", "peek"} => permit[r] \in Providers
  BY <1>0, PermitHeld, Zenon
<1> USE DEF TypeOK, RouteTypeOK
<1>1. CASE Start(r)
  <2>1. \A q \in Requests \ {r} : Same(q)
    BY Zenon, <1>0, <1>1 DEF Start, Finish, Same, ReqTypeOK, gateVars, srcVars, fwdVars
  <2>2. /\ fwd[r] = "none" /\ delivered[r] = <<>> /\ out[r] = <<>> /\ outcome[r] = "none"
        /\ idx[r] = 1 /\ permit[r] = NoProvider
    BY Zenon, <1>0, <1>1, NotCommitted DEF Start, InvAt, PhaseAt
  <2>3. PICK c \in Chains :
          /\ chain' = [chain EXCEPT ![r] = c]
          /\ \/ c = <<>> /\ Finish(r, "nochain")
             \/ /\ c # <<>>
                /\ pc' = [pc EXCEPT ![r] = "gate"]
                /\ UNCHANGED <<outcome, cancelled>>
    BY Zenon, <1>1 DEF Start
  <2>4. chain'[r] = c /\ c \in Seq(Providers)
    BY <1>0, <2>3, RouterConstants, Zenon DEF ReqTypeOK
  <2>5. c # <<>> => 1 \in 1..Len(c)
    BY <2>4
  <2>6. \/ c = <<>> /\ pc'[r] = "end" /\ cancelled'[r] /\ outcome'[r] = "nochain"
        \/ c # <<>> /\ pc'[r] = "gate" /\ cancelled'[r] = cancelled[r] /\ outcome'[r] = "none"
    BY <1>0, <2>2, <2>3, Zenon DEF Finish
  <2>7. PhaseAt(r)'
    BY Zenon, <1>0, <1>1, <2>2, <2>4, <2>5, <2>6 DEF Start, PhaseAt, InvAt, srcVars, fwdVars
  <2>8. InvAt(r)'
    BY Zenon, <1>1, <2>2, <2>6, <2>7, QuietInv DEF Start, fwdVars, gateVars
  <2> QED
    BY <1>s, <2>1, <2>8, Zenon
<1>2. CASE GateAdmits(r)
  <2>1. \A q \in Requests \ {r} : Same(q)
    BY Zenon, <1>0, <1>2 DEF GateAdmits, Same, ReqTypeOK, GateTypeOK, srcVars, fwdVars
  <2>2. /\ fwd[r] = "none" /\ delivered[r] = <<>> /\ out[r] = <<>> /\ outcome[r] = "none"
    BY Zenon, <1>0, <1>2, NotCommitted DEF GateAdmits
  <2>3. pc'[r] = "call" /\ permit'[r] = chain'[r][idx'[r]]
    BY Zenon, <1>0, <1>2 DEF GateAdmits, GateTypeOK
  <2>4. PhaseAt(r)'
    BY Zenon, <1>0, <1>2, <2>2, <2>3 DEF GateAdmits, PhaseAt, InvAt, srcVars, fwdVars
  <2>5. InvAt(r)'
    BY Zenon, <1>2, <2>2, <2>3, <2>4, QuietInv DEF GateAdmits, fwdVars
  <2> QED
    BY <1>s, <2>1, <2>5, Zenon
<1>3. CASE GateRejects(r)
  <2>1. /\ elapsed[r] \in Nat /\ chain[r] # <<>>
        /\ permit \in [Requests -> Providers \cup {NoProvider}] /\ permit[r] = NoProvider
    BY Zenon, <1>0, <1>3 DEF GateRejects, InvAt, PhaseAt, ReqTypeOK, GateTypeOK
  <2>2. Moves(r, "breaker")
    BY Zenon, <1>0, <1>3, <2>1, ChainNextMoves DEF GateRejects
  <2> QED
    BY Zenon, <1>0, <1>3, <2>1, <2>2, MovedInv DEF GateRejects, srcVars
<1>4. ASSUME NEW d \in CallTimes, CallSucceeds(r, d) PROVE \A q \in Requests : InvAt(q)'
  <2>0. /\ permit'[r] = NoProvider
        /\ \A q \in Requests \ {r} : permit'[q] = permit[q]
    BY Zenon, <1>0, <1>4, <1>h, ReleaseInv DEF CallSucceeds
  <2>1. \A q \in Requests \ {r} : Same(q)
    BY Zenon, <1>0, <1>4, <2>0 DEF CallSucceeds, Finish, Same, ReqTypeOK, srcVars, fwdVars
  <2>2. fwd[r] = "none" /\ delivered[r] = <<>> /\ out[r] = <<>>
    BY Zenon, <1>0, <1>4, NotCommitted DEF CallSucceeds
  <2>3. pc'[r] = "end" /\ cancelled'[r] /\ r \notin Streams
    BY <1>0, <1>4, Zenon DEF CallSucceeds, Finish
  <2>4. PhaseAt(r)'
    BY Zenon, <1>0, <1>4, <2>2, <2>3 DEF CallSucceeds, PhaseAt, InvAt, srcVars, fwdVars
  <2>5. InvAt(r)'
    BY Zenon, <1>4, <2>0, <2>2, <2>3, <2>4, QuietInv DEF CallSucceeds, fwdVars
  <2> QED
    BY <1>s, <2>1, <2>5, Zenon
<1>5. ASSUME NEW e \in {"retryable", "fatal", "canceled"},
             NEW ra \in RetryAfters \cup {0}, NEW d \in CallTimes, CallFails(r, e, ra, d)
      PROVE  \A q \in Requests : InvAt(q)'
  <2>1. ObservedOk(e) \in BOOLEAN
    BY Zenon DEF ObservedOk, IsRetryable
  <2>2. /\ permit' \in [Requests -> Providers \cup {NoProvider}]
        /\ permit'[r] = NoProvider
        /\ \A q \in Requests \ {r} : permit'[q] = permit[q]
    BY <1>0, <1>5, <1>h, <2>1, ReleaseInv, Zenon DEF CallFails
  <2>3. Moves(r, e) /\ chain' = chain /\ calls' = calls
    BY Zenon, <1>0, <1>5, AttemptFailedMoves DEF CallFails, InvAt, PhaseAt
  <2> QED
    BY Zenon, <1>0, <1>5, <2>2, <2>3, MovedInv DEF CallFails, srcVars
<1>6. CASE StreamOpens(r)
  <2>1. \A q \in Requests \ {r} : Same(q)
    BY Zenon, <1>0, <1>6 DEF StreamOpens, Same, SrcTypeOK, reqVars, gateVars, fwdVars
  <2>2. fwd[r] = "none" /\ delivered[r] = <<>> /\ out[r] = <<>> /\ outcome[r] = "none"
    BY Zenon, <1>0, <1>6, NotCommitted DEF StreamOpens
  <2>3. /\ pc'[r] = "peek" /\ prod'[r] = "run" /\ emitted'[r] = 0 /\ src'[r] = <<>>
        /\ pc[r] = "call"
        /\ UNCHANGED <<chain, idx, calls, cancelled, outcome, permit, fwd, out, delivered>>
    BY Zenon, <1>0, <1>6 DEF StreamOpens, SrcTypeOK, reqVars, gateVars, fwdVars
  <2>4. PhaseAt(r)'
    BY Zenon, <1>0, <2>2, <2>3 DEF PhaseAt, InvAt
  <2>5. Len(<<>>) = 0 /\ Taken(r)' = 0 /\ Produced(r)' = 0
    <3>1. Len(<<>>) = 0
      BY Zenon
    <3>2. Len(out'[r]) = 0 /\ Len(delivered'[r]) = 0 /\ fwd'[r] # "send" /\ prod'[r] # "err"
      BY Zenon, <2>2, <2>3, <3>1
    <3>3. 0 + 0 = 0
      OBVIOUS
    <3> QED
      BY Zenon, <2>3, <3>1, <3>2, <3>3 DEF Taken, Queued, Produced
  <2>6. PipeAt(r)'
    BY <2>2, <2>3, <2>5, RunEmpty DEF PipeAt
  <2>7. InvAt(r)'
    BY Zenon, <1>0, <2>2, <2>3, <2>4, <2>6 DEF InvAt
  <2> QED
    BY <1>s, <2>1, <2>7, Zenon
<1>7. CASE PeekCancelled(r)
  <2>0. /\ permit'[r] = NoProvider
        /\ \A q \in Requests \ {r} : permit'[q] = permit[q]
    BY Zenon, <1>0, <1>7, <1>h, ReleaseInv DEF PeekCancelled
  <2>1. \A q \in Requests \ {r} : Same(q)
    BY Zenon, <1>0, <1>7, <2>0 DEF PeekCancelled, Finish, Same, reqVars, srcVars, fwdVars
  <2>2. fwd[r] = "none" /\ delivered[r] = <<>> /\ out[r] = <<>>
    BY Zenon, <1>0, <1>7, NotCommitted DEF PeekCancelled
  <2>3. pc'[r] = "end" /\ cancelled'[r] /\ outcome'[r] = "canceled"
    BY <1>0, <1>7, Zenon DEF PeekCancelled, Finish
  <2>4. PhaseAt(r)'
    BY Zenon, <1>0, <1>7, <2>2, <2>3 DEF PeekCancelled, PhaseAt, InvAt, reqVars, srcVars, fwdVars
  <2>5. InvAt(r)'
    BY Zenon, <1>7, <2>0, <2>2, <2>3, <2>4, QuietInv DEF PeekCancelled, fwdVars
  <2> QED
    BY <1>s, <2>1, <2>5, Zenon
<1>8. ASSUME NEW d \in CallTimes, PeekClosed(r, d) PROVE \A q \in Requests : InvAt(q)'
  <2>1. ObservedOk("retryable") \in BOOLEAN
    BY Zenon DEF ObservedOk, IsRetryable
  <2>2. /\ permit' \in [Requests -> Providers \cup {NoProvider}]
        /\ permit'[r] = NoProvider
        /\ \A q \in Requests \ {r} : permit'[q] = permit[q]
    BY Zenon, <1>0, <1>8, <1>h, <2>1, ReleaseInv DEF PeekClosed
  <2>3. Moves(r, "retryable") /\ chain' = chain /\ calls' = calls
    BY Zenon, <1>0, <1>8, AttemptFailedMoves DEF PeekClosed, InvAt, PhaseAt
  <2> QED
    BY Zenon, <1>0, <1>8, <2>2, <2>3, MovedInv DEF PeekClosed, srcVars
<1>9. ASSUME NEW d \in CallTimes, PeekError(r, d) PROVE \A q \in Requests : InvAt(q)'
  <2> DEFINE e == Head(src[r]).kind
  <2>0. e \in {"retryable", "fatal"}
    BY <1>9, Zenon DEF PeekError, ErrorClasses
  <2>1. ObservedOk(e) \in BOOLEAN
    BY Zenon DEF ObservedOk, IsRetryable
  <2>2. /\ permit' \in [Requests -> Providers \cup {NoProvider}]
        /\ permit'[r] = NoProvider
        /\ \A q \in Requests \ {r} : permit'[q] = permit[q]
    BY Zenon, <1>0, <1>9, <1>h, <2>1, ReleaseInv DEF PeekError
  <2>3. Moves(r, e) /\ chain' = chain /\ calls' = calls
    BY Zenon, <1>0, <1>9, <2>0, AttemptFailedMoves DEF PeekError, InvAt, PhaseAt
  <2>4. \A q \in Requests \ {r} : src'[q] = src[q]
    BY Zenon, <1>0, <1>9 DEF PeekError, SrcTypeOK
  <2> HIDE DEF e
  <2> QED
    BY Zenon, <1>0, <1>9, <2>0, <2>2, <2>3, <2>4, MovedInv DEF PeekError
<1>10. CASE PeekChunk(r)
  <2>1. \A q \in Requests \ {r} : Same(q)
    BY Zenon, <1>0, <1>10 DEF PeekChunk, Same, SrcTypeOK, FwdTypeOK, reqVars, gateVars
  <2>2. fwd[r] = "none" /\ delivered[r] = <<>> /\ out[r] = <<>> /\ outcome[r] = "none"
    BY Zenon, <1>0, <1>10, NotCommitted DEF PeekChunk
  <2>3. /\ pc'[r] = "range" /\ fwd'[r] = "send" /\ hold'[r] = Head(src[r])
        /\ src'[r] = Tail(src[r]) /\ pc[r] = "peek" /\ src[r] # <<>>
        /\ UNCHANGED <<chain, idx, calls, cancelled, outcome, permit, prod, emitted, out,
                       delivered>>
    BY Zenon, <1>0, <1>10 DEF PeekChunk, SrcTypeOK, FwdTypeOK, reqVars, gateVars
  <2>4. PhaseAt(r)'
    BY Zenon, <1>0, <2>2, <2>3 DEF PhaseAt, InvAt
  <2>5. Len(<<>>) = 0 /\ Queued(r) = 0 /\ Queued(r)' = 0
    <3>1. Len(<<>>) = 0
      BY Zenon
    <3>2. /\ Len(out[r]) = 0 /\ Len(delivered[r]) = 0
          /\ Len(out'[r]) = 0 /\ Len(delivered'[r]) = 0
      BY Zenon, <2>2, <2>3, <3>1
    <3> QED
      BY <3>1, <3>2 DEF Queued
  <2>6. /\ Taken(r) = 0 /\ Taken(r)' = 1 /\ Produced(r)' = Produced(r) /\ Reading(r)
    <3>1. 0 + 0 = 0 /\ 0 + 1 = 1
      OBVIOUS
    <3> QED
      BY Zenon, <2>2, <2>3, <2>5, <3>1 DEF Taken, Produced, Reading
  <2>7. src[r] \in Seq(Events) /\ calls[r] \in Nat /\ emitted[r] \in Nat
    BY <1>0, Zenon DEF SrcTypeOK, ReqTypeOK
  <2>8. /\ EventOk(calls[r], emitted[r], 0 + 1, Head(src[r]))
        /\ Run(calls[r], emitted[r], 0 + 1, Tail(src[r]))
        /\ 0 + Len(src[r]) = Produced(r)
        /\ Len(Tail(src[r])) = Len(src[r]) - 1 /\ Len(src[r]) \in Nat \ {0}
    <3>1. Run(calls[r], emitted[r], 0, src[r]) /\ 0 + Len(src[r]) = Produced(r)
      BY Zenon, <1>0, <2>6 DEF InvAt, PipeAt
    <3> QED
      BY Zenon, <2>3, <2>7, <3>1, RunTail, HeadTail
  <2>9. PipeAt(r)'
    <3>1. \A n, k : n \in Nat \ {0} /\ 0 + n = k => 1 <= k /\ 1 + (n - 1) = k
      OBVIOUS
    <3>2. 1 <= Produced(r)' /\ 1 + Len(src'[r]) = Produced(r)'
      BY Zenon, <2>3, <2>6, <2>8, <3>1
    <3>3. 0 + 1 = 1 /\ (\A i : i \notin 1..0) /\ \A n \in Nat : 0 <= n
      OBVIOUS
    <3>4. Run(calls'[r], emitted'[r], Len(delivered'[r]), out'[r])
      BY Zenon, <2>2, <2>3, RunEmpty
    <3> QED
      BY Zenon, <2>2, <2>3, <2>5, <2>6, <2>7, <2>8, <3>2, <3>3, <3>4 DEF PipeAt
  <2>10. InvAt(r)'
    BY Zenon, <1>0, <2>2, <2>3, <2>4, <2>9 DEF InvAt
  <2> QED
    BY <1>s, <2>1, <2>10, Zenon
<1>11. CASE SleepEnds(r)
  <2>1. \A q \in Requests \ {r} : Same(q)
    BY Zenon, <1>0, <1>11 DEF SleepEnds, Same, gateVars, srcVars, fwdVars
  <2>2. /\ fwd[r] = "none" /\ delivered[r] = <<>> /\ out[r] = <<>> /\ outcome[r] = "none"
        /\ permit[r] = NoProvider
    BY Zenon, <1>0, <1>11, NotCommitted DEF SleepEnds, InvAt
  <2>3. pc'[r] = "gate"
    BY Zenon, <1>0, <1>11 DEF SleepEnds
  <2>4. PhaseAt(r)'
    BY Zenon, <1>0, <1>11, <2>2, <2>3 DEF SleepEnds, PhaseAt, InvAt, srcVars, fwdVars
  <2>5. InvAt(r)'
    BY Zenon, <1>11, <2>2, <2>3, <2>4, QuietInv DEF SleepEnds, fwdVars, gateVars
  <2> QED
    BY <1>s, <2>1, <2>5, Zenon
<1>12. CASE SleepCancelled(r)
  <2>1. \A q \in Requests \ {r} : Same(q)
    BY Zenon, <1>0, <1>12 DEF SleepCancelled, Finish, Same, reqVars, gateVars, srcVars, fwdVars
  <2>2. /\ fwd[r] = "none" /\ delivered[r] = <<>> /\ out[r] = <<>>
        /\ permit[r] = NoProvider
    BY Zenon, <1>0, <1>12, NotCommitted DEF SleepCancelled, InvAt
  <2>3. pc'[r] = "end" /\ cancelled'[r] /\ outcome'[r] = "canceled"
    BY Zenon, <1>0, <1>12 DEF SleepCancelled, Finish
  <2>4. PhaseAt(r)'
    BY Zenon, <1>0, <1>12, <2>2, <2>3 DEF SleepCancelled, PhaseAt, InvAt, reqVars, srcVars, fwdVars
  <2>5. InvAt(r)'
    BY Zenon, <1>12, <2>2, <2>3, <2>4, QuietInv DEF SleepCancelled, fwdVars, gateVars
  <2> QED
    BY Zenon, <1>s, <2>1, <2>5
<1> QED
  BY <1>1, <1>2, <1>3, <1>4, <1>5, <1>6, <1>7, <1>8, <1>9, <1>10, <1>11, <1>12, Zenon
     DEF Route, CallReturns, Peek

-----------------------------------------------------------------------------
\* The counters of the pipeline are natural numbers, in the order of the stages.
LEMMA CountTypes ==
  ASSUME TypeOK, NEW r \in Requests
  PROVE  /\ Len(delivered[r]) \in Nat /\ Len(out[r]) \in Nat /\ Len(src[r]) \in Nat
         /\ emitted[r] \in Nat
         /\ Queued(r) \in Nat /\ Taken(r) \in Nat /\ Produced(r) \in Nat
         /\ Queued(r) <= Taken(r) /\ emitted[r] <= Produced(r)
<1>1. /\ Len(delivered[r]) \in Nat /\ Len(out[r]) \in Nat /\ Len(src[r]) \in Nat
      /\ emitted[r] \in Nat
  BY DEF TypeOK, FwdTypeOK, SrcTypeOK
<1>2. Queued(r) \in Nat
  BY DEF Queued, TypeOK, FwdTypeOK
<1>3. Taken(r) \in Nat /\ Queued(r) <= Taken(r)
  BY <1>2 DEF Taken
<1>4. Produced(r) \in Nat /\ emitted[r] <= Produced(r)
  BY <1>1 DEF Produced
<1> QED
  BY <1>1, <1>2, <1>3, <1>4, Zenon

\* Steps of the producer.
LEMMA ProduceInv ==
  ASSUME IInv, NEW r \in Requests, Produce(r)
  PROVE  \A q \in Requests : InvAt(q)'
<1>0. TypeOK /\ InvAt(r) /\ PipeAt(r)
  BY InvPointwise, Zenon DEF InvAt
<1>s. ASSUME \A q \in Requests \ {r} : Same(q), InvAt(r)'
      PROVE  \A q \in Requests : InvAt(q)'
  BY <1>s, InvPointwise, SameInv, Zenon
<1>n. /\ Len(delivered[r]) \in Nat /\ Len(out[r]) \in Nat /\ Len(src[r]) \in Nat
      /\ emitted[r] \in Nat
      /\ Queued(r) \in Nat /\ Taken(r) \in Nat /\ Produced(r) \in Nat
      /\ Queued(r) <= Taken(r) /\ emitted[r] <= Produced(r)
  <2>1. TypeOK
    BY <1>0, Zenon
  <2> QED
    BY <2>1, CountTypes, Zenon
<1>1. CASE ProduceChunk(r)
  <2> DEFINE x == Chunk(r, emitted[r] + 1)
  <2>1. /\ prod[r] = "run"
        /\ src' = [src EXCEPT ![r] = Append(@, x)]
        /\ emitted' = [emitted EXCEPT ![r] = @ + 1]
        /\ UNCHANGED <<pc, chain, idx, calls, cancelled, outcome, permit, prod, fwd, hold,
                       out, delivered>>
    BY <1>1, Zenon DEF ProduceChunk, reqVars, gateVars, fwdVars
  <2>2. \A q \in Requests \ {r} : Same(q)
    BY <1>0, <2>1, Zenon DEF Same, TypeOK, SrcTypeOK
  <2>3. /\ src'[r] = Append(src[r], x) /\ emitted'[r] = emitted[r] + 1
        /\ src[r] \in Seq(Events) /\ out[r] \in Seq(Events) /\ x \in Events
    BY <1>0, <2>1 DEF TypeOK, SrcTypeOK, FwdTypeOK, ReqTypeOK, Events, Chunk
  <2>4. Len(src'[r]) = Len(src[r]) + 1
    BY <2>3, AppendFacts
  <2>5. /\ Taken(r)' = Taken(r) /\ Queued(r)' = Queued(r)
        /\ Produced(r) = emitted[r] /\ Produced(r)' = emitted[r] + 1
        /\ Reading(r)' <=> Reading(r)
    BY <1>n, <2>1, <2>3 DEF Taken, Queued, Produced, Reading
  <2>6. EventOk(calls[r], emitted[r] + 1, emitted[r] + 1, x)
    BY <1>n DEF EventOk, Chunk
  <2> HIDE DEF x
  <2>7. ASSUME pc[r] = "range"
        PROVE  /\ Run(calls[r], emitted[r] + 1, Len(delivered[r]), out[r])
               /\ fwd[r] = "send" => EventOk(calls[r], emitted[r] + 1, Queued(r) + 1, hold[r])
               /\ Taken(r) <= emitted[r] + 1 /\ Len(delivered[r]) <= emitted[r] + 1
               /\ fwd[r] = "end" => cancelled[r]
    <3>1. /\ Taken(r) <= emitted[r] /\ Len(delivered[r]) <= emitted[r]
          /\ fwd[r] = "end" => cancelled[r]
          /\ Run(calls[r], emitted[r], Len(delivered[r]), out[r])
          /\ fwd[r] = "send" => EventOk(calls[r], emitted[r], Queued(r) + 1, hold[r])
      BY Zenon, <1>0, <2>1, <2>5, <2>7 DEF PipeAt
    <3>2. Len(delivered[r]) + Len(out[r]) <= emitted[r]
      <4>1. Len(delivered[r]) + Len(out[r]) <= Taken(r)
        BY Zenon, <1>n DEF Queued
      <4>2. Len(delivered[r]) + Len(out[r]) \in Nat
        BY Zenon, <1>n DEF Queued
      <4> DEFINE m == Len(delivered[r]) + Len(out[r])
      <4> HIDE DEF m
      <4>3. m <= Taken(r) /\ m \in Nat => m <= emitted[r]
        BY <1>n, <3>1
      <4> QED
        BY Zenon, <4>1, <4>2, <4>3 DEF m
    <3>3. fwd[r] = "send" => Queued(r) + 1 <= emitted[r]
      BY <1>n, <3>1, Zenon DEF Taken
    <3>4. Run(calls[r], emitted[r] + 1, Len(delivered[r]), out[r])
      BY Zenon, <1>n, <2>3, <3>1, <3>2, RunGrow
    <3>5. fwd[r] = "send" => EventOk(calls[r], emitted[r] + 1, Queued(r) + 1, hold[r])
      BY <1>n, <3>1, <3>3, EventGrow
    <3> QED
      BY <1>n, <3>1, <3>4, <3>5
  <2>8. ASSUME Reading(r)
        PROVE  /\ Run(calls[r], emitted[r] + 1, Taken(r), src'[r])
               /\ Taken(r) + Len(src'[r]) = emitted[r] + 1
    <3>1. Run(calls[r], emitted[r], Taken(r), src[r]) /\ Taken(r) + Len(src[r]) = emitted[r]
      BY Zenon, <1>0, <2>5, <2>8 DEF PipeAt
    <3>2. Run(calls[r], emitted[r] + 1, Taken(r), src[r])
      BY <1>n, <2>3, <3>1, RunGrow
    <3>3. EventOk(calls[r], emitted[r] + 1, Taken(r) + Len(src[r]) + 1, x)
      <4>1. Taken(r) + Len(src[r]) + 1 = emitted[r] + 1
        BY <3>1, Zenon
      <4> QED
        BY <2>6, <4>1, Zenon
    <3>4. Run(calls[r], emitted[r] + 1, Taken(r), Append(src[r], x))
      <4>1. emitted[r] + 1 \in Nat
        BY <1>n
      <4> QED
        BY <1>n, <2>3, <3>2, <3>3, <4>1, RunAppend, Zenon
    <3> QED
      BY <1>n, <2>3, <2>4, <3>1, <3>4
  <2>9. PipeAt(r)'
    BY Zenon, <1>0, <1>n, <2>1, <2>3, <2>5, <2>7, <2>8 DEF PipeAt, Chunk
  <2>10. InvAt(r)'
    BY Zenon, <1>0, <2>1, <2>9 DEF InvAt, PhaseAt
  <2> QED
    BY <1>s, <2>2, <2>10, Zenon
<1>2. ASSUME NEW e \in ErrorClasses, ProduceError(r, e) PROVE \A q \in Requests : InvAt(q)'
  <2> DEFINE x == ErrorEvent(r, e)
  <2>1. /\ prod[r] = "run"
        /\ src' = [src EXCEPT ![r] = Append(@, x)]
        /\ prod' = [prod EXCEPT ![r] = "err"]
        /\ UNCHANGED <<pc, chain, idx, calls, cancelled, outcome, permit, emitted, fwd, hold,
                       out, delivered>>
    BY <1>2, Zenon DEF ProduceError, reqVars, gateVars, fwdVars
  <2>2. \A q \in Requests \ {r} : Same(q)
    BY Zenon, <1>0, <2>1 DEF Same, TypeOK, SrcTypeOK
  <2>3. /\ src'[r] = Append(src[r], x) /\ prod'[r] = "err"
        /\ src[r] \in Seq(Events) /\ x \in Events
    BY <1>0, <2>1, Zenon DEF TypeOK, SrcTypeOK, ReqTypeOK, Events, ErrorEvent, ErrorClasses
  <2>4. Len(src'[r]) = Len(src[r]) + 1
    BY <2>3, AppendFacts
  <2>5. /\ Taken(r)' = Taken(r) /\ Queued(r)' = Queued(r)
        /\ Reading(r)' <=> Reading(r)
    BY <2>1, Zenon DEF Taken, Queued, Reading
  <2>6. /\ Produced(r) = emitted[r] /\ Produced(r)' = emitted[r] + 1
    BY <1>n, <2>1, <2>3 DEF Produced
  <2>7. EventOk(calls[r], emitted[r], emitted[r] + 1, x)
    BY <1>n DEF EventOk, ErrorEvent
  <2> HIDE DEF x
  <2>8. ASSUME Reading(r)
        PROVE  /\ Run(calls[r], emitted[r], Taken(r), src'[r])
               /\ Taken(r) + Len(src'[r]) = emitted[r] + 1
    <3>1. Run(calls[r], emitted[r], Taken(r), src[r]) /\ Taken(r) + Len(src[r]) = emitted[r]
      BY Zenon, <1>0, <2>6, <2>8 DEF PipeAt
    <3>2. EventOk(calls[r], emitted[r], Taken(r) + Len(src[r]) + 1, x)
      <4>1. Taken(r) + Len(src[r]) + 1 = emitted[r] + 1
        BY <3>1, Zenon
      <4> QED
        BY <2>7, <4>1, Zenon
    <3>3. Run(calls[r], emitted[r], Taken(r), Append(src[r], x))
      BY <1>n, <2>3, <3>1, <3>2, RunAppend, Zenon
    <3> QED
      BY <1>n, <2>3, <2>4, <3>1, <3>3
  <2>9. pc[r] = "range" => Taken(r) <= emitted[r] + 1
    BY <1>0, <1>n, <2>6 DEF PipeAt
  <2>10. pc[r] = "range" /\ fwd[r] = "end" => cancelled[r]
    BY Zenon, <1>0, <2>1 DEF PipeAt
  <2>11. PipeAt(r)'
    BY Zenon, <1>0, <1>n, <2>1, <2>5, <2>6, <2>8, <2>9, <2>10 DEF PipeAt, Chunk
  <2>12. InvAt(r)'
    BY Zenon, <1>0, <2>1, <2>3, <2>11 DEF InvAt, PhaseAt
  <2> QED
    BY <1>s, <2>2, <2>12, Zenon
<1>3. CASE ProduceEnd(r) \/ ProduceCancel(r)
  <2>1. /\ prod[r] = "run"
        /\ \/ prod' = [prod EXCEPT ![r] = "done"]
           \/ prod' = [prod EXCEPT ![r] = "cancel"] /\ cancelled[r]
        /\ UNCHANGED <<pc, chain, idx, calls, cancelled, outcome, permit, emitted, src, fwd,
                       hold, out, delivered>>
    BY <1>3, Zenon DEF ProduceEnd, ProduceCancel, reqVars, gateVars, fwdVars
  <2>2. \A q \in Requests \ {r} : Same(q)
    BY Zenon, <1>0, <2>1 DEF Same, TypeOK, SrcTypeOK
  <2>3. prod'[r] \in {"done", "cancel"} /\ (prod'[r] = "cancel" => cancelled[r])
    BY <1>0, <2>1, Zenon DEF TypeOK, SrcTypeOK
  <2>4. /\ Taken(r)' = Taken(r) /\ Queued(r)' = Queued(r)
        /\ Reading(r)' <=> Reading(r)
        /\ Produced(r)' = Produced(r)
    BY <2>1, <2>3, Zenon DEF Taken, Queued, Reading, Produced
  <2>5. pc[r] = "range" /\ fwd[r] = "end" => cancelled[r]
    BY <1>0, <2>1, Zenon DEF PipeAt
  <2>6. PipeAt(r)'
    BY Zenon, <1>0, <2>1, <2>4, <2>5 DEF PipeAt, Chunk
  <2>7. InvAt(r)'
    BY Zenon, <1>0, <2>1, <2>3, <2>6 DEF InvAt, PhaseAt
  <2> QED
    BY <1>s, <2>2, <2>7, Zenon
<1> QED
  BY <1>1, <1>2, <1>3, Zenon DEF Produce

\* Steps of the forwarder.
LEMMA ForwardInv ==
  ASSUME IInv, NEW r \in Requests, Forward(r)
  PROVE  \A q \in Requests : InvAt(q)'
<1>0. TypeOK /\ InvAt(r) /\ PipeAt(r) /\ PhaseAt(r)
  BY InvPointwise, Zenon DEF InvAt
<1>s. ASSUME \A q \in Requests \ {r} : Same(q), InvAt(r)'
      PROVE  \A q \in Requests : InvAt(q)'
  BY <1>s, InvPointwise, SameInv, Zenon
<1>n. /\ Len(delivered[r]) \in Nat /\ Len(out[r]) \in Nat /\ Len(src[r]) \in Nat
      /\ emitted[r] \in Nat
      /\ Queued(r) \in Nat /\ Taken(r) \in Nat /\ Produced(r) \in Nat
      /\ Queued(r) <= Taken(r) /\ emitted[r] <= Produced(r)
  <2>1. TypeOK
    BY <1>0, Zenon
  <2> QED
    BY <2>1, CountTypes, Zenon
<1>1. CASE ForwardSend(r)
  <2>1. /\ fwd[r] = "send"
        /\ out' = [out EXCEPT ![r] = Append(@, hold[r])]
        /\ fwd' = [fwd EXCEPT ![r] = "recv"]
        /\ UNCHANGED <<pc, chain, idx, calls, cancelled, outcome, permit, prod, emitted, src,
                       hold, delivered>>
    BY <1>1, Zenon DEF ForwardSend, reqVars, gateVars, srcVars
  <2>2. \A q \in Requests \ {r} : Same(q)
    BY Zenon, <1>0, <2>1 DEF Same, TypeOK, FwdTypeOK
  <2>3. /\ out'[r] = Append(out[r], hold[r]) /\ fwd'[r] = "recv"
        /\ out[r] \in Seq(Events) /\ hold[r] \in Events
    BY <1>0, <2>1, Zenon DEF TypeOK, FwdTypeOK
  <2>4. Len(out'[r]) = Len(out[r]) + 1
    BY <2>3, AppendFacts
  <2>5. Taken(r) = Queued(r) + 1
    BY <1>n, <2>1, Zenon DEF Taken
  <2>6. Queued(r)' = Queued(r) + 1
    BY <1>0, <2>1, <2>4 DEF Queued, TypeOK, FwdTypeOK
  <2>7. /\ Taken(r)' = Taken(r) /\ Produced(r)' = Produced(r)
        /\ Reading(r)' <=> Reading(r)
    <3>1. Taken(r)' = Taken(r)
      BY <1>n, <2>3, <2>5, <2>6 DEF Taken
    <3>2. Produced(r)' = Produced(r)
      BY <2>1, Zenon DEF Produced
    <3>3. Reading(r)' <=> Reading(r)
      BY <2>1, <2>3, Zenon DEF Reading
    <3> QED
      BY <3>1, <3>2, <3>3, Zenon
  <2>8. ASSUME pc[r] = "range" PROVE Run(calls[r], emitted[r], Len(delivered[r]), out'[r])
    <3>1. /\ Run(calls[r], emitted[r], Len(delivered[r]), out[r])
          /\ EventOk(calls[r], emitted[r], Queued(r) + 1, hold[r])
      BY Zenon, <1>0, <2>1, <2>8 DEF PipeAt
    <3>2. EventOk(calls[r], emitted[r], Len(delivered[r]) + Len(out[r]) + 1, hold[r])
      BY Zenon, <3>1 DEF Queued
    <3> QED
      BY Zenon, <1>n, <2>3, <3>1, <3>2, RunAppend
  <2>9. PipeAt(r)'
    BY Zenon, <1>0, <1>n, <2>1, <2>3, <2>6, <2>7, <2>8 DEF PipeAt, Chunk
  <2>10. InvAt(r)'
    BY Zenon, <1>0, <2>1, <2>3, <2>9 DEF InvAt, PhaseAt
  <2> QED
    BY <1>s, <2>2, <2>10, Zenon
<1>2. CASE ForwardReceive(r)
  <2>1. /\ fwd[r] = "recv" /\ src[r] # <<>>
        /\ hold' = [hold EXCEPT ![r] = Head(src[r])]
        /\ src' = [src EXCEPT ![r] = Tail(@)]
        /\ fwd' = [fwd EXCEPT ![r] = "send"]
        /\ UNCHANGED <<pc, chain, idx, calls, cancelled, outcome, permit, prod, emitted, out,
                       delivered>>
    BY <1>2, Zenon DEF ForwardReceive, reqVars, gateVars
  <2>2. \A q \in Requests \ {r} : Same(q)
    BY Zenon, <1>0, <2>1 DEF Same, TypeOK, FwdTypeOK, SrcTypeOK
  <2>3. /\ hold'[r] = Head(src[r]) /\ fwd'[r] = "send" /\ src'[r] = Tail(src[r])
        /\ src[r] \in Seq(Events)
    BY <1>0, <2>1, Zenon DEF TypeOK, FwdTypeOK, SrcTypeOK
  <2>4. Len(src'[r]) = Len(src[r]) - 1 /\ Len(src[r]) >= 1
    BY Zenon, <2>1, <2>3, HeadTail
  <2>5. Taken(r) = Queued(r)
    BY <1>n, <2>1 DEF Taken
  <2>6. Queued(r)' = Queued(r) /\ Produced(r)' = Produced(r)
    BY <2>1, Zenon DEF Queued, Produced
  <2>7. /\ Taken(r)' = Taken(r) + 1
        /\ Reading(r)' <=> Reading(r)
        /\ pc[r] = "range" => Reading(r)
    BY <1>n, <2>1, <2>3, <2>5, <2>6, Zenon DEF Taken, Reading
  <2>8. ASSUME Reading(r)
        PROVE  /\ EventOk(calls[r], emitted[r], Queued(r) + 1, hold'[r])
               /\ Run(calls[r], emitted[r], Taken(r) + 1, src'[r])
               /\ Taken(r) + 1 + Len(src'[r]) = Produced(r)
               /\ Taken(r) + 1 <= Produced(r)
    <3>1. /\ Run(calls[r], emitted[r], Taken(r), src[r])
          /\ Taken(r) + Len(src[r]) = Produced(r)
      BY <1>0, <2>8, Zenon DEF PipeAt
    <3>2. /\ EventOk(calls[r], emitted[r], Taken(r) + 1, Head(src[r]))
          /\ Run(calls[r], emitted[r], Taken(r) + 1, Tail(src[r]))
      BY Zenon, <1>n, <2>1, <2>3, <3>1, RunTail
    <3>3. Taken(r) + 1 + Len(src'[r]) = Produced(r) /\ Taken(r) + 1 <= Produced(r)
      BY <1>n, <2>4, <3>1
    <3> QED
      BY <2>3, <2>5, <3>2, <3>3, Zenon
  <2>9. PipeAt(r)'
    BY Zenon, <1>0, <1>n, <2>1, <2>3, <2>6, <2>7, <2>8 DEF PipeAt, Chunk
  <2>10. InvAt(r)'
    BY Zenon, <1>0, <2>1, <2>3, <2>9 DEF InvAt, PhaseAt
  <2> QED
    BY <1>s, <2>2, <2>10, Zenon
<1>3. CASE ForwardAbandons(r) \/ ForwardEnds(r)
  <2>1. /\ fwd[r] \in {"send", "recv"}
        /\ fwd' = [fwd EXCEPT ![r] = "end"]
        /\ cancelled[r] \/ (fwd[r] = "recv" /\ src[r] = <<>> /\ prod[r] # "run")
        /\ \E ok \in BOOLEAN : Release(r, ok)
        /\ UNCHANGED <<pc, chain, idx, calls, cancelled, outcome, prod, emitted, src, hold,
                       out, delivered>>
    BY Zenon, <1>3 DEF ForwardAbandons, ForwardEnds, ObservedOk, IsRetryable, reqVars, srcVars
  <2>2. permit[r] \in Providers
    BY <1>0, <2>1, PermitHeld, Zenon DEF IInv
  <2>3. permit'[r] = NoProvider /\ \A q \in Requests \ {r} : permit'[q] = permit[q]
    BY Zenon, <1>0, <2>1, <2>2, ReleaseInv
  <2>4. \A q \in Requests \ {r} : Same(q)
    BY Zenon, <1>0, <2>1, <2>3 DEF Same, TypeOK, FwdTypeOK
  <2>5. fwd'[r] = "end" /\ pc[r] \in {"range", "end"}
    BY Zenon, <1>0, <2>1 DEF TypeOK, FwdTypeOK, PhaseAt
  <2>6. /\ Queued(r)' = Queued(r) /\ Produced(r)' = Produced(r)
        /\ ~Reading(r)'
    BY Zenon, <2>1, <2>5 DEF Queued, Produced, Reading
  <2>7. Taken(r)' = Queued(r)
    BY <1>n, <2>5, <2>6 DEF Taken
  <2>8. pc[r] = "range" /\ ~cancelled[r] => prod[r] # "run" /\ Queued(r) = Produced(r)
    <3>1. SUFFICES ASSUME pc[r] = "range", ~cancelled[r]
                   PROVE  prod[r] # "run" /\ Queued(r) = Produced(r)
      BY Zenon
    <3>2. fwd[r] = "recv" /\ src[r] = <<>> /\ prod[r] # "run"
      BY <2>1, <3>1, Zenon
    <3>3. Taken(r) + Len(src[r]) = Produced(r) /\ Len(src[r]) = 0
      BY Zenon, <1>0, <3>1, <3>2 DEF PipeAt, Reading
    <3>4. Taken(r) = Queued(r)
      BY <1>n, <3>2 DEF Taken
    <3> QED
      BY <1>n, <3>2, <3>3, <3>4
  <2>9. PipeAt(r)'
    <3>1. pc[r] = "range" => Queued(r) <= Produced(r)
      <4>1. \A n, k : n \in Nat /\ k \in Nat => (n + 1 <= k => n <= k) /\ n + 0 = n
        OBVIOUS
      <4> QED
        BY Zenon, <1>0, <1>n, <4>1 DEF PipeAt, Taken
    <3>2. \A k : Chunk(r, k)' = Chunk(r, k)
      BY Zenon, <2>1 DEF Chunk
    <3> QED
      BY Zenon, <1>0, <2>1, <2>5, <2>6, <2>7, <2>8, <3>1, <3>2 DEF PipeAt
  <2>10. InvAt(r)'
    BY Zenon, <1>0, <2>1, <2>3, <2>5, <2>9 DEF InvAt, PhaseAt
  <2> QED
    BY <1>s, <2>4, <2>10, Zenon
<1> QED
  BY <1>1, <1>2, <1>3, Zenon DEF Forward

\* Steps of the range loop over out.
LEMMA ReceiveInv ==
  ASSUME IInv, NEW r \in Requests, Receive(r)
  PROVE  \A q \in Requests : InvAt(q)'
<1>0. TypeOK /\ InvAt(r) /\ PipeAt(r) /\ PhaseAt(r)
  BY InvPointwise, Zenon DEF InvAt
<1>s. ASSUME \A q \in Requests \ {r} : Same(q), InvAt(r)'
      PROVE  \A q \in Requests : InvAt(q)'
  BY <1>s, InvPointwise, SameInv, Zenon
<1>n. /\ Len(delivered[r]) \in Nat /\ Len(out[r]) \in Nat /\ Len(src[r]) \in Nat
      /\ emitted[r] \in Nat
      /\ Queued(r) \in Nat /\ Taken(r) \in Nat /\ Produced(r) \in Nat
      /\ Queued(r) <= Taken(r) /\ emitted[r] <= Produced(r)
  <2>1. TypeOK
    BY <1>0, Zenon
  <2> QED
    BY <2>1, CountTypes, Zenon
<1>1. CASE ReceiveChunk(r)
  <2> DEFINE x == Head(out[r])
  <2>1. /\ pc[r] = "range" /\ out[r] # <<>> /\ x.kind = "chunk"
        /\ delivered' = [delivered EXCEPT ![r] = Append(@, x)]
        /\ out' = [out EXCEPT ![r] = Tail(@)]
        /\ UNCHANGED <<pc, chain, idx, calls, cancelled, outcome, permit, prod, emitted, src,
                       fwd, hold>>
    BY <1>1, Zenon DEF ReceiveChunk, reqVars, gateVars, srcVars
  <2>2. \A q \in Requests \ {r} : Same(q)
    BY Zenon, <1>0, <2>1 DEF Same, TypeOK, FwdTypeOK
  <2>3. /\ delivered'[r] = Append(delivered[r], x) /\ out'[r] = Tail(out[r])
        /\ out[r] \in Seq(Events) /\ delivered[r] \in Seq(Events) /\ calls[r] \in Nat
    BY <1>0, <2>1, Zenon DEF TypeOK, FwdTypeOK, ReqTypeOK
  <2>4. x \in Events /\ Len(out'[r]) = Len(out[r]) - 1 /\ Len(out[r]) >= 1
    BY Zenon, <2>1, <2>3, HeadTail
  <2>5. /\ EventOk(calls[r], emitted[r], Len(delivered[r]) + 1, x)
        /\ Run(calls[r], emitted[r], Len(delivered[r]) + 1, out'[r])
    <3>1. Run(calls[r], emitted[r], Len(delivered[r]), out[r])
      BY Zenon, <1>0, <2>1 DEF PipeAt
    <3> DEFINE k == Len(delivered[r])
    <3>2. k \in Nat /\ emitted[r] \in Nat /\ Run(calls[r], emitted[r], k, out[r])
      BY Zenon, <1>n, <3>1
    <3> HIDE DEF k
    <3>3. /\ EventOk(calls[r], emitted[r], k + 1, x)
          /\ Run(calls[r], emitted[r], k + 1, Tail(out[r]))
      BY Zenon, <2>1, <2>3, <3>2, RunTail
    <3> QED
      BY Zenon, <2>3, <3>3 DEF k
  <2>6. x = Chunk(r, Len(delivered[r]) + 1) /\ Len(delivered[r]) + 1 <= emitted[r]
    BY <1>n, <2>1, <2>5, Zenon DEF EventOk, ErrorClasses, Chunk
  <2> HIDE DEF x
  <2>7. /\ Len(delivered'[r]) = Len(delivered[r]) + 1
        /\ delivered'[r][Len(delivered[r]) + 1] = x
        /\ \A i \in 1..Len(delivered[r]) : delivered'[r][i] = delivered[r][i]
    BY <2>3, <2>4, AppendFacts
  <2>8. \A i \in 1..Len(delivered'[r]) : delivered'[r][i] = Chunk(r, i)
    <3>1. \A i \in 1..Len(delivered[r]) : delivered[r][i] = Chunk(r, i)
      BY Zenon, <1>0 DEF PipeAt
    <3>2. \A i \in 1..Len(delivered'[r]) :
             i \in 1..Len(delivered[r]) \/ i = Len(delivered[r]) + 1
      BY <1>n, <2>7
    <3> QED
      BY <2>6, <2>7, <3>1, <3>2, Zenon
  <2>9. Queued(r)' = Queued(r) /\ Produced(r)' = Produced(r)
    <3> DEFINE a == Len(delivered[r]) b == Len(out[r])
    <3>1. a \in Nat /\ b \in Nat /\ Len(delivered'[r]) = a + 1 /\ Len(out'[r]) = b - 1
      BY <1>n, <2>4, <2>7, Zenon
    <3>2. Queued(r) = a + b /\ Queued(r)' = Len(delivered'[r]) + Len(out'[r])
      BY Zenon DEF Queued
    <3> HIDE DEF a, b
    <3>3. a + b = (a + 1) + (b - 1)
      BY <3>1
    <3>4. Produced(r)' = Produced(r)
      BY <2>1, Zenon DEF Produced
    <3> QED
      BY <3>1, <3>2, <3>3, <3>4, Zenon
  <2>10. /\ Taken(r)' = Taken(r)
         /\ Reading(r)' <=> Reading(r)
    BY <2>1, <2>9, Zenon DEF Taken, Reading
  <2>11. fwd[r] # "none" /\ \A k : Chunk(r, k)' = Chunk(r, k)
    BY <1>0, <2>1, Zenon DEF PhaseAt, Chunk
  <2>12. PipeAt(r)'
    BY Zenon, <1>0, <2>1, <2>5, <2>6, <2>7, <2>8, <2>9, <2>10, <2>11 DEF PipeAt
  <2>13. InvAt(r)'
    BY Zenon, <1>0, <2>1, <2>12 DEF InvAt, PhaseAt
  <2> QED
    BY <1>s, <2>2, <2>13, Zenon
<1>2. CASE ReceiveError(r) \/ ReceiveClosed(r) \/ WriteFails(r)
  <2>1. PICK e \in {"ok", "retryable", "fatal", "canceled"} :
          /\ Finish(r, e)
          /\ e = "ok" => ~cancelled[r] /\ out[r] = <<>> /\ fwd[r] = "end"
    BY Zenon, <1>2 DEF ReceiveError, ReceiveClosed, WriteFails, ErrorClasses
  <2>2. /\ pc[r] = "range"
        /\ \A q \in Requests \ {r} : out'[q] = out[q]
        /\ UNCHANGED <<chain, idx, calls, permit, prod, emitted, src, fwd, hold, delivered>>
    BY Zenon, <1>0, <1>2 DEF ReceiveError, ReceiveClosed, WriteFails, reqVars, gateVars, srcVars,
                      fwdVars, TypeOK, FwdTypeOK
  <2>3. \A q \in Requests \ {r} : Same(q)
    BY Zenon, <1>0, <2>1, <2>2 DEF Finish, Same, TypeOK, RouteTypeOK
  <2>4. pc'[r] = "end" /\ outcome'[r] = e /\ cancelled'[r] /\ fwd[r] # "none"
    BY <1>0, <2>1, <2>2, Zenon DEF Finish, TypeOK, RouteTypeOK, PhaseAt
  <2>5. PipeAt(r)'
    BY Zenon, <1>0, <2>2, <2>4 DEF PipeAt, Chunk, Reading
  <2>6. e = "ok" => prod[r] = "done" /\ Len(delivered[r]) = emitted[r]
    <3>1. SUFFICES ASSUME e = "ok" PROVE prod[r] = "done" /\ Len(delivered[r]) = emitted[r]
      BY Zenon
    <3>2. ~cancelled[r] /\ Len(out[r]) = 0 /\ fwd[r] = "end"
      BY <2>1, <3>1, Zenon
    <3>3. /\ prod[r] \notin {"run", "none", "cancel"}
          /\ Queued(r) = Produced(r) /\ Len(delivered[r]) <= emitted[r]
      BY Zenon, <1>0, <2>2, <3>2 DEF PipeAt, PhaseAt
    <3> DEFINE k == Len(delivered[r])
    <3>4. k \in Nat /\ Queued(r) = k
      <4>1. \A a, b \in Nat : b = 0 => a + b = a
        OBVIOUS
      <4> QED
        BY <1>n, <3>2, <4>1, Zenon DEF Queued
    <3>5. k <= emitted[r]
      BY <3>3, Zenon
    <3> HIDE DEF k
    <3>6. prod[r] # "err" /\ k = emitted[r]
      BY <1>n, <3>3, <3>4, <3>5 DEF Produced
    <3>7. prod[r] = "done"
      BY <1>0, <3>3, <3>6, Zenon DEF TypeOK, SrcTypeOK
    <3> QED
      BY <3>6, <3>7, Zenon DEF k
  <2>7. InvAt(r)'
    BY Zenon, <1>0, <2>2, <2>4, <2>5, <2>6 DEF InvAt, PhaseAt
  <2> QED
    BY <1>s, <2>3, <2>7, Zenon
<1> QED
  BY <1>1, <1>2, Zenon DEF Receive

=============================================================================
