------------------------------- MODULE Router -------------------------------
(***************************************************************************)
(* internal/router/router.go: chain failover, per-provider retry with      *)
(* backoff and a shared time budget, circuit-breaker gating, and the       *)
(* streaming path with its forwarder goroutine.                            *)
(*                                                                         *)
(* A request is served by up to three goroutines:                          *)
(*   the handler   (pc)    runs ChatCompletion / ChatCompletionStream and, *)
(*                         for a stream, then ranges over the channel;     *)
(*   the forwarder (fwd)   forwardStream, from the first chunk on;         *)
(*   the producer  (prod)  the provider's readSSE, from the moment         *)
(*                         ChatCompletionStream of the provider returns.   *)
(* They share ctx (cancelled), the provider's channel (src) and the        *)
(* router's channel (out).  Requests share the breakers (cbs).             *)
(*                                                                         *)
(* Events carry the number of the provider call that produced them and a   *)
(* position, which is all the properties need of a chunk.  Provider errors *)
(* are classified as router.go classifies them: "retryable", "fatal" (auth,*)
(* invalid request, context length) and "canceled" (context.Canceled).     *)
(* Time is counted in ticks and passes only inside provider calls and      *)
(* sleeps; elapsed is r.now().Sub(start).                                  *)
(***************************************************************************)
EXTENDS CircuitBreaker, Sequences

CONSTANTS
  Requests,
  Streams,       \* the requests with stream = true
  Providers,
  NoProvider,
  Chains,        \* what ResolveChain can return (sequences of providers)
  MaxRetries,    \* RetryPolicy.MaxRetries
  MaxTotal,      \* RetryPolicy.MaxTotal; 0 means unlimited
  BaseBackoff,   \* RetryPolicy.BaseBackoff
  MaxBackoff,    \* RetryPolicy.MaxBackoff
  DurationLimit, \* 2^63: a time.Duration is in -DurationLimit..DurationLimit - 1
  Draws,         \* what r.random() can draw, in hundredths
  RetryAfters,   \* Retry-After hints upstreams send; 0 is "no hint"
  CallTimes,     \* ticks a provider call can take
  SrcCap,        \* capacity of the provider's channel (16)
  OutCap,        \* capacity of the router's channel (16)
  MaxChunks,     \* bound: chunks one stream emits
  CountLimit     \* bound: requests counted in one breaker generation

ASSUME RouterConstants ==
  /\ IsFiniteSet(Requests)
  /\ Streams \subseteq Requests
  /\ NoProvider \notin Providers
  /\ Chains \subseteq Seq(Providers)
  /\ MaxRetries \in Nat
  /\ MaxTotal \in Nat
  /\ DurationLimit \in Nat \ {0}
  /\ BaseBackoff \in 0..DurationLimit - 1
  /\ MaxBackoff \in 0..DurationLimit - 1
  /\ Draws \subseteq 0..99
  /\ RetryAfters \subseteq Nat
  /\ CallTimes \subseteq Nat
  /\ SrcCap \in Nat \ {0}
  /\ OutCap \in Nat \ {0}
  /\ MaxChunks \in Nat
  /\ CountLimit \in Nat

VARIABLES
  pc,            \* idle, gate, call, peek, sleep, range, end
  chain,         \* the chain resolved when the request entered the router
  idx,           \* chainIdx + 1
  attempt,       \* attempt, per provider
  calls,         \* provider calls made so far
  elapsed,
  delay,         \* the backoff being slept
  cancelled,     \* ctx.Done() is closed
  outcome,       \* what the router (or the stream) ended with
  cbs,           \* the breakers
  permit,        \* the provider whose done callback the request owes
  verdict,       \* what the done callback of the last call was told
  prod,          \* none, run, done, err, cancel
  emitted,       \* chunks produced by the current stream
  src,           \* the provider's channel
  fwd,           \* none, send, recv, end
  hold,          \* the event the forwarder is sending
  lastErr,       \* the forwarder's lastErr ("none" is nil)
  out,           \* the router's channel
  delivered      \* chunks the handler has taken from out

reqVars == <<chain, idx, attempt, calls, elapsed, delay>>
gateVars == <<cbs, permit, verdict>>
srcVars == <<prod, emitted, src>>
fwdVars == <<fwd, hold, lastErr, out>>
vars == <<pc, reqVars, cancelled, outcome, gateVars, srcVars, fwdVars, delivered>>

Chunk(r, n) == [kind |-> "chunk", call |-> calls[r], seq |-> n]
ErrorEvent(r, e) == [kind |-> e, call |-> calls[r], seq |-> 0]
NoEvent == [kind |-> "none", call |-> 0, seq |-> 0]

ErrorClasses == {"retryable", "fatal"}

\* provider.IsRetryable.
IsRetryable(e) == e = "retryable"

\* breakerObservation: which ends of a call the breaker counts as success.
ObservedOk(e) == ~IsRetryable(e)

\* BaseBackoff * 2^i in the arithmetic of time.Duration.
Doubled(i) ==
  ((BaseBackoff * 2^i + DurationLimit) % (2 * DurationLimit)) - DurationLimit

\* The envelope of the n-th retry: the loop doubles until it overflows, reaches
\* MaxBackoff, or has doubled n - 1 times.
Envelope(n) ==
  IF \E i \in 1..n - 1 : Doubled(i) <= 0 \/ Doubled(i) >= MaxBackoff THEN MaxBackoff
  ELSE IF n > 1 THEN Doubled(n - 1)
  ELSE IF BaseBackoff > MaxBackoff THEN MaxBackoff ELSE BaseBackoff

\* RetryPolicy.backoffDuration(n, retryAfter, rand), over the draws of rand.
BackoffDelays(n, retryAfter) ==
  IF retryAfter > 0 THEN {retryAfter}
  ELSE {(percent * Envelope(n)) \div 100 : percent \in Draws}

Init ==
  /\ pc = [r \in Requests |-> "idle"]
  /\ chain = [r \in Requests |-> <<>>]
  /\ idx = [r \in Requests |-> 1]
  /\ attempt = [r \in Requests |-> 0]
  /\ calls = [r \in Requests |-> 0]
  /\ elapsed = [r \in Requests |-> 0]
  /\ delay = [r \in Requests |-> 0]
  /\ cancelled = [r \in Requests |-> FALSE]
  /\ outcome = [r \in Requests |-> "none"]
  /\ cbs = [p \in Providers |-> NewGeneration("closed")]
  /\ permit = [r \in Requests |-> NoProvider]
  /\ verdict = [r \in Requests |-> "none"]
  /\ prod = [r \in Requests |-> "none"]
  /\ emitted = [r \in Requests |-> 0]
  /\ src = [r \in Requests |-> <<>>]
  /\ fwd = [r \in Requests |-> "none"]
  /\ hold = [r \in Requests |-> NoEvent]
  /\ lastErr = [r \in Requests |-> "none"]
  /\ out = [r \in Requests |-> <<>>]
  /\ delivered = [r \in Requests |-> <<>>]

-----------------------------------------------------------------------------
\* Pieces of the handler's steps.

\* The router returns, or the handler leaves its range loop; the HTTP server
\* cancels the request's context once the handler has returned.
Finish(r, result) ==
  /\ pc' = [pc EXCEPT ![r] = "end"]
  /\ outcome' = [outcome EXCEPT ![r] = result]
  /\ cancelled' = [cancelled EXCEPT ![r] = TRUE]

\* The done callback of the permit the request holds.
Release(r, ok) ==
  /\ cbs' = [cbs EXCEPT ![permit[r]] = AfterRequest(cbs[permit[r]], r, ok)]
  /\ permit' = [permit EXCEPT ![r] = NoProvider]
  /\ verdict' = [verdict EXCEPT ![r] = IF ok THEN "ok" ELSE "fail"]

\* The failover loop after a provider was given up with error e at time t.
LastInChain(r, t) ==
  \/ idx[r] = Len(chain[r])
  \/ MaxTotal > 0 /\ t >= MaxTotal

ChainNext(r, e, t) ==
  \/ /\ LastInChain(r, t)
     /\ Finish(r, e)
     /\ UNCHANGED <<idx, attempt, delay>>
  \/ /\ ~LastInChain(r, t)
     /\ idx' = [idx EXCEPT ![r] = @ + 1]
     /\ attempt' = [attempt EXCEPT ![r] = 0]
     /\ pc' = [pc EXCEPT ![r] = "gate"]
     /\ UNCHANGED <<outcome, cancelled, delay>>

\* Mutant: the delay itself is left out of the budget check.
OverrunsWithoutDelay(t, w) == MaxTotal > 0 /\ t > MaxTotal

\* Would a sleep of w ticks at time t overrun the budget?
Overruns(t, w) == MaxTotal > 0 /\ t + w > MaxTotal

\* The retry loop after an attempt failed with e, having taken d ticks.
AttemptFailed(r, e, retryAfter, d) ==
  LET t == elapsed[r] + d IN
  /\ elapsed' = [elapsed EXCEPT ![r] = t]
  /\ \/ /\ ~IsRetryable(e)
        /\ Finish(r, e)
        /\ UNCHANGED <<idx, attempt, delay>>
     \/ /\ IsRetryable(e)
        /\ attempt[r] >= MaxRetries
        /\ ChainNext(r, e, t)
     \/ /\ IsRetryable(e)
        /\ attempt[r] < MaxRetries
        /\ \E w \in BackoffDelays(attempt[r] + 1, retryAfter) :
             \/ Overruns(t, w) /\ ChainNext(r, e, t)
             \/ /\ ~Overruns(t, w)
                /\ delay' = [delay EXCEPT ![r] = w]
                /\ pc' = [pc EXCEPT ![r] = "sleep"]
                /\ UNCHANGED <<idx, attempt, outcome, cancelled>>
  /\ UNCHANGED <<chain, calls>>

-----------------------------------------------------------------------------
\* The handler's goroutine inside the router.

\* ResolveChain, once per request.
Start(r) ==
  /\ pc[r] = "idle"
  /\ \E c \in Chains :
       /\ chain' = [chain EXCEPT ![r] = c]
       /\ \/ c = <<>> /\ Finish(r, "nochain")
          \/ /\ c # <<>>
             /\ pc' = [pc EXCEPT ![r] = "gate"]
             /\ UNCHANGED <<outcome, cancelled>>
  /\ UNCHANGED <<idx, attempt, calls, elapsed, delay, gateVars, srcVars, fwdVars,
                 delivered>>

\* breakers.allow grants a permit; the provider is called.
GateAdmits(r) ==
  LET p == chain[r][idx[r]]
      cur == CurrentState(cbs[p]) IN
  /\ pc[r] = "gate"
  /\ cur.requests < CountLimit
  /\ Admits(cur)
  /\ cbs' = [cbs EXCEPT ![p] = Admit(cur, r)]
  /\ permit' = [permit EXCEPT ![r] = p]
  /\ verdict' = [verdict EXCEPT ![r] = "none"]
  /\ calls' = [calls EXCEPT ![r] = @ + 1]
  /\ pc' = [pc EXCEPT ![r] = "call"]
  /\ UNCHANGED <<chain, idx, attempt, elapsed, delay, cancelled, outcome, srcVars,
                 fwdVars, delivered>>

\* Mutant: a refused request waits at the gate instead of failing over.
GateRejectsWaits(r) ==
  /\ pc[r] = "gate"
  /\ ~Admits(CurrentState(cbs[chain[r][idx[r]]]))
  /\ UNCHANGED vars

\* breakers.allow refuses: no call, no retry, straight to the failover loop.
GateRejects(r) ==
  LET p == chain[r][idx[r]]
      cur == CurrentState(cbs[p]) IN
  /\ pc[r] = "gate"
  /\ ~Admits(cur)
  /\ cbs' = [cbs EXCEPT ![p] = cur]
  /\ ChainNext(r, "breaker", elapsed[r])
  /\ UNCHANGED <<chain, calls, elapsed, permit, verdict, srcVars, fwdVars, delivered>>

\* The provider's ChatCompletion returns a response.
CallSucceeds(r, d) ==
  /\ pc[r] = "call"
  /\ r \notin Streams
  /\ Release(r, TRUE)
  /\ elapsed' = [elapsed EXCEPT ![r] = @ + d]
  /\ Finish(r, "ok")
  /\ UNCHANGED <<chain, idx, attempt, calls, delay, srcVars, fwdVars, delivered>>

\* ChatCompletion, or ChatCompletionStream before a stream exists, returns an
\* error.  context.Canceled is returned only when the caller is gone.
CallFails(r, e, retryAfter, d) ==
  /\ pc[r] = "call"
  /\ e = "canceled" => cancelled[r]
  /\ Release(r, ObservedOk(e))
  /\ AttemptFailed(r, e, retryAfter, d)
  /\ UNCHANGED <<srcVars, fwdVars, delivered>>

\* The provider's ChatCompletionStream returns a channel and leaves its readSSE
\* goroutine behind.
StreamOpens(r) ==
  /\ pc[r] = "call"
  /\ r \in Streams
  /\ pc' = [pc EXCEPT ![r] = "peek"]
  /\ prod' = [prod EXCEPT ![r] = "run"]
  /\ emitted' = [emitted EXCEPT ![r] = 0]
  /\ src' = [src EXCEPT ![r] = <<>>]
  /\ UNCHANGED <<reqVars, cancelled, outcome, gateVars, fwdVars, delivered>>

\* Mutant: the permit is not released on the cancellation path.
PeekCancelledLeaks(r) ==
  /\ pc[r] = "peek"
  /\ cancelled[r]
  /\ Finish(r, "canceled")
  /\ UNCHANGED <<reqVars, gateVars, srcVars, fwdVars, delivered>>

\* The select of streamAttemptOnce: ctx.Done() ...
PeekCancelled(r) ==
  /\ pc[r] = "peek"
  /\ cancelled[r]
  /\ Release(r, TRUE)
  /\ Finish(r, "canceled")
  /\ UNCHANGED <<reqVars, srcVars, fwdVars, delivered>>

\* ... or the channel closed before its first event, reported as ErrUpstream ...
PeekClosed(r, d) ==
  /\ pc[r] = "peek"
  /\ src[r] = <<>>
  /\ prod[r] # "run"
  /\ Release(r, ObservedOk("retryable"))
  /\ AttemptFailed(r, "retryable", 0, d)
  /\ UNCHANGED <<srcVars, fwdVars, delivered>>

\* ... or a first event that is an error: the attempt failed, retries are open ...
PeekError(r, d) ==
  /\ pc[r] = "peek"
  /\ src[r] # <<>>
  /\ Head(src[r]).kind \in ErrorClasses
  /\ src' = [src EXCEPT ![r] = Tail(@)]
  /\ Release(r, ObservedOk(Head(src[r]).kind))
  /\ AttemptFailed(r, Head(src[r]).kind, 0, d)
  /\ UNCHANGED <<prod, emitted, fwdVars, delivered>>

\* ... or a chunk: the stream is committed, the forwarder takes over the permit.
PeekChunk(r) ==
  /\ pc[r] = "peek"
  /\ src[r] # <<>>
  /\ Head(src[r]).kind = "chunk"
  /\ src' = [src EXCEPT ![r] = Tail(@)]
  /\ hold' = [hold EXCEPT ![r] = Head(src[r])]
  /\ fwd' = [fwd EXCEPT ![r] = "send"]
  /\ pc' = [pc EXCEPT ![r] = "range"]
  /\ UNCHANGED <<reqVars, cancelled, outcome, gateVars, prod, emitted, lastErr, out,
                 delivered>>

\* r.sleep: the timer fires ...
SleepEnds(r) ==
  /\ pc[r] = "sleep"
  /\ elapsed' = [elapsed EXCEPT ![r] = @ + delay[r]]
  /\ delay' = [delay EXCEPT ![r] = 0]
  /\ attempt' = [attempt EXCEPT ![r] = @ + 1]
  /\ pc' = [pc EXCEPT ![r] = "gate"]
  /\ UNCHANGED <<chain, idx, calls, cancelled, outcome, gateVars, srcVars, fwdVars,
                 delivered>>

\* ... or ctx is done first; a delay of zero returns without looking at ctx.
SleepCancelled(r) ==
  /\ pc[r] = "sleep"
  /\ delay[r] > 0
  /\ cancelled[r]
  /\ Finish(r, "canceled")
  /\ UNCHANGED <<reqVars, gateVars, srcVars, fwdVars, delivered>>

-----------------------------------------------------------------------------
\* The producer: readSSE of the openai and anthropic providers.  sendEvent
\* blocks on a full channel until there is room or ctx is done.

ProduceChunk(r) ==
  /\ prod[r] = "run"
  /\ Len(src[r]) < SrcCap
  /\ emitted[r] < MaxChunks
  /\ src' = [src EXCEPT ![r] = Append(@, Chunk(r, emitted[r] + 1))]
  /\ emitted' = [emitted EXCEPT ![r] = @ + 1]
  /\ UNCHANGED <<pc, reqVars, cancelled, outcome, gateVars, prod, fwdVars, delivered>>

\* A decode failure, an error envelope, a read error or a truncated body.
ProduceError(r, e) ==
  /\ prod[r] = "run"
  /\ Len(src[r]) < SrcCap
  /\ src' = [src EXCEPT ![r] = Append(@, ErrorEvent(r, e))]
  /\ prod' = [prod EXCEPT ![r] = "err"]
  /\ UNCHANGED <<pc, reqVars, cancelled, outcome, gateVars, emitted, fwdVars, delivered>>

\* [DONE] / message_stop: the channel is closed.
ProduceEnd(r) ==
  /\ prod[r] = "run"
  /\ prod' = [prod EXCEPT ![r] = "done"]
  /\ UNCHANGED <<pc, reqVars, cancelled, outcome, gateVars, emitted, src, fwdVars,
                 delivered>>

\* ctx is done: the channel is closed without an event.
ProduceCancel(r) ==
  /\ prod[r] = "run"
  /\ cancelled[r]
  /\ prod' = [prod EXCEPT ![r] = "cancel"]
  /\ UNCHANGED <<pc, reqVars, cancelled, outcome, gateVars, emitted, src, fwdVars,
                 delivered>>

-----------------------------------------------------------------------------
\* The forwarder: forwardStream.

ForwardSend(r) ==
  /\ fwd[r] = "send"
  /\ Len(out[r]) < OutCap
  /\ out' = [out EXCEPT ![r] = Append(@, hold[r])]
  /\ lastErr' = [lastErr EXCEPT ![r] =
                   IF hold[r].kind = "chunk" THEN @ ELSE hold[r].kind]
  /\ fwd' = [fwd EXCEPT ![r] = "recv"]
  /\ UNCHANGED <<pc, reqVars, cancelled, outcome, gateVars, srcVars, hold, delivered>>

\* Mutant: the forwarder exits without invoking done.
ForwardAbandonsSilently(r) ==
  /\ fwd[r] = "send"
  /\ cancelled[r]
  /\ permit' = [permit EXCEPT ![r] = NoProvider]
  /\ fwd' = [fwd EXCEPT ![r] = "end"]
  /\ UNCHANGED <<pc, reqVars, cancelled, outcome, cbs, verdict, srcVars, hold, lastErr,
                 out, delivered>>

\* Mutant: a plain send that does not watch ctx.
ForwardNeverAbandons(r) ==
  /\ fwd[r] = "send"
  /\ cancelled[r]
  /\ UNCHANGED vars

\* sendStreamEvent returned false: done(nil), out closed.
ForwardAbandons(r) ==
  /\ fwd[r] = "send"
  /\ cancelled[r]
  /\ Release(r, TRUE)
  /\ fwd' = [fwd EXCEPT ![r] = "end"]
  /\ UNCHANGED <<pc, reqVars, cancelled, outcome, srcVars, hold, lastErr, out, delivered>>

ForwardReceive(r) ==
  /\ fwd[r] = "recv"
  /\ src[r] # <<>>
  /\ hold' = [hold EXCEPT ![r] = Head(src[r])]
  /\ src' = [src EXCEPT ![r] = Tail(@)]
  /\ fwd' = [fwd EXCEPT ![r] = "send"]
  /\ UNCHANGED <<pc, reqVars, cancelled, outcome, gateVars, prod, emitted, lastErr, out,
                 delivered>>

\* Mutant: a mid-stream error is not reported to the breaker.
ForwardEndsClean(r) ==
  /\ fwd[r] = "recv"
  /\ src[r] = <<>>
  /\ prod[r] # "run"
  /\ Release(r, TRUE)
  /\ fwd' = [fwd EXCEPT ![r] = "end"]
  /\ UNCHANGED <<pc, reqVars, cancelled, outcome, srcVars, hold, lastErr, out, delivered>>

\* The provider's channel is closed and drained: done(observation), out closed.
ForwardEnds(r) ==
  /\ fwd[r] = "recv"
  /\ src[r] = <<>>
  /\ prod[r] # "run"
  /\ Release(r, ObservedOk(lastErr[r]))
  /\ fwd' = [fwd EXCEPT ![r] = "end"]
  /\ UNCHANGED <<pc, reqVars, cancelled, outcome, srcVars, hold, lastErr, out, delivered>>

-----------------------------------------------------------------------------
\* The handler's range loop over out (handleChatStream).

ReceiveChunk(r) ==
  /\ pc[r] = "range"
  /\ out[r] # <<>>
  /\ Head(out[r]).kind = "chunk"
  /\ delivered' = [delivered EXCEPT ![r] = Append(@, Head(out[r]))]
  /\ out' = [out EXCEPT ![r] = Tail(@)]
  /\ UNCHANGED <<pc, reqVars, cancelled, outcome, gateVars, srcVars, fwd, hold, lastErr>>

\* Mutant: a mid-stream error is retried.
ReceiveErrorRetries(r) ==
  /\ pc[r] = "range"
  /\ out[r] # <<>>
  /\ Head(out[r]).kind \in ErrorClasses
  /\ fwd[r] = "end"
  /\ idx[r] < Len(chain[r])
  /\ out' = [out EXCEPT ![r] = Tail(@)]
  /\ idx' = [idx EXCEPT ![r] = @ + 1]
  /\ pc' = [pc EXCEPT ![r] = "gate"]
  /\ UNCHANGED <<chain, attempt, calls, elapsed, delay, cancelled, outcome, gateVars,
                 srcVars, fwd, hold, lastErr, delivered>>

\* Mutant: a mid-stream error event is skipped.
ReceiveErrorSkips(r) ==
  /\ pc[r] = "range"
  /\ out[r] # <<>>
  /\ Head(out[r]).kind \in ErrorClasses
  /\ out' = [out EXCEPT ![r] = Tail(@)]
  /\ UNCHANGED <<pc, cancelled, outcome, reqVars, gateVars, srcVars, fwd, hold, lastErr,
                 delivered>>

\* A mid-stream error event ends the response.
ReceiveError(r) ==
  /\ pc[r] = "range"
  /\ out[r] # <<>>
  /\ Head(out[r]).kind \in ErrorClasses
  /\ out' = [out EXCEPT ![r] = Tail(@)]
  /\ Finish(r, Head(out[r]).kind)
  /\ UNCHANGED <<reqVars, gateVars, srcVars, fwd, hold, lastErr, delivered>>

\* out is closed and drained; [DONE] is written only while ctx is alive.
ReceiveClosed(r) ==
  /\ pc[r] = "range"
  /\ out[r] = <<>>
  /\ fwd[r] = "end"
  /\ Finish(r, IF cancelled[r] THEN "canceled" ELSE "ok")
  /\ UNCHANGED <<reqVars, gateVars, srcVars, fwdVars, delivered>>

\* A write to the client fails: the handler leaves the loop early.
WriteFails(r) ==
  /\ pc[r] = "range"
  /\ delivered[r] # <<>>
  /\ Finish(r, "canceled")
  /\ UNCHANGED <<reqVars, gateVars, srcVars, fwdVars, delivered>>

-----------------------------------------------------------------------------
\* The client disconnects.
ClientGone(r) ==
  /\ pc[r] \notin {"idle", "end"}
  /\ ~cancelled[r]
  /\ cancelled' = [cancelled EXCEPT ![r] = TRUE]
  /\ UNCHANGED <<pc, reqVars, outcome, gateVars, srcVars, fwdVars, delivered>>

\* A breaker's expiry passes.
Expire(p) ==
  /\ CanExpire(cbs[p])
  /\ cbs' = [cbs EXCEPT ![p].due = TRUE]
  /\ UNCHANGED <<pc, reqVars, cancelled, outcome, permit, verdict, srcVars, fwdVars,
                 delivered>>

\* What a provider call can answer at once, whatever the router does.
CallReturns(r) ==
  \E d \in CallTimes :
    \/ CallSucceeds(r, d)
    \/ \E ra \in RetryAfters : CallFails(r, "retryable", ra, d)
    \/ \E e \in {"fatal", "canceled"} : CallFails(r, e, 0, d)

Peek(r) ==
  \/ PeekCancelled(r)
  \/ PeekChunk(r)
  \/ \E d \in CallTimes : PeekClosed(r, d) \/ PeekError(r, d)

Route(r) ==
  \/ Start(r) \/ GateAdmits(r) \/ GateRejects(r)
  \/ CallReturns(r) \/ StreamOpens(r) \/ Peek(r)
  \/ SleepEnds(r) \/ SleepCancelled(r)

Produce(r) ==
  \/ ProduceChunk(r) \/ ProduceEnd(r) \/ ProduceCancel(r)
  \/ \E e \in ErrorClasses : ProduceError(r, e)

Forward(r) ==
  ForwardSend(r) \/ ForwardAbandons(r) \/ ForwardReceive(r) \/ ForwardEnds(r)

Receive(r) ==
  ReceiveChunk(r) \/ ReceiveError(r) \/ ReceiveClosed(r) \/ WriteFails(r)

\* No goroutine of the request is left.
Settled(r) ==
  /\ pc[r] = "end"
  /\ fwd[r] \in {"none", "end"}
  /\ prod[r] # "run"

\* Every request has been served; the instance has nothing more to do.
AllSettled ==
  /\ \A r \in Requests : Settled(r)
  /\ UNCHANGED vars

Next ==
  \/ \E r \in Requests : Route(r) \/ Produce(r) \/ Forward(r) \/ Receive(r) \/ ClientGone(r)
  \/ \E p \in Providers : Expire(p)
  \/ AllSettled

Spec == Init /\ [][Next]_vars

\* Scheduling: goroutines that can run do run.  A non-streaming provider call
\* ends (the provider's Timeout); a streaming one has no timeout and is only
\* sure to return, and its body to be given up, once ctx is cancelled.
RouteProgress(r) ==
  /\ pc[r] # "idle"
  /\ pc[r] = "call" => r \notin Streams \/ cancelled[r]
  /\ Route(r)

FairSpec ==
  /\ Spec
  /\ \A r \in Requests : WF_vars(RouteProgress(r))
  /\ \A r \in Streams :
       /\ WF_vars(ProduceCancel(r))
       /\ WF_vars(Forward(r))
       /\ WF_vars(Receive(r))

-----------------------------------------------------------------------------
Events == [kind : {"chunk", "retryable", "fatal", "none"}, call : Nat, seq : Nat]

Breaker ==
  [state : BreakerStates, due : BOOLEAN, requests : Nat, successes : Nat,
   failures : Nat, live : SUBSET Requests]

RouteTypeOK ==
  /\ pc \in [Requests -> {"idle", "gate", "call", "peek", "sleep", "range", "end"}]
  /\ cancelled \in [Requests -> BOOLEAN]
  /\ outcome \in [Requests -> {"none", "nochain", "ok", "breaker", "retryable",
                               "fatal", "canceled"}]

ReqTypeOK ==
  /\ chain \in [Requests -> Chains \cup {<<>>}]
  /\ idx \in [Requests -> Nat]
  /\ attempt \in [Requests -> Nat]
  /\ calls \in [Requests -> Nat]
  /\ elapsed \in [Requests -> Nat]
  /\ delay \in [Requests -> Nat]

GateTypeOK ==
  /\ cbs \in [Providers -> Breaker]
  /\ permit \in [Requests -> Providers \cup {NoProvider}]
  /\ verdict \in [Requests -> {"none", "ok", "fail"}]

SrcTypeOK ==
  /\ prod \in [Requests -> {"none", "run", "done", "err", "cancel"}]
  /\ emitted \in [Requests -> Nat]
  /\ src \in [Requests -> Seq(Events)]

FwdTypeOK ==
  /\ fwd \in [Requests -> {"none", "send", "recv", "end"}]
  /\ hold \in [Requests -> Events]
  /\ lastErr \in [Requests -> {"none", "retryable", "fatal"}]
  /\ out \in [Requests -> Seq(Events)]
  /\ delivered \in [Requests -> Seq(Events)]

TypeOK ==
  /\ RouteTypeOK
  /\ ReqTypeOK
  /\ GateTypeOK
  /\ SrcTypeOK
  /\ FwdTypeOK

\* A request owes exactly one done callback from the moment allow grants it
\* until the attempt fails, the response arrives or the forwarder ends, and it
\* owes it to the provider of the chain it is calling.  On every path,
\* cancellation and mid-stream failure included, the callback is invoked once.
PermitDiscipline ==
  \A r \in Requests :
    permit[r] = IF pc[r] \in {"call", "peek"} \/ fwd[r] \in {"send", "recv"}
                THEN chain[r][idx[r]] ELSE NoProvider

\* The chunks the client sees are the first chunks of one provider call, the
\* last one made, in order and without a gap: once a chunk has crossed to the
\* handler the router never retries or fails over (no splice of two providers'
\* answers), and channels and forwarder neither lose nor reorder.
NoSplice ==
  \A r \in Requests : \A i \in 1..Len(delivered[r]) : delivered[r][i] = Chunk(r, i)

\* A stream that the handler ends with [DONE] was complete: the provider itself
\* ended it and every chunk it emitted was delivered.  A truncated, failed or
\* abandoned stream is never presented as a finished one.
CleanEndIsComplete ==
  \A r \in Streams :
    outcome[r] = "ok" => prod[r] = "done" /\ Len(delivered[r]) = emitted[r]

\* What the client was told and what the breaker was told agree: when the
\* handler surfaced an upstream error in mid-stream, the forwarder reports a
\* failure; and it reports one only if the provider really sent an error, never
\* because the client left (forwardStream's contract).
MidStreamVerdict ==
  \A r \in Requests : fwd[r] = "end" =>
    /\ outcome[r] = "retryable" => verdict[r] = "fail"
    /\ verdict[r] = "fail" => prod[r] = "err"

\* Retry count, chain length, backoff and time budget bound the work for one
\* request: at most MaxRetries + 1 calls per provider of the chain, no wait above
\* MaxBackoff that the upstream did not ask for, although the envelope is
\* computed in 64 bits, and no call after MaxTotal, which the whole chain shares.
WorkBounded ==
  \A r \in Requests :
    /\ calls[r] <= Len(chain[r]) * (MaxRetries + 1)
    /\ pc[r] = "sleep" => delay[r] \in 0..MaxBackoff \cup RetryAfters
    /\ pc[r] = "call" /\ MaxTotal > 0 => elapsed[r] <= MaxTotal

\* A client that leaves a stream, at whatever point, sets everything free: the
\* router returns, forwarder and producer exit, the permit is given back.
CancelledSettles ==
  \A r \in Streams : cancelled[r] ~> Settled(r) /\ permit[r] = NoProvider

\* A non-streaming request always gets its answer, whatever the providers do.
UnaryAnswered ==
  \A r \in Requests \ Streams : pc[r] = "gate" ~> pc[r] = "end"

\* Every request is a well-behaved caller of the breaker pool: Router implements
\* BreakerPool, so what BreakerPool.tla shows of the breakers holds here.
Pool == INSTANCE BreakerPool WITH Callers <- Requests
ImplementsPool == Pool!Spec

\* streamAttemptOnce's comment: "ctx cancellation here is treated as caller-gone:
\* release the breaker permit as a clean observation".  No breaker is told of a
\* failure by an attempt whose provider stopped because the client left.
CancelIsCleanObservation ==
  \A r \in Requests : verdict[r] = "fail" => prod[r] # "cancel"
=============================================================================
