---------------------------- MODULE ChatHandler ----------------------------
(***************************************************************************)
(* The handlers of /v1/chat/completions and /v1/messages: what a request   *)
(* goes through between its body and its billing event                     *)
(* (internal/server/chat.go, chat_stream.go, messages.go), the exact-match *)
(* cache they share (internal/cache/exact.go), the SSE writer with its     *)
(* heartbeat goroutine (internal/server/sse), and provider hot reload.     *)
(*                                                                         *)
(* A question is what the upstream is sent: a model, the messages and      *)
(* sampling parameters (text), and the other fields the gateway passes on  *)
(* (extra: n and ChatRequest.Extra), the model and the text as classifier  *)
(* and compressor (module Prompt) leave them.  An answer is a number of    *)
(* content parts and whether its finish reason is "stop".  The router      *)
(* appears by what module Router shows of it: a call ends in an error or   *)
(* an answer, a stream passes on the parts in order and ends with an error *)
(* event, or, if it ends without one and the client is there, complete.    *)
(* The writer's mutex makes a frame one step; only the heartbeat, which    *)
(* the handler does not wait for until stopHB, is seen in the middle of    *)
(* one.                                                                    *)
(***************************************************************************)
EXTENDS FiniteSets, Prompt

CONSTANTS
  Requests,
  Mixes,         \* what the requests are: "chat", "stream" (chat with stream
                 \* set), "native" (/v1/messages)
  Models, Texts, Extras,
  Tables,        \* what provider files configure: sets of models
  Asked,         \* the question of a request as it comes
  OptOut,        \* the requests whose key has the scope smart_route:disable
  MaxParts       \* bound: parts of an answer

Questions == [model : Models, text : Texts, extra : Extras]
Keys == [model : Models, text : Texts]

ASSUME ChatConstants ==
  /\ Mixes \subseteq [Requests -> {"chat", "stream", "native"}]
  /\ Asked \in [Requests -> Questions]
  /\ Models \in Tables
  /\ MaxParts \in Nat

Answers == [of : Questions, parts : 0..MaxParts, stop : BOOLEAN]
Entries == [of : Questions, parts : 0..MaxParts, got : 0..MaxParts, stop : BOOLEAN]

VARIABLES
  kind,
  table,         \* the models the registry resolves
  cache,         \* the Redis entries
  pc,            \* where the handler is
  sent,          \* its question, rewritten
  ans,           \* the answer it is passing on
  got,           \* parts of it seen so far (contentBuf)
  fin,           \* finishReason, as seen so far, is "stop"
  status,        \* hit, rejected, or the final status: ok, error
  wire,          \* content parts written, and the last frame of any kind
  hb,            \* the heartbeat: off, idle, write, exit
  gone,          \* the request's context is cancelled
  broken,        \* a write to the client has failed
  billed         \* billing events emitted

shared == <<kind, table, cache>>
answer == <<sent, ans, got, fin>>
link == <<hb, gone, broken>>
vars == <<shared, pc, answer, status, wire, link, billed>>

Streams == {r \in Requests : kind[r] = "stream"}
Natives == {r \in Requests : kind[r] = "native"}

Init ==
  /\ kind \in Mixes
  /\ table = Models
  /\ cache = <<>>
  /\ pc = [r \in Requests |-> "admit"]
  /\ sent = Asked
  /\ ans = [r \in Requests |-> [of |-> Asked[r], parts |-> 0, stop |-> FALSE]]
  /\ got = [r \in Requests |-> 0]
  /\ fin = [r \in Requests |-> FALSE]
  /\ status = [r \in Requests |-> "none"]
  /\ wire = [r \in Requests |-> [n |-> 0, last |-> "none"]]
  /\ hb = [r \in Requests |-> "off"]
  /\ gone = [r \in Requests |-> FALSE]
  /\ broken = [r \in Requests |-> FALSE]
  /\ billed = [r \in Requests |-> 0]

Goto(r, from, to) == pc[r] = from /\ pc' = [pc EXCEPT ![r] = to]

Pass(r, from, to) ==
  /\ Goto(r, from, to)
  /\ UNCHANGED <<shared, answer, status, wire, link, billed>>

\* A frame, or the whole body, is written; with n content parts up to now.
Write(r, n, last) == wire' = [wire EXCEPT ![r] = [n |-> n, last |-> last]]

\* emitBillingEvent.
Bill(r) == billed' = [billed EXCEPT ![r] = @ + 1]

-----------------------------------------------------------------------------
\* Up to the router.

\* writeError before anything was looked up.
Reject(r, from) ==
  /\ Goto(r, from, "done")
  /\ Write(r, 0, "json")
  /\ status' = [status EXCEPT ![r] = "rejected"]
  /\ UNCHANGED <<shared, answer, link, billed>>

\* What may go upstream: classify, unless the key opts out, and then compress for
\* the model chosen.
Rewrites(r) ==
  LET q == Asked[r]
      models == IF r \in OptOut THEN {q.model} ELSE Classify(q.model, q.text) IN
  {[q EXCEPT !.model = m, !.text = Compress(m, q.text)] : m \in models}

\* ResolveModel, of the registry as it is now.
Resolves(q) == q.model \in table

\* The body is read, the question rewritten, the model resolved.
Admit(r) ==
  /\ r \notin Natives
  /\ Goto(r, "admit", "lookup")
  /\ \E q \in Rewrites(r) : Resolves(q) /\ sent' = [sent EXCEPT ![r] = q]
  /\ UNCHANGED <<shared, ans, got, fin, status, wire, link, billed>>

\* messagesHandler peeks at the model and forwards the body untouched.
Peek(r) == r \in Natives /\ Resolves(Asked[r]) /\ Pass(r, "admit", "route")

\* The body or the model is not accepted.
Refuse(r) == Reject(r, "admit")

\* The token limit comes before the lookup.
Limit(r) == Reject(r, "lookup")

\* Mutant: the key is made from the request as it came.
KeyOfAsked(r) == [model |-> Asked[r].model, text |-> Asked[r].text]

\* The fields that are hashed.
Key(r) == [model |-> sent[r].model, text |-> sent[r].text]

\* A hit is written at once, or replayed frame by frame.
Hit(r) ==
  /\ Key(r) \in DOMAIN cache
  /\ LET e == cache[Key(r)] IN
       /\ ans' = [ans EXCEPT ![r] = [of |-> e.of, parts |-> e.got, stop |-> e.stop]]
       /\ IF r \in Streams THEN Goto(r, "lookup", "replay") /\ UNCHANGED wire
                           ELSE Goto(r, "lookup", "done") /\ Write(r, e.got, "json")
  /\ status' = [status EXCEPT ![r] = "hit"]
  /\ UNCHANGED <<shared, sent, got, fin, link, billed>>

\* No entry, or one that Redis or the decoder fails to give.
Miss(r) == Pass(r, "lookup", "route")

\* Mutant: the content frames stop one short.
ReplayFrameShort(r) ==
  /\ IF got[r] + 1 < ans[r].parts
       THEN /\ Goto(r, "replay", "replay")
            /\ got' = [got EXCEPT ![r] = @ + 1]
            /\ Write(r, got[r] + 1, "chunk")
       ELSE Goto(r, "replay", "done") /\ Write(r, got[r], "done") /\ UNCHANGED got
  /\ UNCHANGED <<shared, sent, ans, fin, status, link, billed>>

\* replayCachedStream: the content frames, then the finish frame and [DONE].
ReplayFrame(r) ==
  /\ IF got[r] < ans[r].parts
       THEN /\ Goto(r, "replay", "replay")
            /\ got' = [got EXCEPT ![r] = @ + 1]
            /\ Write(r, got[r] + 1, "chunk")
       ELSE Goto(r, "replay", "done") /\ Write(r, got[r], "done") /\ UNCHANGED got
  /\ UNCHANGED <<shared, sent, ans, fin, status, link, billed>>

ReplayFails(r) ==
  /\ Goto(r, "replay", "done")
  /\ broken' = [broken EXCEPT ![r] = TRUE]
  /\ UNCHANGED <<shared, answer, status, wire, hb, gone, billed>>

-----------------------------------------------------------------------------
\* The router's answers.

\* An error before anything was written, an empty chain after a reload included;
\* for the native handler also an answer other than 200, which is passed on.
\* It does not bill either.
RouteFails(r) ==
  /\ Goto(r, "route", "done")
  /\ Write(r, 0, "json")
  /\ status' = [status EXCEPT ![r] = "error"]
  /\ IF r \in Natives THEN UNCHANGED billed ELSE Bill(r)
  /\ UNCHANGED <<shared, answer, link>>

AnswersTo(r) == [of : {sent[r]}, parts : 0..MaxParts, stop : BOOLEAN]

\* The whole response is written, whether or not the client reads it.
Answered(r) ==
  /\ Goto(r, "route", "store")
  /\ \E a \in AnswersTo(r) :
       /\ ans' = [ans EXCEPT ![r] = a]
       /\ got' = [got EXCEPT ![r] = a.parts]
       /\ fin' = [fin EXCEPT ![r] = a.stop]
       /\ Write(r, a.parts, "json")
  /\ status' = [status EXCEPT ![r] = "ok"]
  /\ UNCHANGED <<shared, sent, link, billed>>

\* ChatCompletion, which resolves the model again.
Respond(r) == r \notin Streams \cup Natives /\ Resolves(sent[r]) /\ Answered(r)

\* ForwardMessages of the provider that was resolved, with a JSON body.
Forward(r) == r \in Natives /\ Answered(r)

\* A stream opens; the chat handler starts its heartbeat.
StreamOpens(r) ==
  /\ r \in Natives \/ (r \in Streams /\ Resolves(sent[r]))
  /\ Goto(r, "route", "range")
  /\ \E a \in AnswersTo(r) : ans' = [ans EXCEPT ![r] = a]
  /\ status' = [status EXCEPT ![r] = "ok"]
  /\ hb' = IF r \in Natives THEN hb ELSE [hb EXCEPT ![r] = "idle"]
  /\ UNCHANGED <<shared, sent, got, fin, wire, gone, broken, billed>>

-----------------------------------------------------------------------------
\* The range loop of handleChatStream, and pipeAnthropicSSE.

\* The next part, or after the last the finish reason, is observed.
NextEvent(r) ==
  /\ Goto(r, "range", "frame")
  /\ \/ /\ got[r] < ans[r].parts
        /\ got' = [got EXCEPT ![r] = @ + 1]
        /\ UNCHANGED fin
     \/ /\ got[r] = ans[r].parts /\ ans[r].stop /\ ~fin[r]
        /\ fin' = [fin EXCEPT ![r] = TRUE]
        /\ UNCHANGED got
  /\ UNCHANGED <<shared, sent, ans, status, wire, link, billed>>

\* An error event.
StreamError(r) ==
  /\ r \in Streams
  /\ Goto(r, "range", "errframe")
  /\ status' = [status EXCEPT ![r] = "error"]
  /\ UNCHANGED <<shared, answer, wire, link, billed>>

StreamCloses(r) ==
  /\ r \in Streams
  /\ gone[r] \/ (got[r] = ans[r].parts /\ fin[r] = ans[r].stop)
  /\ Pass(r, "range", "end")

\* The native pipe ends at the end of the body and at an error alike.
PipeEnds(r) == r \in Natives /\ Pass(r, "range", "store")

Kind(r) == CASE pc[r] = "frame" -> "chunk"
             [] pc[r] = "errframe" -> "error"
             [] pc[r] = "doneframe" -> "done"

AfterFrame(r) == CASE pc[r] = "frame" -> "range"
                   [] pc[r] = "errframe" -> "end"
                   [] pc[r] = "doneframe" -> "store"

AfterFailure(r) == CASE pc[r] \in {"frame", "errframe"} /\ r \notin Natives -> "end"
                     [] OTHER -> "store"

\* The writer's mutex is free.
Framing(r) == pc[r] \in {"frame", "errframe", "doneframe"} /\ hb[r] # "write"

WriteData(r) ==
  /\ Framing(r) /\ ~broken[r]
  /\ Goto(r, pc[r], AfterFrame(r))
  /\ Write(r, got[r], Kind(r))
  /\ UNCHANGED <<shared, answer, status, link, billed>>

\* The connection is lost, which no later write makes good.
WriteDataFails(r) ==
  /\ Framing(r)
  /\ Goto(r, pc[r], AfterFailure(r))
  /\ broken' = [broken EXCEPT ![r] = TRUE]
  /\ UNCHANGED <<shared, answer, status, wire, hb, gone, billed>>

\* Mutant: [DONE] only after a finish reason.
EndOnFinish(r) ==
  Pass(r, "end", IF ~gone[r] /\ status[r] = "ok" /\ fin[r] THEN "doneframe" ELSE "store")

\* [DONE] if the client is there and no error was reported.
End(r) ==
  Pass(r, "end", IF ~gone[r] /\ status[r] = "ok" THEN "doneframe" ELSE "store")

-----------------------------------------------------------------------------
\* After the response.

\* Set, which may fail, of what the handler has seen of the answer.
Cache(r) ==
  \/ cache' = [k \in DOMAIN cache \cup {Key(r)} |->
                 IF k = Key(r) THEN [of |-> ans[r].of, parts |-> ans[r].parts,
                                     got |-> got[r], stop |-> fin[r]]
                               ELSE cache[k]]
  \/ UNCHANGED cache

\* Mutant: finish_reason is not looked at.
ShouldCacheCut(r) ==
  /\ r \notin Natives /\ status[r] = "ok"
  /\ r \in Streams => ~gone[r]
  /\ got[r] > 0

\* The gate of the write-back: shouldCacheResponse of a success, with the client,
\* if it is a stream's, still there.
ShouldCache(r) ==
  /\ r \notin Natives /\ status[r] = "ok"
  /\ r \in Streams => ~gone[r]
  /\ fin[r] /\ got[r] > 0

\* Mutant: what ends with an error event is not billed.
StoreBillsSuccess(r) ==
  /\ Goto(r, "store", IF hb[r] = "off" THEN "done" ELSE "stop")
  /\ (ShouldCache(r) /\ Cache(r)) \/ UNCHANGED cache
  /\ IF status[r] = "ok" THEN Bill(r) ELSE UNCHANGED billed
  /\ UNCHANGED <<kind, table, answer, status, wire, link>>

\* The write-back (none without counted prompt tokens) and the billing event.
Store(r) ==
  /\ Goto(r, "store", IF hb[r] = "off" THEN "done" ELSE "stop")
  /\ (ShouldCache(r) /\ Cache(r)) \/ UNCHANGED cache
  /\ Bill(r)
  /\ UNCHANGED <<kind, table, answer, status, wire, link>>

\* Mutant: stopHB does not wait for the goroutine.
StopNoWait(r) == Pass(r, "stop", "done")

\* stopHB: cancel, and wait for the goroutine.
Stop(r) == hb[r] = "exit" /\ Pass(r, "stop", "done")

-----------------------------------------------------------------------------
\* The heartbeat.

Beat(r, from, to) == hb[r] = from /\ hb' = [hb EXCEPT ![r] = to]

Ping(r) ==
  /\ Beat(r, "idle", "write")
  /\ UNCHANGED <<shared, pc, answer, status, wire, gone, broken, billed>>

Pinged(r) ==
  /\ Beat(r, "write", "idle")
  /\ broken' \in {broken, [broken EXCEPT ![r] = TRUE]}
  /\ UNCHANGED <<shared, pc, answer, status, wire, gone, billed>>

\* Mutant: the goroutine ends when the handler is done with it, not with the
\* request's context.
HeartbeatOutlives(r) ==
  /\ pc[r] = "done"
  /\ Beat(r, "idle", "exit")
  /\ UNCHANGED <<shared, pc, answer, status, wire, gone, broken, billed>>

HeartbeatEnds(r) ==
  /\ gone[r] \/ pc[r] = "stop"
  /\ Beat(r, "idle", "exit")
  /\ UNCHANGED <<shared, pc, answer, status, wire, gone, broken, billed>>

-----------------------------------------------------------------------------
\* The environment.

ClientGone(r) ==
  /\ ~gone[r] /\ pc[r] # "done"
  /\ gone' = [gone EXCEPT ![r] = TRUE]
  /\ UNCHANGED <<shared, pc, answer, status, wire, hb, broken, billed>>

\* /admin/reload swaps the provider table.
Reload(t) ==
  /\ table # t /\ table' = t
  /\ UNCHANGED <<kind, cache, pc, answer, status, wire, link, billed>>

\* The TTL of an entry is over; every entry has the key of some request.
Expire(r) ==
  /\ Key(r) \in DOMAIN cache
  /\ cache' = [k \in DOMAIN cache \ {Key(r)} |-> cache[k]]
  /\ UNCHANGED <<kind, table, pc, answer, status, wire, link, billed>>

Finished == (\A r \in Requests : pc[r] = "done") /\ UNCHANGED vars

Handle(r) ==
  \/ Admit(r) \/ Peek(r) \/ Refuse(r) \/ Limit(r)
  \/ Hit(r) \/ Miss(r) \/ ReplayFrame(r) \/ ReplayFails(r)
  \/ WriteData(r) \/ WriteDataFails(r) \/ End(r) \/ Store(r) \/ Stop(r)

Upstream(r) ==
  \/ RouteFails(r) \/ Respond(r) \/ Forward(r) \/ StreamOpens(r)
  \/ NextEvent(r) \/ StreamError(r) \/ StreamCloses(r) \/ PipeEnds(r)

Heartbeat(r) == Ping(r) \/ Pinged(r) \/ HeartbeatEnds(r)

Next ==
  \/ \E r \in Requests :
       Handle(r) \/ Upstream(r) \/ Heartbeat(r) \/ ClientGone(r) \/ Expire(r)
  \/ \E t \in Tables : Reload(t)
  \/ Finished

Spec == Init /\ [][Next]_vars

\* Handlers and heartbeats run.  A cancelled request gets its answer from the
\* router (CancelledSettles), and a stop is seen by the heartbeat in the end:
\* the select of Go does not prefer the ticker for ever.
FairSpec ==
  /\ Spec
  /\ \A r \in Requests :
       /\ WF_vars(Handle(r))
       /\ WF_vars(gone[r] /\ (RouteFails(r) \/ StreamCloses(r) \/ PipeEnds(r)))
       /\ WF_vars(Pinged(r)) /\ SF_vars(HeartbeatEnds(r))

-----------------------------------------------------------------------------
TypeOK ==
  /\ kind \in Mixes
  /\ table \in Tables
  /\ \A k \in DOMAIN cache : k \in Keys /\ cache[k] \in Entries
  /\ pc \in [Requests -> {"admit", "lookup", "replay", "route", "range", "frame",
                          "errframe", "doneframe", "end", "store", "stop", "done"}]
  /\ sent \in [Requests -> Questions] /\ ans \in [Requests -> Answers]
  /\ got \in [Requests -> 0..MaxParts]
  /\ fin \in [Requests -> BOOLEAN]
  /\ status \in [Requests -> {"none", "hit", "rejected", "ok", "error"}]
  /\ wire \in [Requests -> [n : 0..MaxParts,
                            last : {"none", "json", "chunk", "error", "done"}]]
  /\ hb \in [Requests -> {"off", "idle", "write", "exit"}]
  /\ gone \in [Requests -> BOOLEAN] /\ broken \in [Requests -> BOOLEAN]
  /\ billed \in [Requests -> Nat]

\* Whatever conversation is sent to a gateway that has admitted nothing yet, for
\* whatever model it serves, the compressor keeps its promises (CompressKeeps).
CompressSound ==
  (\A r \in Requests : pc[r] = "admit")
  => \A m \in table, t \in Texts : CompressKeeps(m, t)

\* shouldCacheResponse: an entry is "a fully-formed answer that a future identical
\* request can safely receive verbatim": all the parts of an answer to a question
\* with the model and the text of its key, as they were sent upstream, although
\* streams are cached from what was observed before an error, a lost connection
\* or a cancellation ended them.
CacheSound ==
  \A k \in DOMAIN cache :
    /\ cache[k].of.model = k.model /\ cache[k].of.text = k.text
    /\ cache[k].stop /\ cache[k].got > 0 /\ cache[k].got = cache[k].parts

\* docs/architecture.md on the exact cache: no false positives.  A hit is the
\* answer to the very question the request would have sent.
NoFalsePositive == \A r \in Requests : status[r] = "hit" => ans[r].of = sent[r]

\* A client that reads [DONE] has got every part of the answer, fresh or
\* replayed, and the request counts as a success.
DoneMeansComplete ==
  \A r \in Streams :
    wire[r].last = "done" =>
      wire[r].n = ans[r].parts /\ status[r] \in {"ok", "hit"}

\* emitStreamError: "every stream ends with either [DONE] or an error event",
\* unless the client is gone or nothing can be written to it.
StreamTerminated ==
  \A r \in Streams :
    pc[r] = "done" /\ ~gone[r] /\ ~broken[r] =>
      wire[r].last \in {"json", "done", "error"}

\* A chat request that was sent upstream is billed once, with the outcome the
\* client saw; a hit or a rejection is not ("would double-count"); a native
\* request is billed once if it succeeded.
BilledOnce ==
  \A r \in Requests :
    pc[r] = "done" =>
      /\ billed[r] = CASE status[r] \in {"hit", "rejected"} -> 0
                       [] status[r] = "ok" -> 1
                       [] OTHER -> IF r \in Natives THEN 0 ELSE 1
      /\ wire[r].last = "error" => status[r] = "error"

\* "To guarantee no writes happen after handler return": the heartbeat of a
\* returned handler is over.
QuietAfterReturn ==
  \A r \in Requests : pc[r] = "done" => hb[r] \in {"off", "exit"}

\* A handler whose client has left returns, wherever it was, its heartbeat with
\* it.
GoneReturns == \A r \in Requests : gone[r] ~> pc[r] = "done"
=============================================================================
