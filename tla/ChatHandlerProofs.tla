------------------------- MODULE ChatHandlerProofs -------------------------
(***************************************************************************)
(* The safety properties of ChatHandler for any requests, questions,       *)
(* provider files, rules and lengths of answers.                           *)
(*                                                                         *)
(* The inductive invariant says, for each place of the handler, what the   *)
(* client has been sent, what of the answer was seen and whether it was    *)
(* billed (Phase), and that what is cached is whole (Sound).  What the     *)
(* classifier and the compressor make of a question stays opaque.          *)
(***************************************************************************)
EXTENDS ChatHandler, TLAPS

\* The variables are functions of the requests.
Shape ==
  /\ DOMAIN pc = Requests /\ DOMAIN sent = Requests /\ DOMAIN ans = Requests
  /\ DOMAIN got = Requests /\ DOMAIN fin = Requests /\ DOMAIN status = Requests
  /\ DOMAIN wire = Requests /\ DOMAIN hb = Requests /\ DOMAIN gone = Requests
  /\ DOMAIN broken = Requests /\ DOMAIN billed = Requests

PCs == {"admit", "lookup", "replay", "route", "range", "frame", "errframe", "end",
        "doneframe", "store", "stop", "done"}

Typed(r) == got[r] \in Nat /\ ans[r].parts \in Nat /\ fin[r] \in BOOLEAN

\* What the handler has seen is a beginning of the answer to what it sent, and
\* with the finish reason the whole of it.
Observed(r) ==
  /\ ans[r].of = sent[r]
  /\ got[r] <= ans[r].parts
  /\ fin[r] => got[r] = ans[r].parts /\ ans[r].stop

\* Nothing is decided yet, and nothing written.
Fresh(r) ==
  /\ status[r] = "none" /\ wire[r].last = "none"
  /\ got[r] = 0 /\ ~fin[r] /\ billed[r] = 0 /\ hb[r] = "off"

\* A hit is being replayed.
Replaying(r) ==
  /\ r \in Streams /\ status[r] = "hit" /\ wire[r].last \in {"none", "chunk"}
  /\ got[r] <= ans[r].parts /\ billed[r] = 0 /\ hb[r] = "off"

\* Frames are being passed on.
Passing(r) ==
  /\ r \in Streams \cup Natives /\ status[r] = "ok"
  /\ wire[r].last \in {"none", "chunk"}
  /\ Observed(r) /\ billed[r] = 0

\* The error frame is about to be written.
Failing(r) ==
  /\ r \in Streams /\ status[r] = "error"
  /\ wire[r].last \in {"none", "chunk"}
  /\ Observed(r) /\ billed[r] = 0

\* The loop is over: a success that can still be written is complete, and an error
\* that could be written was.
Ending(r) ==
  /\ r \in Streams /\ status[r] \in {"ok", "error"}
  /\ wire[r].last \in {"none", "chunk", "error"}
  /\ wire[r].last = "error" => status[r] = "error"
  /\ status[r] = "error" /\ ~broken[r] => wire[r].last = "error"
  /\ status[r] = "ok" /\ ~broken[r] /\ ~gone[r] => got[r] = ans[r].parts
  /\ Observed(r) /\ billed[r] = 0

\* [DONE] is about to be written.
Closing(r) ==
  /\ r \in Streams /\ status[r] = "ok" /\ wire[r].last \in {"none", "chunk"}
  /\ ~broken[r] => got[r] = ans[r].parts
  /\ Observed(r) /\ billed[r] = 0

\* What was written agrees with the status.
Told(r) ==
  /\ wire[r].last = "error" => status[r] = "error"
  /\ r \in Streams /\ wire[r].last = "done" =>
       wire[r].n = ans[r].parts /\ status[r] \in {"ok", "hit"}
  /\ r \in Streams /\ ~gone[r] /\ ~broken[r] => wire[r].last \in {"json", "done", "error"}

\* The response is over.
Over(r) == Told(r) /\ status[r] \in {"ok", "error"} /\ Observed(r)

Charge(r) ==
  CASE status[r] \in {"hit", "rejected"} -> 0
    [] status[r] = "ok" -> 1
    [] OTHER -> IF r \in Natives THEN 0 ELSE 1

Phase(r) ==
  /\ pc[r] \in PCs
  /\ pc[r] \in {"admit", "lookup", "route"} => Fresh(r)
  /\ pc[r] = "replay" => Replaying(r)
  /\ pc[r] \in {"range", "frame"} => Passing(r)
  /\ pc[r] = "errframe" => Failing(r)
  /\ pc[r] = "end" => Ending(r)
  /\ pc[r] = "doneframe" => Closing(r)
  /\ pc[r] = "store" => Over(r) /\ billed[r] = 0 /\ (status[r] = "error" => r \in Streams)
  /\ pc[r] = "stop" => Over(r) /\ billed[r] = 1 /\ (status[r] = "error" => r \in Streams)
  /\ pc[r] = "done" => Told(r) /\ billed[r] = Charge(r) /\ hb[r] \in {"off", "exit"}

Sound ==
  \A k \in DOMAIN cache :
    /\ cache[k].of.model = k.model /\ cache[k].of.text = k.text
    /\ cache[k].got \in Nat /\ cache[k].got > 0 /\ cache[k].got = cache[k].parts
    /\ cache[k].stop = TRUE

IInv == Shape /\ (\A r \in Requests : Typed(r) /\ Phase(r)) /\ Sound

-----------------------------------------------------------------------------
\* Of request r at most the handler's place, and the link to its client for the
\* worse, changes.
Still(r) ==
  /\ kind' = kind
  /\ sent'[r] = sent[r] /\ ans'[r] = ans[r] /\ got'[r] = got[r] /\ fin'[r] = fin[r]
  /\ status'[r] = status[r] /\ wire'[r] = wire[r] /\ billed'[r] = billed[r]
  /\ gone[r] => gone'[r]
  /\ broken[r] => broken'[r]
  /\ hb[r] \in {"off", "exit"} => hb'[r] = hb[r]

\* A step that changes nothing a phase looks at keeps each of them.
LEMMA StillPhases ==
  ASSUME NEW r \in Requests, Still(r)
  PROVE  /\ Fresh(r) => Fresh(r)'
         /\ Replaying(r) => Replaying(r)'
         /\ Observed(r) => Observed(r)'
         /\ Passing(r) => Passing(r)'
         /\ Failing(r) => Failing(r)'
         /\ Ending(r) => Ending(r)'
         /\ Closing(r) => Closing(r)'
         /\ Told(r) => Told(r)'
         /\ Over(r) => Over(r)'
         /\ Charge(r)' = Charge(r)
<1>1. Fresh(r) => Fresh(r)'
  BY Zenon DEF Still, Fresh
<1>2. (r \in Streams)' = (r \in Streams) /\ (r \in Natives)' = (r \in Natives)
  BY Zenon DEF Still, Streams, Natives
<1>3. Replaying(r) => Replaying(r)'
  BY <1>2, Zenon DEF Still, Replaying
<1>4. Observed(r) => Observed(r)'
  BY Zenon DEF Still, Observed
<1>5. Passing(r) => Passing(r)'
  BY <1>2, <1>4, Zenon DEF Still, Passing
<1>6. Failing(r) => Failing(r)'
  BY <1>2, <1>4, Zenon DEF Still, Failing
<1>7. Ending(r) => Ending(r)'
  BY <1>2, <1>4, Zenon DEF Still, Ending
<1>8. Closing(r) => Closing(r)'
  BY <1>2, <1>4, Zenon DEF Still, Closing
<1>9. Told(r) => Told(r)'
  BY <1>2, Zenon DEF Still, Told
<1>10. Over(r) => Over(r)'
  BY <1>4, <1>9, Zenon DEF Still, Over
<1>11. Charge(r)' = Charge(r)
  BY <1>2, Zenon DEF Still, Charge
<1> QED
  BY <1>1, <1>3, <1>4, <1>5, <1>6, <1>7, <1>8, <1>9, <1>10, <1>11, Zenon

\* So it does the phase of the place the handler is at.
LEMMA StillPhase ==
  ASSUME NEW r \in Requests, Phase(r), Still(r), pc'[r] = pc[r]
  PROVE  Phase(r)'
<1>1. billed'[r] = billed[r] /\ status'[r] = status[r]
      /\ (hb[r] \in {"off", "exit"} => hb'[r] = hb[r])
      /\ (r \in Streams)' = (r \in Streams)
  BY Zenon DEF Still, Streams
<1> QED
  BY <1>1, StillPhases DEF Phase

\* What the phase says of a request at one place in the handler.
LEMMA At ==
  ASSUME NEW r, Phase(r)
  PROVE  /\ pc[r] \in {"admit", "lookup", "route"} => Fresh(r)
         /\ pc[r] = "replay" => Replaying(r)
         /\ pc[r] \in {"range", "frame"} => Passing(r)
         /\ pc[r] = "errframe" => Failing(r)
         /\ pc[r] = "end" => Ending(r)
         /\ pc[r] = "doneframe" => Closing(r)
         /\ pc[r] \in {"store", "stop"} =>
              Over(r) /\ (status[r] = "error" => r \in Streams)
         /\ pc[r] = "store" => billed[r] = 0
         /\ pc[r] = "stop" => billed[r] = 1
BY Zenon DEF Phase

\* A request that moves on is in the phase of the place it comes to.
LEMMA Enter ==
  ASSUME NEW r
  PROVE  /\ pc'[r] \in {"lookup", "route"} /\ Fresh(r)' => Phase(r)'
         /\ pc'[r] = "replay" /\ Replaying(r)' => Phase(r)'
         /\ pc'[r] \in {"range", "frame"} /\ Passing(r)' => Phase(r)'
         /\ pc'[r] = "errframe" /\ Failing(r)' => Phase(r)'
         /\ pc'[r] = "end" /\ Ending(r)' => Phase(r)'
         /\ pc'[r] = "doneframe" /\ Closing(r)' => Phase(r)'
         /\ /\ pc'[r] = "store" /\ Over(r)' /\ billed'[r] = 0
            /\ status'[r] = "error" => r \in Streams'
            => Phase(r)'
         /\ /\ pc'[r] = "stop" /\ Over(r)' /\ billed'[r] = 1
            /\ status'[r] = "error" => r \in Streams'
            => Phase(r)'
         /\ /\ pc'[r] = "done" /\ Told(r)' /\ hb'[r] \in {"off", "exit"}
            /\ billed'[r] = Charge(r)'
            => Phase(r)'
BY Zenon DEF Phase, PCs

\* A step that only moves the handler.
LEMMA PassStill ==
  ASSUME Shape, NEW r \in Requests, NEW from, NEW to, Pass(r, from, to)
  PROVE  Still(r) /\ pc[r] = from /\ pc'[r] = to /\ hb'[r] = hb[r]
BY Zenon DEF Pass, Goto, Still, Shape, shared, answer, link

\* What a step is, without the places it starts from.
LEMMA Kinds ==
  ASSUME NEW r, Handle(r) \/ Upstream(r) \/ Heartbeat(r) \/ ClientGone(r)
  PROVE  \/ \E from, to : Pass(r, from, to)
         \/ \E from : Reject(r, from)
         \/ Admit(r) \/ Hit(r) \/ ReplayFrame(r) \/ ReplayFails(r)
         \/ WriteData(r) \/ WriteDataFails(r) \/ Store(r)
         \/ RouteFails(r) \/ Answered(r) \/ StreamOpens(r) \/ NextEvent(r)
         \/ StreamError(r) \/ Ping(r) \/ Pinged(r) \/ HeartbeatEnds(r) \/ ClientGone(r)
BY Zenon DEF Handle, Upstream, Heartbeat, Peek, Refuse, Limit, Miss, End, Stop, Respond,
   Forward, StreamCloses, PipeEnds

\* A step of one request leaves the others alone.
LEMMA OthersStill ==
  ASSUME Shape, NEW r \in Requests,
         Handle(r) \/ Upstream(r) \/ Heartbeat(r) \/ ClientGone(r)
  PROVE  Shape' /\ \A q \in Requests \ {r} : Still(q) /\ pc'[q] = pc[q]
<1> USE DEF Shape, Still
<1>1. ASSUME NEW from, NEW to, Pass(r, from, to)
      PROVE  Shape' /\ \A q \in Requests \ {r} : Still(q) /\ pc'[q] = pc[q]
  BY <1>1, Zenon DEF Pass, Goto, shared, answer, link
<1>2. ASSUME NEW from, Reject(r, from)
      PROVE  Shape' /\ \A q \in Requests \ {r} : Still(q) /\ pc'[q] = pc[q]
  BY <1>2, Zenon DEF Reject, Goto, Write, shared, answer, link
<1>3. CASE Admit(r)
  BY <1>3, Zenon DEF Admit, Goto, shared, link
<1>4. CASE Hit(r)
  BY <1>4, Zenon DEF Hit, Goto, Write, shared, link
<1>5. CASE ReplayFrame(r)
  BY <1>5, Zenon DEF ReplayFrame, Goto, Write, shared, link
<1>6. CASE ReplayFails(r)
  BY <1>6, Zenon DEF ReplayFails, Goto, shared, answer
<1>7. CASE WriteData(r)
  BY <1>7, Zenon DEF WriteData, Goto, Write, shared, answer, link
<1>8. CASE WriteDataFails(r)
  BY <1>8, Zenon DEF WriteDataFails, Goto, shared, answer
<1>9. CASE Store(r)
  BY <1>9, Zenon DEF Store, Goto, Bill, answer, link
<1>10. CASE RouteFails(r)
  BY <1>10, Zenon DEF RouteFails, Goto, Write, Bill, shared, answer, link
<1>11. CASE Answered(r)
  BY <1>11 DEF Answered, Goto, Write, shared, link
<1>12. CASE StreamOpens(r)
  BY <1>12, Zenon DEF StreamOpens, Goto, shared
<1>13. CASE NextEvent(r)
  BY <1>13, Zenon DEF NextEvent, Goto, shared, link
<1>14. CASE StreamError(r)
  BY <1>14, Zenon DEF StreamError, Goto, shared, answer, link
<1>15. CASE Ping(r) \/ Pinged(r) \/ HeartbeatEnds(r) \/ ClientGone(r)
  BY <1>15, Zenon DEF Ping, Pinged, HeartbeatEnds, ClientGone, Beat, shared, answer
<1> HIDE DEF Shape, Still
<1> QED
  BY Kinds, <1>1, <1>2, <1>3, <1>4, <1>5, <1>6, <1>7, <1>8, <1>9, <1>10, <1>11, <1>12,
     <1>13, <1>14, <1>15, Zenon

\* A replay writes the next part, or the end of the answer.
LEMMA ReplayCases ==
  ASSUME NEW r \in Requests, Typed(r), ReplayFrame(r)
  PROVE  \/ /\ got[r] < ans[r].parts
            /\ Goto(r, "replay", "replay")
            /\ got' = [got EXCEPT ![r] = @ + 1]
            /\ Write(r, got[r] + 1, "chunk")
         \/ /\ got[r] >= ans[r].parts
            /\ Goto(r, "replay", "done") /\ Write(r, got[r], "done") /\ got' = got
<1>1. got[r] \in Nat /\ ans[r].parts \in Nat
  BY Zenon DEF Typed
<1>2. got[r] < ans[r].parts \/ got[r] >= ans[r].parts
  BY <1>1
<1>3. ~(got[r] < ans[r].parts) \/ ~(got[r] >= ans[r].parts)
  BY <1>1
<1> QED
  BY <1>2, <1>3, Zenon DEF ReplayFrame

\* Every step of a request keeps the types of its answer.
LEMMA TypedStep ==
  ASSUME Shape, Sound, MaxParts \in Nat, NEW r \in Requests, Typed(r),
         Handle(r) \/ Upstream(r) \/ Heartbeat(r) \/ ClientGone(r)
  PROVE  Typed(r)'
<1>1. CASE UNCHANGED <<ans, got, fin>>
  BY <1>1, Zenon DEF Typed
<1>2. CASE Hit(r)
  <2>1. cache[Key(r)].got \in Nat
    BY <1>2, Zenon DEF Hit, Sound
  <2>2. ans'[r].parts = cache[Key(r)].got /\ UNCHANGED <<got, fin>>
    BY <1>2, Zenon DEF Hit, Shape
  <2> QED
    BY <2>1, <2>2, Zenon DEF Typed
<1>3. CASE ReplayFrame(r)
  <2>1. UNCHANGED <<ans, fin>> /\ got'[r] \in {got[r], got[r] + 1}
    BY <1>3, ReplayCases, Zenon DEF ReplayFrame, Shape
  <2> QED
    BY <2>1 DEF Typed
<1>4. CASE Answered(r)
  BY <1>4 DEF Answered, AnswersTo, Shape, Typed
<1>5. CASE StreamOpens(r)
  BY <1>5 DEF StreamOpens, AnswersTo, Shape, Typed
<1>6. CASE NextEvent(r)
  <2>1. UNCHANGED ans /\ got'[r] \in {got[r], got[r] + 1} /\ fin'[r] \in {fin[r], TRUE}
    BY <1>6, Zenon DEF NextEvent, Shape
  <2>2. got[r] + 1 \in Nat
    BY DEF Typed
  <2> QED
    BY <2>1, <2>2, Zenon DEF Typed
<1> QED
  BY Kinds, <1>1, <1>2, <1>3, <1>4, <1>5, <1>6, Zenon
     DEF Pass, Reject, Admit, ReplayFails, WriteData, WriteDataFails, Store, RouteFails,
         StreamError, Ping, Pinged, HeartbeatEnds, ClientGone, answer

-----------------------------------------------------------------------------
\* What each step makes of its own request.

\* An error answer before anything was routed ends the request.
LEMMA RejectPhase ==
  ASSUME Shape, NEW r \in Requests, NEW from \in {"admit", "lookup"}, Phase(r),
         Reject(r, from)
  PROVE  Phase(r)'
<1>1. Fresh(r) /\ UNCHANGED <<kind, hb, billed>>
  BY At, Zenon DEF Reject, Goto, shared, link
<1>2. pc'[r] = "done" /\ status'[r] = "rejected" /\ wire'[r].last = "json"
  BY Zenon DEF Reject, Goto, Write, Shape
<1>3. Told(r)' /\ Charge(r)' = 0
  BY <1>2, Zenon DEF Told, Charge
<1> QED
  BY <1>1, <1>2, <1>3, Enter, Zenon DEF Fresh

\* A hit comes from a whole entry.
LEMMA HitPhase ==
  ASSUME Shape, Sound, NEW r \in Requests, Phase(r), Hit(r)
  PROVE  Phase(r)'
<1> DEFINE e == cache[Key(r)]
<1>1. e.got \in Nat
  BY Zenon DEF Hit, Sound
<1>2. Fresh(r) /\ UNCHANGED <<kind, got, hb, billed>> /\ status'[r] = "hit"
  BY At, Zenon DEF Hit, Goto, Shape, shared, link
<1>3. ans'[r].parts = e.got
  BY Zenon DEF Hit, Shape
<1> HIDE DEF e
<1>4. CASE r \in Streams
  <2>1. pc'[r] = "replay" /\ wire' = wire
    BY <1>4, Zenon DEF Hit, Goto, Shape
  <2>2. 0 <= ans'[r].parts
    BY <1>1, <1>3
  <2>3. Replaying(r)'
    BY <1>2, <1>4, <2>1, <2>2, Zenon DEF Fresh, Replaying, Streams
  <2> QED
    BY <2>1, <2>3, Enter, Zenon
<1>5. CASE r \notin Streams
  <2>1. pc'[r] = "done" /\ wire'[r].last = "json"
    BY <1>5 DEF Hit, Goto, Write, Shape
  <2>2. Told(r)' /\ Charge(r)' = 0
    BY <1>2, <2>1, Zenon DEF Told, Charge
  <2> QED
    BY <1>2, <2>1, <2>2, Enter, Zenon DEF Fresh
<1> QED
  BY <1>4, <1>5, Zenon

\* A frame of a replay, or its [DONE].
LEMMA ReplayPhase ==
  ASSUME Shape, NEW r \in Requests, Typed(r), Phase(r), ReplayFrame(r)
  PROVE  Phase(r)'
<1>1. Replaying(r)
  BY ReplayCases, At, Zenon DEF Goto
<1>2. UNCHANGED <<kind, ans, status, hb, billed>>
  BY Zenon DEF ReplayFrame, shared, link
<1>3. got[r] \in Nat /\ ans[r].parts \in Nat /\ got[r] <= ans[r].parts
  BY <1>1, Zenon DEF Typed, Replaying
<1>4. CASE /\ got[r] < ans[r].parts /\ Goto(r, "replay", "replay")
           /\ got' = [got EXCEPT ![r] = @ + 1] /\ Write(r, got[r] + 1, "chunk")
  <2>1. pc'[r] = "replay" /\ got'[r] = got[r] + 1 /\ wire'[r].last = "chunk"
    BY <1>4, Zenon DEF Shape, Goto, Write
  <2>2. got'[r] <= ans[r].parts
    BY <1>3, <1>4, <2>1
  <2>3. Replaying(r)'
    BY <1>1, <1>2, <2>1, <2>2, Zenon DEF Replaying, Streams
  <2> QED
    BY <2>1, <2>3, Enter, Zenon
<1>5. CASE /\ got[r] >= ans[r].parts
           /\ Goto(r, "replay", "done") /\ Write(r, got[r], "done")
  <2>1. pc'[r] = "done" /\ wire'[r].last = "done" /\ wire'[r].n = got[r]
    BY <1>5, Zenon DEF Shape, Goto, Write
  <2>2. wire'[r].n = ans'[r].parts
    BY <1>2, <1>3, <1>5, <2>1
  <2>3. Told(r)' /\ Charge(r)' = 0
    BY <1>1, <1>2, <2>1, <2>2, Zenon DEF Replaying, Told, Charge
  <2> QED
    BY <1>1, <1>2, <2>1, <2>3, Enter, Zenon DEF Replaying
<1> QED
  BY <1>4, <1>5, ReplayCases, Zenon

\* A write that fails during a replay ends the request.
LEMMA ReplayFailsPhase ==
  ASSUME Shape, NEW r \in Requests, Phase(r), ReplayFails(r)
  PROVE  Phase(r)'
<1>1. Replaying(r) /\ UNCHANGED <<kind, status, wire, hb, billed>>
  BY At, Zenon DEF ReplayFails, Goto, shared
<1>2. pc'[r] = "done" /\ broken'[r] = TRUE
  BY Zenon DEF ReplayFails, Goto, Shape
<1>3. Told(r)' /\ Charge(r)' = 0
  BY <1>1, <1>2, Zenon DEF Replaying, Told, Charge
<1> QED
  BY <1>1, <1>2, <1>3, Enter, Zenon DEF Replaying

\* A frame is written: of the answer, of an error, or [DONE].
LEMMA WritePhase ==
  ASSUME Shape, NEW r \in Requests, Phase(r), WriteData(r)
  PROVE  Phase(r)'
<1>1. /\ UNCHANGED <<kind, sent, ans, got, fin, status, gone, broken, billed>>
      /\ broken[r] = FALSE
  BY DEF WriteData, Shape, shared, answer, link
<1>2. wire'[r] = [n |-> got[r], last |-> Kind(r)] /\ pc'[r] = AfterFrame(r)
  BY Zenon DEF WriteData, Goto, Write, Shape
<1>3. (r \in Streams)' = (r \in Streams) /\ (r \in Natives)' = (r \in Natives)
  BY <1>1, Zenon DEF Streams, Natives
<1>4. Observed(r) => Observed(r)'
  BY <1>1, Zenon DEF Observed
<1>5. CASE pc[r] = "frame"
  <2>1. pc'[r] = "range" /\ wire'[r].last = "chunk"
    BY <1>2, <1>5 DEF Kind, AfterFrame
  <2>2. Passing(r)'
    BY <1>1, <1>3, <1>4, <1>5, <2>1, At, Zenon DEF Passing
  <2> QED
    BY <2>1, <2>2, Enter, Zenon
<1>6. CASE pc[r] = "errframe"
  <2>1. pc'[r] = "end" /\ wire'[r].last = "error"
    BY <1>2, <1>6 DEF Kind, AfterFrame
  <2>2. Ending(r)'
    BY <1>1, <1>3, <1>4, <1>6, <2>1, At, Zenon DEF Failing, Ending
  <2> QED
    BY <2>1, <2>2, Enter, Zenon
<1>7. CASE pc[r] = "doneframe"
  <2>1. pc'[r] = "store" /\ wire'[r].last = "done" /\ wire'[r].n = got[r]
    BY <1>2, <1>7 DEF Kind, AfterFrame
  <2>2. Closing(r)
    BY <1>7, At, Zenon
  <2>3. Told(r)'
    BY <1>1, <2>1, <2>2, Zenon DEF Closing, Told
  <2> QED
    BY <1>1, <1>4, <2>1, <2>2, <2>3, Enter, Zenon DEF Closing, Over
<1> QED
  BY <1>5, <1>6, <1>7, Zenon DEF WriteData, Framing

\* A write of a chunk that fails.
LEMMA WriteFailsPhase ==
  ASSUME Shape, NEW r \in Requests, Phase(r), WriteDataFails(r)
  PROVE  Phase(r)'
<1>1. /\ UNCHANGED <<kind, sent, ans, got, fin, status, wire, gone, billed>>
      /\ broken'[r] = TRUE /\ pc'[r] = AfterFailure(r)
  BY Zenon DEF WriteDataFails, Goto, Shape, shared, answer
<1>2. (r \in Streams)' = (r \in Streams) /\ ~(r \in Streams /\ r \in Natives)
  BY <1>1, Zenon DEF Streams, Natives
<1>3. Observed(r) => Observed(r)'
  BY <1>1, Zenon DEF Observed
<1>4. CASE pc[r] = "frame" /\ r \in Natives
  <2>1. pc'[r] = "store" /\ Passing(r)
    BY <1>1, <1>4, At, Zenon DEF AfterFailure
  <2>2. Over(r)'
    BY <1>1, <1>2, <1>3, <1>4, <2>1, Zenon DEF Passing, Over, Told
  <2> QED
    BY <1>1, <2>1, <2>2, Enter, Zenon DEF Passing
<1>5. CASE pc[r] = "frame" /\ r \notin Natives
  <2>1. pc'[r] = "end" /\ Passing(r)
    BY <1>1, <1>5, At, Zenon DEF AfterFailure
  <2>2. Ending(r)'
    BY <1>1, <1>2, <1>3, <1>5, <2>1, Zenon DEF Passing, Ending
  <2> QED
    BY <2>1, <2>2, Enter, Zenon
<1>6. CASE pc[r] = "errframe"
  <2>1. Failing(r)
    BY <1>6, At, Zenon
  <2>2. pc'[r] = "end"
    BY <1>1, <1>2, <1>6, <2>1, Zenon DEF AfterFailure, Failing
  <2>3. Ending(r)'
    BY <1>1, <1>2, <1>3, <2>1, Zenon DEF Failing, Ending
  <2> QED
    BY <2>2, <2>3, Enter, Zenon
<1>7. CASE pc[r] = "doneframe"
  <2>1. pc'[r] = "store" /\ Closing(r)
    BY <1>1, <1>7, At, Zenon DEF AfterFailure
  <2>2. Over(r)'
    BY <1>1, <1>3, <2>1, Zenon DEF Closing, Over, Told
  <2> QED
    BY <1>1, <2>1, <2>2, Enter, Zenon DEF Closing
<1> QED
  BY <1>4, <1>5, <1>6, <1>7, Zenon DEF WriteDataFails, Framing

\* The loop is over; with an error or without the client there is no [DONE].
LEMMA EndPhase ==
  ASSUME Shape, NEW r \in Requests, Phase(r), End(r)
  PROVE  Phase(r)'
<1> DEFINE to == IF ~gone[r] /\ status[r] = "ok" THEN "doneframe" ELSE "store"
<1>1. Pass(r, "end", to)
  BY Zenon DEF End
<1>2. Still(r) /\ pc[r] = "end" /\ pc'[r] = to
  BY <1>1, PassStill, Zenon
<1>3. Ending(r)
  BY <1>2, At, Zenon
<1>4. CASE ~gone[r] /\ status[r] = "ok"
  <2>1. Closing(r)
    BY <1>3, <1>4, Zenon DEF Ending, Closing
  <2> QED
    BY <1>2, <1>4, <2>1, StillPhases, Enter, Zenon
<1>5. CASE ~(~gone[r] /\ status[r] = "ok")
  <2>1. Over(r) /\ billed[r] = 0 /\ r \in Streams
    BY <1>3, <1>5, Zenon DEF Ending, Over, Told
  <2>2. Over(r)' /\ billed'[r] = 0 /\ r \in Streams'
    BY <1>2, <2>1, StillPhases, Zenon DEF Still, Streams
  <2> QED
    BY <1>2, <1>5, <2>2, Enter, Zenon
<1> QED
  BY <1>4, <1>5, Zenon

\* Billed, with the heartbeat to be stopped or without one.
LEMMA StorePhase ==
  ASSUME Shape, NEW r \in Requests, Phase(r), Store(r)
  PROVE  Phase(r)'
<1>1. Over(r) /\ billed[r] = 0 /\ (status[r] = "error" => r \in Streams)
  BY At, Zenon DEF Store, Goto
<1>2. UNCHANGED <<kind, sent, ans, got, fin, status, wire, hb, gone, broken>>
  BY Zenon DEF Store, answer, link
<1>3. billed'[r] = 1 /\ pc'[r] = IF hb[r] = "off" THEN "done" ELSE "stop"
  BY <1>1 DEF Store, Goto, Bill, Shape
<1>4. (r \in Streams)' = (r \in Streams) /\ (r \in Natives)' = (r \in Natives)
      /\ ~(r \in Streams /\ r \in Natives)
  BY <1>2, Zenon DEF Streams, Natives
<1>5. Over(r)' /\ Told(r)'
  BY <1>1, <1>2, <1>4, Zenon DEF Over, Told, Observed
<1>6. Charge(r)' = 1
  BY <1>1, <1>2, <1>4, Zenon DEF Over, Charge
<1> QED
  BY <1>1, <1>2, <1>3, <1>4, <1>5, <1>6, Enter, Zenon

\* The heartbeat is over before the handler returns.
LEMMA StopPhase ==
  ASSUME Shape, NEW r \in Requests, Phase(r), Stop(r)
  PROVE  Phase(r)'
<1>1. Still(r) /\ pc[r] = "stop" /\ pc'[r] = "done" /\ hb'[r] = "exit"
  BY PassStill, Zenon DEF Stop
<1>2. Over(r) /\ billed[r] = 1 /\ (status[r] = "error" => r \in Streams)
  BY <1>1, At, Zenon
<1>3. Charge(r) = 1
  BY <1>2, Zenon DEF Over, Charge, Streams, Natives
<1>4. Told(r)' /\ Charge(r)' = 1 /\ billed'[r] = 1
  BY <1>1, <1>2, <1>3, StillPhases, Zenon DEF Still, Over
<1> QED
  BY <1>1, <1>4, Enter, Zenon

\* A router error ends the request with an error answer.
LEMMA RouteFailsPhase ==
  ASSUME Shape, NEW r \in Requests, Phase(r), RouteFails(r)
  PROVE  Phase(r)'
<1>1. Fresh(r) /\ UNCHANGED <<kind, hb>>
  BY At, Zenon DEF RouteFails, Goto, shared, link
<1>2. pc'[r] = "done" /\ status'[r] = "error" /\ wire'[r].last = "json"
  BY Zenon DEF RouteFails, Goto, Write, Shape
<1>3. billed'[r] = IF r \in Natives THEN 0 ELSE 1
  BY <1>1 DEF RouteFails, Bill, Shape, Fresh
<1>4. Told(r)' /\ Charge(r)' = IF r \in Natives THEN 0 ELSE 1
  BY <1>1, <1>2, Zenon DEF Told, Charge, Natives
<1> QED
  BY <1>1, <1>2, <1>3, <1>4, Enter, Zenon DEF Fresh

\* A whole answer is written and observed at once.
LEMMA AnsweredPhase ==
  ASSUME Shape, MaxParts \in Nat, NEW r \in Requests \ Streams, Phase(r), Answered(r)
  PROVE  Phase(r)'
<1>1. pc'[r] = "store" /\ status'[r] = "ok"
  BY Zenon DEF Answered, Goto, Shape
<1>2. Fresh(r) /\ UNCHANGED <<kind, sent, billed>>
  BY At, Zenon DEF Answered, Goto, shared
<1>3. PICK a \in AnswersTo(r) :
        /\ ans' = [ans EXCEPT ![r] = a] /\ got' = [got EXCEPT ![r] = a.parts]
        /\ fin' = [fin EXCEPT ![r] = a.stop] /\ Write(r, a.parts, "json")
  BY Zenon DEF Answered
<1>4. a.of = sent[r] /\ a.parts \in Nat /\ a.stop \in BOOLEAN
  BY DEF AnswersTo
<1>5. ans'[r] = a /\ got'[r] = a.parts /\ fin'[r] = a.stop /\ wire'[r].last = "json"
  BY <1>3, Zenon DEF Shape, Write
<1>6. a.parts <= a.parts
  BY <1>4
<1>7. Observed(r)'
  BY <1>2, <1>4, <1>5, <1>6, Zenon DEF Observed
<1>8. r \notin Streams'
  BY <1>2, Zenon DEF Streams
<1>9. Told(r)'
  BY <1>5, <1>8, Zenon DEF Told
<1> QED
  BY <1>1, <1>2, <1>7, <1>9, Enter, Zenon DEF Over, Fresh

\* The answer to what was sent begins.
LEMMA OpensPhase ==
  ASSUME Shape, MaxParts \in Nat, NEW r \in Requests, Phase(r), StreamOpens(r)
  PROVE  Phase(r)'
<1>1. Fresh(r) /\ UNCHANGED <<kind, sent, got, fin, wire, billed>>
  BY At, Zenon DEF StreamOpens, Goto, shared
<1>2. PICK a \in AnswersTo(r) : ans' = [ans EXCEPT ![r] = a]
  BY Zenon DEF StreamOpens
<1>3. a.of = sent[r] /\ a.parts \in Nat /\ 0 <= a.parts
  BY DEF AnswersTo
<1>4. ans'[r] = a
  BY <1>2, Zenon DEF Shape
<1>5. pc'[r] = "range" /\ status'[r] = "ok" /\ r \in Streams \cup Natives
  BY Zenon DEF StreamOpens, Goto, Shape
<1>6. Observed(r)'
  BY <1>1, <1>3, <1>4, Zenon DEF Fresh, Observed
<1>7. Passing(r)'
  BY <1>1, <1>5, <1>6, Zenon DEF Fresh, Passing, Streams, Natives
<1> QED
  BY <1>5, <1>7, Enter, Zenon

\* The next part or the finish reason of the stream.
LEMMA EventPhase ==
  ASSUME Shape, NEW r \in Requests, Typed(r), Phase(r), NextEvent(r)
  PROVE  Phase(r)'
<1>1. pc'[r] = "frame" /\ Passing(r)
  BY At, Zenon DEF NextEvent, Goto, Shape
<1>2. UNCHANGED <<kind, sent, ans, status, wire, billed>>
  BY Zenon DEF NextEvent, shared
<1>3. got[r] \in Nat /\ ans[r].parts \in Nat
  BY Zenon DEF Typed
<1>4. Observed(r)
  BY <1>1, Zenon DEF Passing
<1>5. ASSUME got[r] < ans[r].parts, got' = [got EXCEPT ![r] = @ + 1], fin' = fin
      PROVE  Observed(r)'
  <2>1. got'[r] = got[r] + 1
    BY <1>5, Zenon DEF Shape
  <2>2. got'[r] <= ans[r].parts /\ got[r] # ans[r].parts
    BY <1>3, <1>5, <2>1
  <2> QED
    BY <1>2, <1>4, <1>5, <2>2, Zenon DEF Observed
<1>6. ASSUME got[r] = ans[r].parts, ans[r].stop, got' = got
      PROVE  Observed(r)'
  BY <1>2, <1>4, <1>6, Zenon DEF Observed
<1>7. Observed(r)'
  BY <1>5, <1>6, Zenon DEF NextEvent
<1>8. Passing(r)'
  BY <1>1, <1>2, <1>7, Zenon DEF Passing, Streams, Natives
<1> QED
  BY <1>1, <1>8, Enter, Zenon

\* An error event from upstream leads to the error frame.
LEMMA ErrorPhase ==
  ASSUME Shape, NEW r \in Requests, Phase(r), StreamError(r)
  PROVE  Phase(r)'
<1>1. Passing(r) /\ UNCHANGED <<kind, sent, ans, got, fin, wire, billed>>
  BY At, Zenon DEF StreamError, Goto, shared, answer
<1>2. pc'[r] = "errframe" /\ status'[r] = "error" /\ r \in Streams
  BY Zenon DEF StreamError, Goto, Shape
<1>3. Failing(r)'
  BY <1>1, <1>2, Zenon DEF Passing, Failing, Observed, Streams
<1> QED
  BY <1>2, <1>3, Enter, Zenon

\* A stream that closes without an error is complete, or has lost its client.
LEMMA ClosesPhase ==
  ASSUME Shape, NEW r \in Requests, Phase(r), StreamCloses(r)
  PROVE  Phase(r)'
<1>1. Still(r) /\ pc[r] = "range" /\ pc'[r] = "end"
  BY PassStill, Zenon DEF StreamCloses
<1>2. Passing(r)
  BY <1>1, At, Zenon
<1>3. Ending(r)
  BY <1>2, Zenon DEF StreamCloses, Passing, Ending
<1> QED
  BY <1>1, <1>3, StillPhases, Enter, Zenon

\* The end of the upstream events leads to the cache.
LEMMA PipePhase ==
  ASSUME Shape, NEW r \in Requests, Phase(r), PipeEnds(r)
  PROVE  Phase(r)'
<1>1. Still(r) /\ pc[r] = "range" /\ pc'[r] = "store"
  BY PassStill, Zenon DEF PipeEnds
<1>2. Passing(r)
  BY <1>1, At, Zenon
<1>3. Over(r) /\ billed[r] = 0 /\ status[r] = "ok"
  BY <1>2, Zenon DEF PipeEnds, Passing, Over, Told, Streams, Natives
<1>4. Over(r)' /\ billed'[r] = 0 /\ status'[r] = "ok"
  BY <1>1, <1>3, StillPhases, Zenon DEF Still
<1> QED
  BY <1>1, <1>4, Enter, Zenon

\* Every step of a request keeps the phases.
LEMMA PhaseStep ==
  ASSUME Shape, Sound, MaxParts \in Nat, NEW r \in Requests, Typed(r), Phase(r),
         Handle(r) \/ Upstream(r) \/ Heartbeat(r) \/ ClientGone(r)
  PROVE  Phase(r)'
<1>1. CASE Admit(r)
  <2>1. Fresh(r) /\ UNCHANGED <<got, fin, status, wire, hb, billed>>
    BY <1>1, At, Zenon DEF Admit, Goto, link
  <2>2. pc'[r] = "lookup"
    BY <1>1, Zenon DEF Admit, Goto, Shape
  <2>3. Fresh(r)'
    BY <2>1, Zenon DEF Fresh
  <2> QED
    BY <2>2, <2>3, Enter, Zenon
<1>2. CASE Peek(r) \/ Miss(r)
  <2>1. Still(r) /\ pc[r] \in {"admit", "lookup"} /\ pc'[r] = "route"
    BY <1>2, PassStill, Zenon DEF Peek, Miss
  <2> QED
    BY <2>1, At, StillPhases, Enter, Zenon
<1>3. CASE Refuse(r) \/ Limit(r)
  BY <1>3, RejectPhase, Zenon DEF Refuse, Limit
<1>4. CASE Respond(r) \/ Forward(r)
  <2>1. r \in Requests \ Streams /\ Answered(r)
    BY <1>4, Zenon DEF Respond, Forward, Streams, Natives
  <2> QED
    BY <2>1, AnsweredPhase, Zenon
<1>5. CASE Ping(r) \/ Pinged(r) \/ HeartbeatEnds(r)
  <2>1. Still(r) /\ pc' = pc
    BY <1>5 DEF Ping, Pinged, HeartbeatEnds, Beat, Still, Shape, shared, answer
  <2> QED
    BY <2>1, StillPhase, Zenon
<1>6. CASE ClientGone(r)
  <2>1. Still(r) /\ pc' = pc
    BY <1>6, Zenon DEF ClientGone, Still, Shape, shared, answer
  <2> QED
    BY <2>1, StillPhase, Zenon
<1>7. CASE Handle(r)
  BY <1>1, <1>2, <1>3, <1>7, HitPhase, ReplayPhase, ReplayFailsPhase, WritePhase,
     WriteFailsPhase, EndPhase, StorePhase, StopPhase, Zenon DEF Handle
<1>8. CASE Upstream(r)
  BY <1>4, <1>8, RouteFailsPhase, OpensPhase, EventPhase, ErrorPhase, ClosesPhase,
     PipePhase, Zenon DEF Upstream
<1> QED
  BY <1>5, <1>6, <1>7, <1>8, Zenon DEF Heartbeat

\* Every step keeps the cache sound: only a complete answer is stored.
LEMMA SoundStep ==
  ASSUME Sound, NEW r \in Requests, Typed(r), Phase(r),
         Handle(r) \/ Upstream(r) \/ Heartbeat(r) \/ ClientGone(r)
  PROVE  Sound'
<1>1. CASE Store(r)
  <2>1. CASE ShouldCache(r) /\ Cache(r) /\ cache' # cache
    <3> DEFINE e == [of |-> ans[r].of, parts |-> ans[r].parts, got |-> got[r], stop |-> fin[r]]
    <3>1. DOMAIN cache' = DOMAIN cache \cup {Key(r)}
      BY <2>1, Zenon DEF Cache
    <3>2. cache'[Key(r)] = e /\ \A k \in DOMAIN cache \ {Key(r)} : cache'[k] = cache[k]
      BY <2>1, Zenon DEF Cache
    <3>3. Observed(r)
      BY <1>1, Zenon DEF Store, Goto, Phase, Over
    <3>4. fin[r] = TRUE /\ got[r] > 0 /\ got[r] \in Nat
      BY <2>1, Zenon DEF ShouldCache, Typed
    <3>5. ans[r].of = sent[r] /\ got[r] = ans[r].parts
      BY <3>3, <3>4, Zenon DEF Observed
    <3>6. Key(r).model = sent[r].model /\ Key(r).text = sent[r].text
      BY Zenon DEF Key
    <3> QED
      BY <3>1, <3>2, <3>4, <3>5, <3>6 DEF Sound
  <2> QED
    BY <1>1, <2>1, Zenon DEF Store, Sound
<1>2. CASE cache' = cache
  BY <1>2, Zenon DEF Sound
<1>3. Handle(r) => Store(r) \/ cache' = cache
  BY Zenon DEF Handle, Admit, Peek, Refuse, Limit, Hit, Miss, ReplayFrame, ReplayFails,
         WriteData, WriteDataFails, End, Stop, Pass, Reject, shared
<1>4. Upstream(r) => cache' = cache
  BY Zenon DEF Upstream, RouteFails, Respond, Forward, Answered, StreamOpens, NextEvent,
         StreamError, StreamCloses, PipeEnds, Pass, shared
<1>5. Heartbeat(r) \/ ClientGone(r) => cache' = cache
  BY Zenon DEF Heartbeat, Ping, Pinged, HeartbeatEnds, ClientGone, shared
<1> QED
  BY <1>1, <1>2, <1>3, <1>4, <1>5, Zenon

\* The invariant holds when the server starts.
LEMMA InitIInv == Init => IInv
<1> SUFFICES ASSUME Init PROVE IInv
  BY Zenon
<1>1. Shape
  BY ChatConstants, Zenon DEF Init, Shape
<1>2. \A r \in Requests : Typed(r)
  BY DEF Init, Typed
<1>3. \A r \in Requests : Phase(r)
  BY Zenon DEF Init, Phase, PCs, Fresh
<1>4. Sound
  BY DEF Init, Sound
<1> QED
  BY <1>1, <1>2, <1>3, <1>4, Zenon DEF IInv

\* Every step keeps the invariant.
LEMMA NextIInv == IInv /\ [Next]_vars => IInv'
<1> SUFFICES ASSUME IInv, [Next]_vars PROVE IInv'
  BY Zenon
<1> USE DEF IInv
<1>0. ASSUME NEW q \in Requests, Still(q), pc'[q] = pc[q]
      PROVE  Typed(q)' /\ Phase(q)'
  <2>1. Typed(q)'
    BY <1>0, Zenon DEF Still, Typed
  <2> QED
    BY <1>0, <2>1, StillPhase, Zenon
<1>1. ASSUME NEW r \in Requests,
             Handle(r) \/ Upstream(r) \/ Heartbeat(r) \/ ClientGone(r)
      PROVE  IInv'
  <2>1. Typed(r)' /\ Phase(r)' /\ Sound'
    BY <1>1, TypedStep, PhaseStep, SoundStep, ChatConstants, Zenon
  <2>2. Shape' /\ \A q \in Requests \ {r} : Typed(q)' /\ Phase(q)'
    BY <1>0, <1>1, OthersStill, Zenon
  <2> QED
    BY <2>1, <2>2, Zenon
<1>2. ASSUME UNCHANGED <<kind, pc, answer, status, wire, link, billed>>, Sound'
      PROVE  IInv'
  <2>1. Shape'
    BY <1>2, Zenon DEF Shape, answer, link
  <2>2. \A q \in Requests : Still(q) /\ pc'[q] = pc[q]
    BY <1>2, Zenon DEF Still, answer, link
  <2> QED
    BY <1>0, <1>2, <2>1, <2>2, Zenon
<1>3. ASSUME NEW r \in Requests, Expire(r)
      PROVE  IInv'
  <2>1. Sound'
    BY <1>3, Zenon DEF Expire, Sound
  <2> QED
    BY <1>2, <1>3, <2>1, Zenon DEF Expire
<1>4. ASSUME NEW t \in Tables, Reload(t)
      PROVE  IInv'
  BY <1>2, <1>4, Zenon DEF Reload, Sound
<1>5. CASE UNCHANGED vars
  BY <1>2, <1>5, Zenon DEF vars, shared, Sound
<1> QED
  BY <1>1, <1>3, <1>4, <1>5, Zenon DEF Next, Finished

\* The inductive invariant holds throughout.
LEMMA Inductive == Spec => []IInv
<1> QED
  BY InitIInv, NextIInv, PTL DEF Spec

\* shouldCacheResponse: whatever ends a stream, what is cached is a whole answer to
\* a question with the model and the text of its key.
THEOREM CacheSoundHolds == Spec => []CacheSound
<1>1. IInv => CacheSound
  BY Zenon DEF IInv, Sound, CacheSound
<1> QED
  BY <1>1, Inductive, PTL

\* A client that reads [DONE] has got every part of the answer, fresh or replayed.
THEOREM DoneMeansCompleteHolds == Spec => []DoneMeansComplete
<1>1. IInv => DoneMeansComplete
  <2> SUFFICES ASSUME IInv, NEW r \in Streams, wire[r].last = "done"
               PROVE  wire[r].n = ans[r].parts /\ status[r] \in {"ok", "hit"}
    BY Zenon DEF DoneMeansComplete
  <2>1. r \in Requests /\ Phase(r)
    BY Zenon DEF IInv, Streams
  <2>2. Told(r)
    BY <2>1, Zenon DEF Phase, PCs, Fresh, Replaying, Passing, Failing, Ending, Closing, Over
  <2> QED
    BY <2>2, Zenon DEF Told
<1> QED
  BY <1>1, Inductive, PTL

\* emitStreamError: a stream that can be written to ends with [DONE] or an error
\* event.
THEOREM StreamTerminatedHolds == Spec => []StreamTerminated
<1>1. IInv => StreamTerminated
  BY Zenon DEF IInv, StreamTerminated, Phase, Told, Streams
<1> QED
  BY <1>1, Inductive, PTL

\* One billing event for what was sent upstream, none for a hit or a rejection.
THEOREM BilledOnceHolds == Spec => []BilledOnce
<1>1. IInv => BilledOnce
  BY Zenon DEF IInv, BilledOnce, Phase, Told, Charge
<1> QED
  BY <1>1, Inductive, PTL

\* No heartbeat writes after its handler has returned.
THEOREM QuietAfterReturnHolds == Spec => []QuietAfterReturn
<1>1. IInv => QuietAfterReturn
  BY Zenon DEF IInv, QuietAfterReturn, Phase
<1> QED
  BY <1>1, Inductive, PTL

=============================================================================
