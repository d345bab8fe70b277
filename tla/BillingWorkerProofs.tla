------------------------- MODULE BillingWorkerProofs -------------------------
(***************************************************************************)
(* The safety properties of BillingWorker for any requests, months,        *)
(* workers and buffer size.                                                *)
(*                                                                         *)
(* The inductive invariant says who has an event: it is in the queue at    *)
(* one place, or in the hands of one worker, or settled (Ownership,        *)
(* Settling); that it has no row until its worker's insert (Unwritten);    *)
(* and what the closed channel says of the shutdown (Closing).             *)
(***************************************************************************)
EXTENDS BillingWorker, TLAPS

\* The part of TypeOK the argument needs.
Types ==
  /\ handler \in [Requests -> {"idle", "run", "accepted", "dropped", "panicked"}]
  /\ ch \in Seq(Requests)
  /\ wpc \in [Workers -> {"recv", "check", "lookup", "create", "mark", "insert",
                          "count", "exit"}]
  /\ ev \in [Workers -> Requests \cup {NoEvent}]
  /\ rows \in [Requests -> Nat]

\* A worker at one of these has an event and has not inserted it.
Hands == {"check", "lookup", "create", "mark", "insert"}

\* No event is in two places, and only accepted ones are about.
Ownership ==
  /\ \A w \in Workers : wpc[w] \in Hands \cup {"count"} => ev[w] \in Requests
  /\ \A w \in Workers : wpc[w] = "recv" => ev[w] = NoEvent
  /\ \A w, v \in Workers : ev[w] # NoEvent /\ ev[w] = ev[v] => w = v
  /\ \A i, j \in 1 .. Len(ch) : ch[i] = ch[j] => i = j
  /\ \A w \in Workers, i \in 1 .. Len(ch) : ev[w] # ch[i]
  /\ \A i \in 1 .. Len(ch) : handler[ch[i]] = "accepted"
  /\ \A w \in Workers : ev[w] # NoEvent => handler[ev[w]] = "accepted"

\* An event has no row before its insert.
Unwritten ==
  /\ \A r \in Requests : handler[r] # "accepted" => rows[r] = 0
  /\ \A i \in 1 .. Len(ch) : rows[ch[i]] = 0
  /\ \A w \in Workers : wpc[w] \in Hands => rows[ev[w]] = 0
  /\ \A r \in Requests : rows[r] <= 1

\* An accepted event is settled, queued or in a worker's hands; a worker that has
\* ended left nothing behind unless the context was over.
Waiting(r) == \E i \in 1 .. Len(ch) : ch[i] = r
Held(r) == \E w \in Workers : ev[w] = r /\ wpc[w] \in Hands \cup {"exit"}
Accounted(r) == rows[r] > 0 \/ r \in failed \/ Waiting(r) \/ Held(r)

Settling ==
  /\ \A r \in Requests : handler[r] = "accepted" => Accounted(r)
  /\ \A w \in Workers :
       wpc[w] = "exit" => ctxDone \/ (closed /\ ch = <<>> /\ ev[w] = NoEvent)
  /\ main = "clean" => \A w \in Workers : wpc[w] = "exit"

\* The channel is closed after the listener, and a graceful shutdown leaves no
\* handler running.
Closing ==
  /\ closed => main \in {"flush", "clean", "timeout"}
  /\ graceful => closed /\ \A r \in Requests : handler[r] \notin {"run", "panicked"}
  /\ \A r \in Requests : handler[r] = "panicked" => closed

IInv ==
  Types /\ Ownership /\ Unwritten /\ PartitionCacheSound /\ Settling /\ Closing

-----------------------------------------------------------------------------
\* What Append and Tail do to the queue.
LEMMA AppendQueue ==
  ASSUME NEW q \in Seq(Requests), NEW r \in Requests
  PROVE  /\ Append(q, r) \in Seq(Requests)
         /\ Len(Append(q, r)) = Len(q) + 1
         /\ \A i \in 1 .. Len(q) : Append(q, r)[i] = q[i]
         /\ Append(q, r)[Len(q) + 1] = r
  OBVIOUS

\* Taking the first entry of a queue leaves a queue.
LEMMA TailQueue ==
  ASSUME NEW q \in Seq(Requests), q # <<>>
  PROVE  /\ Tail(q) \in Seq(Requests)
         /\ Len(q) >= 1 /\ Len(Tail(q)) = Len(q) - 1
         /\ \A i \in 1 .. Len(q) - 1 : Tail(q)[i] = q[i + 1]
         /\ Head(q) = q[1] /\ q[1] \in Requests
  OBVIOUS

\* Every event of a queue is still in it when another one is appended, or when
\* the first is taken and it was not the first.
LEMMA AppendWaits ==
  ASSUME NEW q \in Seq(Requests), NEW r \in Requests, NEW p, p = Append(q, r)
  PROVE  /\ \E i \in 1 .. Len(p) : p[i] = r
         /\ \A j \in 1 .. Len(q) : \E i \in 1 .. Len(p) : p[i] = q[j]
<1>1. /\ Len(q) + 1 \in 1 .. Len(p) /\ p[Len(q) + 1] = r
      /\ \A j \in 1 .. Len(q) : j \in 1 .. Len(p) /\ p[j] = q[j]
  BY AppendQueue
<1> QED
  BY Zenon, <1>1

\* Taking the first entry moves the others up by one.
LEMMA TailShift ==
  ASSUME NEW q \in Seq(Requests), q # <<>>, NEW i \in 1 .. Len(q), i # 1
  PROVE  \E j \in 1 .. Len(Tail(q)) : Tail(q)[j] = q[i]
<1>1. i - 1 \in 1 .. Len(Tail(q))
  BY TailQueue
<1>2. Tail(q)[i - 1] = q[i]
  BY TailQueue
<1> QED
  BY Zenon, <1>1, <1>2

\* A worker that keeps its event, at another place of its loop, changes nothing
\* in who has which event ...
LEMMA MoveOwnership ==
  ASSUME Types, Ownership, NEW w \in Workers, NEW x \in Hands \cup {"count", "exit"},
         wpc[w] \in Hands, wpc' = [wpc EXCEPT ![w] = x], handler' = handler, ch' = ch, ev' = ev
  PROVE  Ownership'
<1>1. ev[w] \in Requests
  BY Zenon DEF Ownership
<1>2. wpc'[w] # "recv" /\ \A v \in Workers \ {w} : wpc'[v] = wpc[v]
  BY Zenon DEF Types, Hands
<1>3. /\ \A v \in Workers : wpc'[v] \in Hands \cup {"count"} => ev[v] \in Requests
      /\ \A v \in Workers : wpc'[v] = "recv" => ev[v] = NoEvent
  BY <1>1, <1>2, Zenon DEF Ownership
<1> QED
  BY Zenon, <1>3 DEF Ownership

\* ... a step that moves no event leaves the accepted ones where they are ...
LEMMA FrameOwnership ==
  ASSUME Types, Ownership, UNCHANGED <<ch, wpc, ev>>,
         \A r \in Requests : handler[r] = "accepted" => handler'[r] = "accepted"
  PROVE  Ownership'
<1>1. \A i \in 1 .. Len(ch) : ch[i] \in Requests
  BY DEF Types
<1>2. \A w \in Workers : ev[w] # NoEvent => ev[w] \in Requests
  BY Zenon DEF Types
<1> QED
  BY <1>1, <1>2, Zenon DEF Ownership

\* ... a worker takes the first event of the queue ...
LEMMA TakeOwnership ==
  ASSUME Types, Ownership, NEW w \in Workers, Take(w)
  PROVE  Ownership'
<1>1. /\ wpc[w] = "recv" /\ wpc'[w] = "check" /\ ev'[w] = ch[1] /\ handler' = handler
      /\ \A v \in Workers \ {w} : wpc'[v] = wpc[v] /\ ev'[v] = ev[v]
  BY TailQueue DEF Take, Step, Types
<1>2. /\ 1 \in 1 .. Len(ch) /\ ch[1] \in Requests
      /\ \A i \in 1 .. Len(ch') :
           i + 1 \in 1 .. Len(ch) /\ i + 1 # 1 /\ ch'[i] = ch[i + 1]
  BY TailQueue DEF Take, Types
<1>3. /\ \A i \in 1 .. Len(ch') : ch'[i] # ch[1] /\ handler[ch'[i]] = "accepted"
      /\ \A v \in Workers, i \in 1 .. Len(ch') : ev[v] # ch'[i]
  BY <1>2 DEF Ownership
<1>4. \A i, j \in 1 .. Len(ch') : ch'[i] = ch'[j] => i = j
  <2> SUFFICES ASSUME NEW i \in 1 .. Len(ch'), NEW j \in 1 .. Len(ch'), ch'[i] = ch'[j]
               PROVE  i = j
    BY Zenon
  <2>1. i + 1 = j + 1
    BY <1>2 DEF Ownership
  <2> QED
    BY <2>1
<1>5. handler[ch[1]] = "accepted" /\ \A v \in Workers : ev[v] # ch[1]
  BY <1>2, Zenon DEF Ownership
<1>6. ASSUME NEW v \in Workers
      PROVE  /\ wpc'[v] \in Hands \cup {"count"} => ev'[v] \in Requests
             /\ wpc'[v] = "recv" => ev'[v] = NoEvent
  <2>1. CASE v = w
    BY <1>1, <1>2, <2>1, Zenon
  <2>2. CASE v # w
    <3>1. wpc'[v] = wpc[v] /\ ev'[v] = ev[v]
      BY <1>1, <2>2, Zenon
    <3>2. /\ wpc[v] \in Hands \cup {"count"} => ev[v] \in Requests
          /\ wpc[v] = "recv" => ev[v] = NoEvent
      BY Zenon DEF Ownership
    <3> QED
      BY <3>1, <3>2, Zenon
  <2> QED
    BY <2>1, <2>2, Zenon
<1>7. \A v, u \in Workers : ev'[v] # NoEvent /\ ev'[v] = ev'[u] => v = u
  BY <1>1, <1>5 DEF Ownership
<1>8. \A v \in Workers, i \in 1 .. Len(ch') : ev'[v] # ch'[i]
  BY <1>1, <1>3
<1>9. \A v \in Workers : ev'[v] # NoEvent => handler[ev'[v]] = "accepted"
  BY <1>1, <1>5 DEF Ownership
<1> QED
  BY <1>1, <1>3, <1>4, <1>6, <1>7, <1>8, <1>9, Zenon DEF Ownership

\* ... one that is finished with its event gives it up to nobody ...
LEMMA ReleaseOwnership ==
  ASSUME Types, Ownership, NEW w \in Workers, wpc' = [wpc EXCEPT ![w] = "recv"],
         ev' = [ev EXCEPT ![w] = NoEvent], handler' = handler, ch' = ch
  PROVE  Ownership'
<1>1. /\ wpc'[w] = "recv" /\ ev'[w] = NoEvent
      /\ \A v \in Workers \ {w} : wpc'[v] = wpc[v] /\ ev'[v] = ev[v]
  BY Zenon DEF Types
<1>2. \A v \in Workers : ev'[v] # NoEvent => ev'[v] = ev[v]
  BY Zenon, <1>1
<1>3. \A i \in 1 .. Len(ch) : ch[i] # NoEvent
  BY WorkerConfig DEF Types
<1>4. "recv" \notin Hands \cup {"count"}
  BY Zenon DEF Hands
<1> QED
  BY <1>1, <1>2, <1>3, <1>4, WorkerConfig DEF Ownership

\* ... nor, unless it leaves under a live context, in what becomes of them.
LEMMA MoveSettling ==
  ASSUME Types, Settling, NEW w \in Workers, NEW x \in Hands \cup {"exit"},
         wpc[w] \in Hands, x = "exit" => ctxDone, wpc' = [wpc EXCEPT ![w] = x],
         handler' = handler, ch' = ch, ev' = ev, rows' = rows, failed' = failed,
         main' = main, ctxDone' = ctxDone, closed' = closed
  PROVE  Settling'
<1>1. wpc'[w] = x /\ \A v \in Workers \ {w} : wpc'[v] = wpc[v]
  BY Zenon DEF Types
<1>2. \A v \in Workers : wpc[v] \in Hands \cup {"exit"} => wpc'[v] \in Hands \cup {"exit"}
  BY <1>1, Zenon
<1>3. \A r \in Requests : Accounted(r) => Accounted(r)'
  BY Zenon, <1>2 DEF Accounted, Waiting, Held
<1>4. main # "clean"
  BY Zenon DEF Settling, Hands
<1>5. \A v \in Workers :
        wpc'[v] = "exit" => ctxDone \/ (closed /\ ch = <<>> /\ ev[v] = NoEvent)
  BY <1>1, Zenon DEF Settling
<1> QED
  BY Zenon, <1>3, <1>4, <1>5 DEF Settling

\* The worker starts with an empty queue.
LEMMA InitIInv == Init => IInv
<1> SUFFICES ASSUME Init PROVE IInv
  BY Zenon
<1> USE WorkerConfig DEF Init
<1>1. Types
  BY DEF Types
<1>2. Ownership
  BY DEF Ownership, Hands
<1>3. Unwritten
  BY DEF Unwritten, Hands
<1>4. PartitionCacheSound
  BY Zenon DEF PartitionCacheSound
<1>5. Settling
  BY Zenon DEF Settling
<1>6. Closing
  BY Zenon DEF Closing
<1> QED
  BY <1>1, <1>2, <1>3, <1>4, <1>5, <1>6, Zenon DEF IInv

\* Types are kept.
LEMMA TypeStep ==
  ASSUME Types, Ownership, [Next]_vars
  PROVE  Types'
<1> USE DEF Types
<1>1. ASSUME NEW r \in Requests, Arrive(r) PROVE Types'
  BY <1>1, Zenon DEF Arrive, stopVars, queueVars, workVars, dbVars
<1>2. ASSUME NEW r \in Requests, Enqueue(r) PROVE Types'
  <2>1. CASE ch' = Append(ch, r)
    BY <1>2, <2>1, AppendQueue, Zenon DEF Enqueue, stopVars, workVars, dbVars
  <2>2. CASE ch' = ch
    BY <1>2, <2>2, Zenon DEF Enqueue, stopVars, workVars, dbVars
  <2> QED
    BY <1>2, <2>1, <2>2, Zenon DEF Enqueue
<1>3. ASSUME NEW w \in Workers, Take(w) PROVE Types'
  BY <1>3, TailQueue, Zenon DEF Take, Step, stopVars, queueVars, workVars, dbVars
<1>4. ASSUME NEW w \in Workers, RangeEnds(w) PROVE Types'
  BY <1>4, Zenon DEF RangeEnds, Step, stopVars, queueVars, workVars, dbVars
<1>5. ASSUME NEW w \in Workers, CheckCtx(w) PROVE Types'
  BY <1>5, Zenon DEF CheckCtx, Step, stopVars, queueVars, workVars, dbVars
<1>6. ASSUME NEW w \in Workers, Lookup(w) PROVE Types'
  BY <1>6, Zenon DEF Lookup, Step, stopVars, queueVars, workVars, dbVars
<1>7. ASSUME NEW w \in Workers, CreatePartition(w) PROVE Types'
  BY <1>7, Zenon DEF CreatePartition, Step, stopVars, queueVars, workVars, dbVars
<1>8. ASSUME NEW w \in Workers, MarkPartition(w) PROVE Types'
  BY <1>8, Zenon DEF MarkPartition, Step, stopVars, queueVars, workVars, dbVars
<1>9. ASSUME NEW w \in Workers, Insert(w) PROVE Types'
  <2>1. ev[w] \in Requests
    BY <1>9, Zenon DEF Insert, Step, Ownership, Hands
  <2> QED
    BY <1>9, <2>1 DEF Insert, Step, InsertTakesEffect, queueVars
<1>10. ASSUME NEW w \in Workers, InsertFails(w) PROVE Types'
  <2>1. ev[w] \in Requests
    BY <1>10, Zenon DEF InsertFails, Step, Loop, Ownership, Hands
  <2>2. rows' = [rows EXCEPT ![ev[w]] = @ + 1] \/ rows' = rows
    BY Zenon, <1>10 DEF InsertFails, InsertTakesEffect
  <2>3. rows' \in [Requests -> Nat]
    BY <2>1, <2>2
  <2> QED
    BY <1>10, <2>3, Zenon DEF InsertFails, Step, Loop, queueVars
<1>11. ASSUME NEW w \in Workers, CountWritten(w) PROVE Types'
  BY <1>11, Zenon DEF CountWritten, Step, Loop, stopVars, queueVars, workVars, dbVars
<1>12. CASE Signal
  BY <1>12, Zenon DEF Signal, stopVars, queueVars, workVars, dbVars
<1>13. CASE CloseListener
  BY <1>13, Zenon DEF CloseListener, stopVars, queueVars, workVars, dbVars
<1>14. CASE ShutdownReturns
  BY <1>14, Zenon DEF ShutdownReturns, CloseQueue, stopVars, queueVars, workVars, dbVars
<1>15. CASE ListenFails
  BY <1>15, Zenon DEF ListenFails, CloseQueue, stopVars, queueVars, workVars, dbVars
<1>16. CASE StopClean
  BY <1>16, Zenon DEF StopClean, stopVars, queueVars, workVars, dbVars
<1>17. CASE StopTimeout
  BY <1>17, Zenon DEF StopTimeout, stopVars, queueVars, workVars, dbVars
<1>18. CASE UNCHANGED vars
  BY <1>18, Zenon DEF vars, stopVars, queueVars, workVars, dbVars
<1> QED
  BY <1>1, <1>2, <1>3, <1>4, <1>5, <1>6, <1>7, <1>8, <1>9,
     <1>10, <1>11, <1>12, <1>13, <1>14, <1>15, <1>16, <1>17, <1>18, Zenon
     DEF Next, Work, Shutdown, Exited

\* No event is duplicated: Enqueue sends a request's only event, Take moves it.
LEMMA OwnershipStep ==
  ASSUME Types, Ownership, [Next]_vars
  PROVE  Ownership'
<1>0. ASSUME UNCHANGED <<ch, handler, wpc, ev>> PROVE Ownership'
  BY <1>0, FrameOwnership, Zenon
<1>1. ASSUME NEW r \in Requests, Arrive(r) PROVE Ownership'
  BY <1>1, FrameOwnership, Zenon DEF Arrive, Types, workVars
<1> USE WorkerConfig DEF Types, Ownership, Hands
<1>2. ASSUME NEW r \in Requests, Enqueue(r) PROVE Ownership'
  <2>1. CASE ch' = Append(ch, r)
    <3>1. /\ handler' = [handler EXCEPT ![r] = "accepted"] /\ handler[r] = "run"
          /\ UNCHANGED <<wpc, ev>>
      <4>1. ch' # ch
        BY <2>1, AppendQueue
      <4> QED
        BY Zenon, <1>2, <4>1 DEF Enqueue, workVars
    <3>2. /\ Len(ch') = Len(ch) + 1 /\ ch'[Len(ch) + 1] = r
          /\ \A i \in 1 .. Len(ch) : ch'[i] = ch[i] /\ ch[i] # r
          /\ \A i \in 1 .. Len(ch') : i \in 1 .. Len(ch) \/ i = Len(ch) + 1
      BY <2>1, <3>1, AppendQueue
    <3>3. \A w \in Workers : ev[w] # r
      BY <3>1
    <3>4. \A i, j \in 1 .. Len(ch') : ch'[i] = ch'[j] => i = j
      <4> SUFFICES ASSUME NEW i \in 1 .. Len(ch'), NEW j \in 1 .. Len(ch'), ch'[i] = ch'[j]
                   PROVE  i = j
        BY Zenon
      <4>1. CASE i \in 1 .. Len(ch) /\ j \in 1 .. Len(ch)
        <5>1. ch[i] = ch[j]
          BY Zenon, <3>2, <4>1
        <5> QED
          BY Zenon, <4>1, <5>1
      <4>2. CASE i = Len(ch) + 1 /\ j \in 1 .. Len(ch)
        BY Zenon, <3>2, <4>2
      <4>3. CASE i \in 1 .. Len(ch) /\ j = Len(ch) + 1
        BY Zenon, <3>2, <4>3
      <4> QED
        BY Zenon, <3>2, <4>1, <4>2, <4>3
    <3>5. \A i \in 1 .. Len(ch') :
            handler'[ch'[i]] = "accepted" /\ \A w \in Workers : ev[w] # ch'[i]
      <4> TAKE i \in 1 .. Len(ch')
      <4>1. CASE i \in 1 .. Len(ch)
        <5>1. ch'[i] = ch[i] /\ ch[i] # r
          BY Zenon, <3>2, <4>1
        <5>2. handler[ch[i]] = "accepted" /\ \A w \in Workers : ev[w] # ch[i]
          BY Zenon, <4>1
        <5>3. ch[i] \in Requests
          BY <4>1
        <5>4. handler'[ch[i]] = handler[ch[i]]
          BY <3>1, <5>1, <5>3, Zenon
        <5> QED
          BY Zenon, <5>1, <5>2, <5>4
      <4>2. CASE i = Len(ch) + 1
        BY <3>1, <3>2, <3>3, <4>2, Zenon
      <4> QED
        BY <3>2, <4>1, <4>2, Zenon
    <3>6. \A w \in Workers : ev[w] # NoEvent => handler'[ev[w]] = "accepted"
      BY <3>1, <3>3, Zenon
    <3> QED
      <4>1. /\ \A w \in Workers : wpc'[w] \in Hands \cup {"count"} => ev'[w] \in Requests
            /\ \A w \in Workers : wpc'[w] = "recv" => ev'[w] = NoEvent
        BY Zenon, <3>1
      <4>2. \A w, v \in Workers : ev'[w] # NoEvent /\ ev'[w] = ev'[v] => w = v
        BY Zenon, <3>1
      <4>3. /\ \A w \in Workers, i \in 1 .. Len(ch') : ev'[w] # ch'[i]
            /\ \A i \in 1 .. Len(ch') : handler'[ch'[i]] = "accepted"
            /\ \A w \in Workers : ev'[w] # NoEvent => handler'[ev'[w]] = "accepted"
        BY Zenon, <3>1, <3>5, <3>6
      <4> QED
        BY Zenon, <3>4, <4>1, <4>2, <4>3
  <2> HIDE DEF Types, Ownership, Hands
  <2>2. CASE ch' = ch
    <3>1. handler[r] = "run" /\ UNCHANGED <<wpc, ev>>
          /\ \E h \in {"accepted", "dropped", "panicked"} : handler' = [handler EXCEPT ![r] = h]
      BY <1>2, Zenon DEF Enqueue, workVars
    <3>2. \A q \in Requests : handler[q] = "accepted" => handler'[q] = "accepted"
      BY <3>1, Zenon DEF Types
    <3> QED
      BY <2>2, <3>1, <3>2, FrameOwnership, Zenon
  <2> QED
    BY <1>2, <2>1, <2>2, Zenon DEF Enqueue
<1> HIDE DEF Types, Ownership, Hands
<1>3. ASSUME NEW w \in Workers, Take(w) PROVE Ownership'
  BY <1>3, TakeOwnership, Zenon
<1>4. ASSUME NEW w \in Workers, RangeEnds(w) PROVE Ownership'
  <2>1. ch' = ch /\ handler' = handler /\ ev' = ev
    BY <1>4, Zenon DEF RangeEnds, queueVars
  <2>2. \A v \in Workers : wpc'[v] \in {wpc[v], "exit"}
    BY <1>4, Zenon DEF RangeEnds, Step, Types
  <2>3. "exit" \notin Hands \cup {"count", "recv"}
    BY Zenon DEF Hands
  <2>4. /\ \A v \in Workers : wpc'[v] \in Hands \cup {"count"} => ev[v] \in Requests
        /\ \A v \in Workers : wpc'[v] = "recv" => ev[v] = NoEvent
    BY <2>2, <2>3, Zenon DEF Ownership
  <2> QED
    BY <2>1, <2>4, Zenon DEF Ownership
<1>5. ASSUME NEW w \in Workers, CheckCtx(w) PROVE Ownership'
  BY <1>5, MoveOwnership DEF CheckCtx, Step, Hands, queueVars
<1>6. ASSUME NEW w \in Workers, Lookup(w) PROVE Ownership'
  BY <1>6, MoveOwnership DEF Lookup, Step, Hands, queueVars
<1>7. ASSUME NEW w \in Workers, CreatePartition(w) PROVE Ownership'
  BY <1>7, MoveOwnership DEF CreatePartition, Step, Hands, queueVars
<1>8. ASSUME NEW w \in Workers, MarkPartition(w) PROVE Ownership'
  BY <1>8, MoveOwnership, Zenon DEF MarkPartition, Step, Hands, queueVars
<1>9. ASSUME NEW w \in Workers, Insert(w) PROVE Ownership'
  BY <1>9, MoveOwnership, Zenon DEF Insert, Step, Hands, queueVars
<1>10. ASSUME NEW w \in Workers, InsertFails(w) PROVE Ownership'
  BY Zenon, <1>10, ReleaseOwnership DEF InsertFails, Step, Loop, queueVars
<1>11. ASSUME NEW w \in Workers, CountWritten(w) PROVE Ownership'
  BY Zenon, <1>11, ReleaseOwnership DEF CountWritten, Step, Loop, queueVars
<1>12. CASE Signal
  BY <1>0, <1>12, Zenon DEF Signal, queueVars, workVars
<1>13. CASE CloseListener
  BY <1>0, <1>13, Zenon DEF CloseListener, queueVars, workVars
<1>14. CASE ShutdownReturns
  BY <1>0, <1>14, Zenon DEF ShutdownReturns, CloseQueue, workVars
<1>15. CASE ListenFails
  BY <1>0, <1>15, Zenon DEF ListenFails, CloseQueue, workVars
<1>16. CASE StopClean
  BY <1>0, <1>16, Zenon DEF StopClean, queueVars, workVars
<1>17. CASE StopTimeout
  BY <1>0, <1>17, Zenon DEF StopTimeout, queueVars, workVars
<1>18. CASE UNCHANGED vars
  BY <1>0, <1>18, Zenon DEF vars, queueVars, workVars
<1> QED
  BY <1>1, <1>2, <1>3, <1>4, <1>5, <1>6, <1>7, <1>8, <1>9,
     <1>10, <1>11, <1>12, <1>13, <1>14, <1>15, <1>16, <1>17, <1>18, Zenon
     DEF Next, Work, Shutdown, Exited

\* Only the insert of its only worker gives an event a row.
LEMMA UnwrittenStep ==
  ASSUME Types, Ownership, Unwritten, [Next]_vars
  PROVE  Unwritten'
<1> USE WorkerConfig DEF Types, Ownership, Unwritten, Hands
<1>1. ASSUME NEW r \in Requests, Arrive(r) PROVE Unwritten'
  BY <1>1, Zenon DEF Arrive, stopVars, queueVars, workVars, dbVars
<1>2. ASSUME NEW r \in Requests, Enqueue(r) PROVE Unwritten'
  <2>1. CASE ch' = Append(ch, r)
    <3>1. /\ handler[r] = "run" /\ handler' = [handler EXCEPT ![r] = "accepted"]
          /\ UNCHANGED <<wpc, ev, rows>>
      <4>1. ch' # ch
        BY <2>1, AppendQueue
      <4> QED
        BY Zenon, <1>2, <4>1 DEF Enqueue, workVars, dbVars
    <3>2. rows[r] = 0
      BY <3>1, Zenon
    <3>3. \A i \in 1 .. Len(ch') : rows[ch'[i]] = 0
      <4> TAKE i \in 1 .. Len(ch')
      <4>1. \/ i \in 1 .. Len(ch) /\ ch'[i] = ch[i]
            \/ ch'[i] = r
        BY <2>1, AppendQueue
      <4> QED
        BY Zenon, <3>2, <4>1
    <3>4. \A q \in Requests : handler'[q] # "accepted" => rows[q] = 0
      BY <3>1, Zenon
    <3> QED
      BY Zenon, <3>1, <3>3, <3>4
  <2>2. CASE ch' = ch
    BY <1>2, <2>2, Zenon DEF Enqueue, stopVars, queueVars, workVars, dbVars
  <2> QED
    BY <1>2, <2>1, <2>2, Zenon DEF Enqueue
<1>3. ASSUME NEW w \in Workers, Take(w) PROVE Unwritten'
  BY <1>3, TailQueue DEF Take, Step, stopVars, queueVars, workVars, dbVars
<1>4. ASSUME NEW w \in Workers, RangeEnds(w) PROVE Unwritten'
  BY <1>4, Zenon DEF RangeEnds, Step, stopVars, queueVars, workVars, dbVars
<1>5. ASSUME NEW w \in Workers, CheckCtx(w) PROVE Unwritten'
  BY <1>5, Zenon DEF CheckCtx, Step, stopVars, queueVars, workVars, dbVars
<1>6. ASSUME NEW w \in Workers, Lookup(w) PROVE Unwritten'
  BY <1>6, Zenon DEF Lookup, Step, stopVars, queueVars, workVars, dbVars
<1>7. ASSUME NEW w \in Workers, CreatePartition(w) PROVE Unwritten'
  BY <1>7, Zenon DEF CreatePartition, Step, stopVars, queueVars, workVars, dbVars
<1>8. ASSUME NEW w \in Workers, MarkPartition(w) PROVE Unwritten'
  BY <1>8, Zenon DEF MarkPartition, Step, stopVars, queueVars, workVars, dbVars
<1>9. ASSUME NEW w \in Workers, Insert(w) PROVE Unwritten'
  BY <1>9 DEF Insert, Step, InsertTakesEffect, stopVars, queueVars, workVars, dbVars
<1>10. ASSUME NEW w \in Workers, InsertFails(w) PROVE Unwritten'
  <2>1. CASE InsertTakesEffect(w)
    BY <1>10, <2>1 DEF InsertFails, Step, Loop, InsertTakesEffect, queueVars
  <2>2. CASE UNCHANGED rows
    BY <1>10, <2>2, Zenon DEF InsertFails, Step, Loop, queueVars
  <2> QED
    BY <1>10, <2>1, <2>2, Zenon DEF InsertFails
<1>11. ASSUME NEW w \in Workers, CountWritten(w) PROVE Unwritten'
  BY <1>11, Zenon DEF CountWritten, Step, Loop, stopVars, queueVars, workVars, dbVars
<1>12. CASE Signal
  BY <1>12, Zenon DEF Signal, stopVars, queueVars, workVars, dbVars
<1>13. CASE CloseListener
  BY <1>13, Zenon DEF CloseListener, stopVars, queueVars, workVars, dbVars
<1>14. CASE ShutdownReturns
  BY <1>14, Zenon DEF ShutdownReturns, CloseQueue, stopVars, queueVars, workVars, dbVars
<1>15. CASE ListenFails
  BY <1>15, Zenon DEF ListenFails, CloseQueue, stopVars, queueVars, workVars, dbVars
<1>16. CASE StopClean
  BY <1>16, Zenon DEF StopClean, stopVars, queueVars, workVars, dbVars
<1>17. CASE StopTimeout
  BY <1>17, Zenon DEF StopTimeout, stopVars, queueVars, workVars, dbVars
<1>18. CASE UNCHANGED vars
  BY <1>18, Zenon DEF vars, stopVars, queueVars, workVars, dbVars
<1> QED
  BY <1>1, <1>2, <1>3, <1>4, <1>5, <1>6, <1>7, <1>8, <1>9,
     <1>10, <1>11, <1>12, <1>13, <1>14, <1>15, <1>16, <1>17, <1>18, Zenon
     DEF Next, Work, Shutdown, Exited

\* A month is remembered by a worker that has created its partition.
LEMMA PartitionStep ==
  ASSUME Types, PartitionCacheSound, [Next]_vars
  PROVE  PartitionCacheSound'
<1> USE WorkerConfig DEF Types, PartitionCacheSound
<1>1. ASSUME NEW r \in Requests, Arrive(r) PROVE PartitionCacheSound'
  BY <1>1, Zenon DEF Arrive, stopVars, queueVars, workVars, dbVars
<1>2. ASSUME NEW r \in Requests, Enqueue(r) PROVE PartitionCacheSound'
  <2>1. CASE ch' = Append(ch, r)
    BY <1>2, <2>1, AppendQueue, Zenon DEF Enqueue, stopVars, queueVars, workVars, dbVars
  <2>2. CASE ch' = ch
    BY <1>2, <2>2, Zenon DEF Enqueue, stopVars, queueVars, workVars, dbVars
  <2> QED
    BY <1>2, <2>1, <2>2, Zenon DEF Enqueue
<1>3. ASSUME NEW w \in Workers, Take(w) PROVE PartitionCacheSound'
  BY <1>3, TailQueue, Zenon DEF Take, Step, stopVars, queueVars, workVars, dbVars
<1>4. ASSUME NEW w \in Workers, RangeEnds(w) PROVE PartitionCacheSound'
  BY <1>4, Zenon DEF RangeEnds, Step, stopVars, queueVars, workVars, dbVars
<1>5. ASSUME NEW w \in Workers, CheckCtx(w) PROVE PartitionCacheSound'
  BY <1>5, Zenon DEF CheckCtx, Step, stopVars, queueVars, workVars, dbVars
<1>6. ASSUME NEW w \in Workers, Lookup(w) PROVE PartitionCacheSound'
  BY <1>6, Zenon DEF Lookup, Step, stopVars, queueVars, workVars, dbVars
<1>7. ASSUME NEW w \in Workers, CreatePartition(w) PROVE PartitionCacheSound'
  BY <1>7, Zenon DEF CreatePartition, Step, stopVars, queueVars, workVars, dbVars
<1>8. ASSUME NEW w \in Workers, MarkPartition(w) PROVE PartitionCacheSound'
  BY <1>8, Zenon DEF MarkPartition, Step, stopVars, queueVars, workVars, dbVars
<1>9. ASSUME NEW w \in Workers, Insert(w) PROVE PartitionCacheSound'
  BY <1>9, Zenon DEF Insert, Step, InsertTakesEffect, stopVars, queueVars, workVars, dbVars
<1>10. ASSUME NEW w \in Workers, InsertFails(w) PROVE PartitionCacheSound'
  BY <1>10, Zenon DEF InsertFails, Step, Loop, InsertTakesEffect, stopVars, queueVars,
               workVars, dbVars
<1>11. ASSUME NEW w \in Workers, CountWritten(w) PROVE PartitionCacheSound'
  BY <1>11, Zenon DEF CountWritten, Step, Loop, stopVars, queueVars, workVars, dbVars
<1>12. CASE Signal
  BY <1>12, Zenon DEF Signal, stopVars, queueVars, workVars, dbVars
<1>13. CASE CloseListener
  BY <1>13, Zenon DEF CloseListener, stopVars, queueVars, workVars, dbVars
<1>14. CASE ShutdownReturns
  BY <1>14, Zenon DEF ShutdownReturns, CloseQueue, stopVars, queueVars, workVars, dbVars
<1>15. CASE ListenFails
  BY <1>15, Zenon DEF ListenFails, CloseQueue, stopVars, queueVars, workVars, dbVars
<1>16. CASE StopClean
  BY <1>16, Zenon DEF StopClean, stopVars, queueVars, workVars, dbVars
<1>17. CASE StopTimeout
  BY <1>17, Zenon DEF StopTimeout, stopVars, queueVars, workVars, dbVars
<1>18. CASE UNCHANGED vars
  BY <1>18, Zenon DEF vars, stopVars, queueVars, workVars, dbVars
<1> QED
  BY <1>1, <1>2, <1>3, <1>4, <1>5, <1>6, <1>7, <1>8, <1>9,
     <1>10, <1>11, <1>12, <1>13, <1>14, <1>15, <1>16, <1>17, <1>18, Zenon
     DEF Next, Work, Shutdown, Exited

\* No accepted event gets lost while the context lives.
LEMMA SettlingStep ==
  ASSUME Types, Ownership, Settling, [Next]_vars
  PROVE  Settling'
<1> USE WorkerConfig DEF Types, Ownership, Settling, Hands
<1>1. ASSUME NEW r \in Requests, Arrive(r) PROVE Settling'
  BY <1>1 DEF Arrive, stopVars, queueVars, workVars, dbVars, Accounted, Waiting, Held
<1>2. ASSUME NEW r \in Requests, Enqueue(r) PROVE Settling'
  <2>1. ASSUME NEW q \in Requests, handler'[q] = "accepted" PROVE Accounted(q)'
    <3>1. CASE ch' = Append(ch, r)
      <4>1. Waiting(r)' /\ (Waiting(q) => Waiting(q)')
        <5>1. ch \in Seq(Requests)
          BY Zenon
        <5> HIDE DEF Types, Ownership, Settling
        <5>2. /\ \E i \in 1 .. Len(ch') : ch'[i] = r
              /\ \A j \in 1 .. Len(ch) : \E i \in 1 .. Len(ch') : ch'[i] = ch[j]
          BY <3>1, <5>1, AppendWaits
        <5> QED
          BY Zenon, <5>2 DEF Waiting
      <4>2. q # r => handler[q] = "accepted"
        BY <1>2, <2>1, Zenon DEF Enqueue
      <4> QED
        BY <1>2, <4>1, <4>2 DEF Enqueue, workVars, dbVars, Accounted, Held
    <3>2. CASE ch' = ch
      BY <1>2, <2>1, <3>2 DEF Enqueue, workVars, dbVars, Accounted, Waiting, Held
    <3> QED
      BY <1>2, <3>1, <3>2, Zenon DEF Enqueue
  <2>2. UNCHANGED <<main, ctxDone, wpc, ev, closed>> /\ (closed => ch' = ch)
    BY <1>2, Zenon DEF Enqueue, stopVars, workVars
  <2> QED
    BY <2>1, <2>2, Zenon
<1>3. ASSUME NEW w \in Workers, Take(w) PROVE Settling'
  <2>1. ASSUME NEW r \in Requests, handler'[r] = "accepted" PROVE Accounted(r)'
    <3>1. handler[r] = "accepted"
      BY <1>3, <2>1, Zenon DEF Take, queueVars
    <3>2. CASE rows[r] > 0 \/ r \in failed
      BY <1>3, <3>2, Zenon DEF Take, Step, stopVars, queueVars, dbVars, Accounted
    <3>3. CASE Waiting(r)
      <4>1. PICK i \in 1 .. Len(ch) : ch[i] = r
        BY <3>3, Zenon DEF Waiting
      <4>a. ch # <<>> /\ ch' = Tail(ch) /\ ch \in Seq(Requests)
        BY <1>3, Zenon DEF Take
      <4>2. CASE i = 1
        <5>1. Head(ch) = r
          BY <4>1, <4>2, <4>a, TailQueue, Zenon
        <5>2. ev'[w] = r /\ wpc'[w] = "check"
          BY <1>3, <5>1, Zenon DEF Take, Step
        <5> QED
          BY Zenon, <5>2 DEF Accounted, Held
      <4>3. CASE i # 1
        <5> HIDE DEF Types, Ownership, Settling
        <5>1. \E j \in 1 .. Len(Tail(ch)) : Tail(ch)[j] = ch[i]
          BY Zenon, <4>1, <4>3, <4>a, TailShift
        <5>2. \E j \in 1 .. Len(ch') : ch'[j] = ch[i]
          BY Zenon, <4>a, <5>1
        <5> QED
          BY Zenon, <4>1, <5>2 DEF Accounted, Waiting
      <4> QED
        BY <4>2, <4>3, Zenon
    <3>4. CASE Held(r)
      BY <1>3, <3>4 DEF Take, Step, stopVars, queueVars, dbVars, Accounted, Held
    <3> QED
      BY <3>1, <3>2, <3>3, <3>4, Zenon DEF Accounted
  <2>2. \A v \in Workers :
          wpc'[v] = "exit" => ctxDone' \/ (closed' /\ ch' = <<>> /\ ev'[v] = NoEvent)
    BY <1>3, TailQueue, Zenon DEF Take, Step, stopVars, queueVars, dbVars
  <2>3. main' = "clean" => \A v \in Workers : wpc'[v] = "exit"
    BY <1>3, Zenon DEF Take, Step, stopVars
  <2> QED
    BY <2>1, <2>2, <2>3, Zenon
<1>4. ASSUME NEW w \in Workers, RangeEnds(w) PROVE Settling'
  BY <1>4 DEF RangeEnds, Step, stopVars, queueVars, workVars, dbVars, Accounted, Waiting, Held
<1>5. ASSUME NEW w \in Workers, CheckCtx(w) PROVE Settling'
  <2>1. PICK x \in Hands \cup {"exit"} :
          /\ wpc[w] \in Hands /\ wpc' = [wpc EXCEPT ![w] = x]
          /\ x = "exit" => ctxDone
    BY <1>5, Zenon DEF CheckCtx, Step
  <2>2. UNCHANGED <<handler, ch, ev, rows, failed, main, ctxDone, closed>>
    BY Zenon, <1>5 DEF CheckCtx, stopVars, queueVars, dbVars
  <2> HIDE DEF Types, Ownership, Settling, Hands
  <2> QED
    BY <2>1, <2>2, MoveSettling, Zenon
<1>6. ASSUME NEW w \in Workers, Lookup(w) PROVE Settling'
  <2>1. PICK x \in Hands \cup {"exit"} :
          /\ wpc[w] \in Hands /\ wpc' = [wpc EXCEPT ![w] = x]
          /\ x = "exit" => ctxDone
    BY <1>6, Zenon DEF Lookup, Step
  <2>2. UNCHANGED <<handler, ch, ev, rows, failed, main, ctxDone, closed>>
    BY Zenon, <1>6 DEF Lookup, stopVars, queueVars, dbVars
  <2> HIDE DEF Types, Ownership, Settling, Hands
  <2> QED
    BY <2>1, <2>2, MoveSettling, Zenon
<1>7. ASSUME NEW w \in Workers, CreatePartition(w) PROVE Settling'
  <2>1. PICK x \in Hands \cup {"exit"} :
          /\ wpc[w] \in Hands /\ wpc' = [wpc EXCEPT ![w] = x]
          /\ x = "exit" => ctxDone
    BY <1>7, Zenon DEF CreatePartition, Step
  <2>2. UNCHANGED <<handler, ch, ev, rows, failed, main, ctxDone, closed>>
    BY Zenon, <1>7 DEF CreatePartition, stopVars, queueVars, dbVars
  <2> HIDE DEF Types, Ownership, Settling, Hands
  <2> QED
    BY <2>1, <2>2, MoveSettling, Zenon
<1>8. ASSUME NEW w \in Workers, MarkPartition(w) PROVE Settling'
  <2>1. PICK x \in Hands \cup {"exit"} :
          /\ wpc[w] \in Hands /\ wpc' = [wpc EXCEPT ![w] = x]
          /\ x = "exit" => ctxDone
    BY <1>8, Zenon DEF MarkPartition, Step
  <2>2. UNCHANGED <<handler, ch, ev, rows, failed, main, ctxDone, closed>>
    BY Zenon, <1>8 DEF MarkPartition, stopVars, queueVars, dbVars
  <2> HIDE DEF Types, Ownership, Settling, Hands
  <2> QED
    BY <2>1, <2>2, MoveSettling, Zenon
<1>9. ASSUME NEW w \in Workers, Insert(w) PROVE Settling'
  <2>1. ASSUME NEW r \in Requests, handler'[r] = "accepted" PROVE Accounted(r)'
    <3>1. handler[r] = "accepted"
      BY <1>9, <2>1, Zenon DEF Insert, queueVars
    <3>2. CASE rows[r] > 0 \/ r \in failed
      <4>1. rows' = [rows EXCEPT ![ev[w]] = @ + 1] \/ rows' = rows
        BY Zenon, <1>9 DEF Insert, InsertTakesEffect
      <4>2. rows[r] > 0 => rows'[r] > 0
        BY <4>1
      <4>3. r \in failed => r \in failed'
        BY <1>9, Zenon DEF Insert
      <4> QED
        BY Zenon, <3>2, <4>2, <4>3 DEF Accounted
    <3>3. CASE Waiting(r)
      BY Zenon, <1>9, <3>3 DEF Insert, queueVars, Accounted, Waiting
    <3>4. CASE Held(r)
      <4>1. PICK v \in Workers : wpc[v] \in Hands \cup {"exit"} /\ ev[v] = r
        BY Zenon, <3>4 DEF Held
      <4>2. CASE v = w
        <5>1. rows'[r] = rows[r] + 1
          BY <1>9, <4>1, <4>2, Zenon DEF Insert, InsertTakesEffect
        <5>2. rows[r] \in Nat
          BY Zenon
        <5> HIDE DEF Types, Ownership, Settling, Hands
        <5>3. \A n \in Nat : n + 1 > 0
          OBVIOUS
        <5>4. rows'[r] > 0
          BY Zenon, <5>1, <5>2, <5>3
        <5> QED
          BY Zenon, <5>4 DEF Accounted
      <4>3. CASE v # w
        <5>1. wpc'[v] = wpc[v] /\ ev'[v] = ev[v]
          BY <1>9, <4>3, Zenon DEF Insert, Step
        <5> QED
          BY Zenon, <4>1, <5>1 DEF Accounted, Held
      <4> QED
        BY Zenon, <4>2, <4>3
    <3> QED
      BY <3>1, <3>2, <3>3, <3>4, Zenon DEF Accounted
  <2>2. \A v \in Workers :
          wpc'[v] = "exit" => ctxDone' \/ (closed' /\ ch' = <<>> /\ ev'[v] = NoEvent)
    BY <1>9, Zenon DEF Insert, Step, InsertTakesEffect, stopVars, queueVars, dbVars
  <2>3. main' = "clean" => \A v \in Workers : wpc'[v] = "exit"
    BY <1>9, Zenon DEF Insert, Step, InsertTakesEffect, stopVars
  <2> QED
    BY <2>1, <2>2, <2>3, Zenon
<1>10. ASSUME NEW w \in Workers, InsertFails(w) PROVE Settling'
  <2>1. ASSUME NEW r \in Requests, handler'[r] = "accepted" PROVE Accounted(r)'
    <3>1. handler[r] = "accepted"
      BY <1>10, <2>1, Zenon DEF InsertFails, queueVars
    <3>2. CASE rows[r] > 0 \/ r \in failed
      <4>1. rows' = [rows EXCEPT ![ev[w]] = @ + 1] \/ rows' = rows
        BY Zenon, <1>10 DEF InsertFails, InsertTakesEffect
      <4>2. rows[r] > 0 => rows'[r] > 0
        BY <4>1
      <4>3. r \in failed => r \in failed'
        BY <1>10, Zenon DEF InsertFails
      <4> QED
        BY Zenon, <3>2, <4>2, <4>3 DEF Accounted
    <3>3. CASE Waiting(r)
      BY Zenon, <1>10, <3>3 DEF InsertFails, queueVars, Accounted, Waiting
    <3>4. CASE Held(r)
      <4>1. PICK v \in Workers : wpc[v] \in Hands \cup {"exit"} /\ ev[v] = r
        BY Zenon, <3>4 DEF Held
      <4>2. CASE v = w
        BY Zenon, <1>10, <4>1, <4>2 DEF InsertFails, Accounted
      <4>3. CASE v # w
        <5>1. wpc'[v] = wpc[v] /\ ev'[v] = ev[v]
          BY <1>10, <4>3, Zenon DEF InsertFails, Step, Loop
        <5> QED
          BY Zenon, <4>1, <5>1 DEF Accounted, Held
      <4> QED
        BY Zenon, <4>2, <4>3
    <3> QED
      BY <3>1, <3>2, <3>3, <3>4, Zenon DEF Accounted
  <2>2. \A v \in Workers :
          wpc'[v] = "exit" => ctxDone' \/ (closed' /\ ch' = <<>> /\ ev'[v] = NoEvent)
    BY <1>10, Zenon DEF InsertFails, Step, Loop, InsertTakesEffect, stopVars, queueVars, dbVars
  <2>3. main' = "clean" => \A v \in Workers : wpc'[v] = "exit"
    BY <1>10, Zenon DEF InsertFails, Step, Loop, InsertTakesEffect, stopVars
  <2> QED
    BY <2>1, <2>2, <2>3, Zenon
<1>11. ASSUME NEW w \in Workers, CountWritten(w) PROVE Settling'
  <2>1. ASSUME NEW r \in Requests, handler'[r] = "accepted" PROVE Accounted(r)'
    <3>1. handler[r] = "accepted"
      BY <1>11, <2>1, Zenon DEF CountWritten, queueVars
    <3>2. CASE rows[r] > 0 \/ r \in failed
      BY <1>11, <3>2, Zenon DEF CountWritten, Accounted
    <3>3. CASE Waiting(r)
      BY <1>11, <3>3, Zenon DEF CountWritten, queueVars, Accounted, Waiting
    <3>4. CASE Held(r)
      BY <1>11, <3>4 DEF CountWritten, Loop, Step, Accounted, Held
    <3> QED
      BY <3>1, <3>2, <3>3, <3>4, Zenon DEF Accounted
  <2>2. \A v \in Workers :
          wpc'[v] = "exit" => ctxDone' \/ (closed' /\ ch' = <<>> /\ ev'[v] = NoEvent)
    BY <1>11, Zenon DEF CountWritten, Step, Loop, stopVars, queueVars, dbVars
  <2>3. main' = "clean" => \A v \in Workers : wpc'[v] = "exit"
    BY <1>11, Zenon DEF CountWritten, Step, Loop, stopVars
  <2> QED
    BY <2>1, <2>2, <2>3, Zenon
<1>12. CASE Signal
  BY <1>12 DEF Signal, stopVars, queueVars, workVars, dbVars, Accounted, Waiting, Held
<1>13. CASE CloseListener
  BY <1>13 DEF CloseListener, stopVars, queueVars, workVars, dbVars, Accounted, Waiting, Held
<1>14. CASE ShutdownReturns
  BY <1>14 DEF ShutdownReturns, CloseQueue, stopVars, queueVars, workVars, dbVars,
               Accounted, Waiting, Held
<1>15. CASE ListenFails
  BY <1>15 DEF ListenFails, CloseQueue, stopVars, queueVars, workVars, dbVars,
               Accounted, Waiting, Held
<1>16. CASE StopClean
  BY <1>16 DEF StopClean, stopVars, queueVars, workVars, dbVars, Accounted, Waiting, Held
<1>17. CASE StopTimeout
  BY <1>17 DEF StopTimeout, stopVars, queueVars, workVars, dbVars, Accounted, Waiting, Held
<1>18. CASE UNCHANGED vars
  BY <1>18 DEF vars, stopVars, queueVars, workVars, dbVars, Accounted, Waiting, Held
<1> QED
  BY <1>1, <1>2, <1>3, <1>4, <1>5, <1>6, <1>7, <1>8, <1>9,
     <1>10, <1>11, <1>12, <1>13, <1>14, <1>15, <1>16, <1>17, <1>18, Zenon
     DEF Next, Work, Shutdown, Exited

\* The shutdown sequence keeps its order.
LEMMA ClosingStep ==
  ASSUME Types, Closing, [Next]_vars
  PROVE  Closing'
<1> USE WorkerConfig DEF Types, Closing
<1>1. ASSUME NEW r \in Requests, Arrive(r) PROVE Closing'
  BY <1>1, Zenon DEF Arrive, stopVars, queueVars, workVars, dbVars
<1>2. ASSUME NEW r \in Requests, Enqueue(r) PROVE Closing'
  <2>1. CASE ch' = Append(ch, r)
    <3>1. /\ ~closed /\ handler' = [handler EXCEPT ![r] = "accepted"]
          /\ UNCHANGED <<closed, main, graceful>>
      <4>1. ch' # ch
        BY <2>1, AppendQueue
      <4> QED
        BY Zenon, <1>2, <4>1 DEF Enqueue, stopVars
    <3> QED
      BY <3>1, Zenon
  <2>2. CASE ch' = ch
    BY <1>2, <2>2, Zenon DEF Enqueue, stopVars, queueVars, workVars, dbVars
  <2> QED
    BY <1>2, <2>1, <2>2, Zenon DEF Enqueue
<1>3. ASSUME NEW w \in Workers, Take(w) PROVE Closing'
  BY <1>3, TailQueue, Zenon DEF Take, Step, stopVars, queueVars, workVars, dbVars
<1>4. ASSUME NEW w \in Workers, RangeEnds(w) PROVE Closing'
  BY <1>4, Zenon DEF RangeEnds, Step, stopVars, queueVars, workVars, dbVars
<1>5. ASSUME NEW w \in Workers, CheckCtx(w) PROVE Closing'
  BY <1>5, Zenon DEF CheckCtx, Step, stopVars, queueVars, workVars, dbVars
<1>6. ASSUME NEW w \in Workers, Lookup(w) PROVE Closing'
  BY <1>6, Zenon DEF Lookup, Step, stopVars, queueVars, workVars, dbVars
<1>7. ASSUME NEW w \in Workers, CreatePartition(w) PROVE Closing'
  BY <1>7, Zenon DEF CreatePartition, Step, stopVars, queueVars, workVars, dbVars
<1>8. ASSUME NEW w \in Workers, MarkPartition(w) PROVE Closing'
  BY <1>8, Zenon DEF MarkPartition, Step, stopVars, queueVars, workVars, dbVars
<1>9. ASSUME NEW w \in Workers, Insert(w) PROVE Closing'
  BY <1>9, Zenon DEF Insert, Step, InsertTakesEffect, stopVars, queueVars, workVars, dbVars
<1>10. ASSUME NEW w \in Workers, InsertFails(w) PROVE Closing'
  BY <1>10, Zenon DEF InsertFails, Step, Loop, InsertTakesEffect, stopVars, queueVars,
               workVars, dbVars
<1>11. ASSUME NEW w \in Workers, CountWritten(w) PROVE Closing'
  BY <1>11, Zenon DEF CountWritten, Step, Loop, stopVars, queueVars, workVars, dbVars
<1>12. CASE Signal
  BY <1>12, Zenon DEF Signal, stopVars, queueVars, workVars, dbVars
<1>13. CASE CloseListener
  BY <1>13, Zenon DEF CloseListener, stopVars, queueVars, workVars, dbVars
<1>14. CASE ShutdownReturns
  BY <1>14, Zenon DEF ShutdownReturns, CloseQueue, stopVars, queueVars, workVars, dbVars
<1>15. CASE ListenFails
  BY <1>15, Zenon DEF ListenFails, CloseQueue, stopVars, queueVars, workVars, dbVars
<1>16. CASE StopClean
  BY <1>16, Zenon DEF StopClean, stopVars, queueVars, workVars, dbVars
<1>17. CASE StopTimeout
  BY <1>17, Zenon DEF StopTimeout, stopVars, queueVars, workVars, dbVars
<1>18. CASE UNCHANGED vars
  BY <1>18, Zenon DEF vars, stopVars, queueVars, workVars, dbVars
<1> QED
  BY <1>1, <1>2, <1>3, <1>4, <1>5, <1>6, <1>7, <1>8, <1>9,
     <1>10, <1>11, <1>12, <1>13, <1>14, <1>15, <1>16, <1>17, <1>18, Zenon
     DEF Next, Work, Shutdown, Exited

\* The inductive invariant holds throughout.
LEMMA IInvHolds == Spec => []IInv
<1>1. IInv /\ [Next]_vars => IInv'
  BY TypeStep, OwnershipStep, UnwrittenStep, PartitionStep, SettlingStep, ClosingStep, Zenon
     DEF IInv
<1> QED
  BY <1>1, InitIInv, PTL DEF Spec

-----------------------------------------------------------------------------
\* A request's event is never written twice, whatever inserts fail after taking
\* effect.
THEOREM WrittenOnceHolds == Spec => []WrittenOnce
<1>1. IInv => WrittenOnce
  BY Zenon DEF IInv, Unwritten, WrittenOnce
<1> QED
  BY <1>1, IInvHolds, PTL

\* ensurePartition's cache never claims a partition that is not there.
THEOREM PartitionCacheSoundHolds == Spec => []PartitionCacheSound
<1>1. IInv => PartitionCacheSound
  BY Zenon DEF IInv
<1> QED
  BY <1>1, IInvHolds, PTL

\* A stop reported as clean, with the context alive, has settled every event.
THEOREM CleanStopFlushesHolds == Spec => []CleanStopFlushes
<1>1. IInv => CleanStopFlushes
  <2> SUFFICES ASSUME IInv, main = "clean", ~ctxDone, NEW r \in Requests,
                      handler[r] = "accepted"
               PROVE  rows[r] > 0 \/ r \in failed
    BY Zenon DEF CleanStopFlushes, AllSettled
  <2>1. \A w \in Workers : wpc[w] = "exit" /\ closed /\ ch = <<>> /\ ev[w] = NoEvent
    BY Zenon DEF IInv, Settling
  <2>2. ch = <<>> /\ \A w \in Workers : ev[w] # r
    BY <2>1, WorkerConfig, Zenon
  <2> QED
    BY <2>2 DEF IInv, Settling, Accounted, Waiting, Held
<1> QED
  BY <1>1, IInvHolds, PTL

\* After a graceful Shutdown no handler has sent on the closed channel.
THEOREM GracefulMeansNoPanicHolds == Spec => []GracefulMeansNoPanic
<1>1. IInv => GracefulMeansNoPanic
  BY Zenon DEF IInv, Closing, GracefulMeansNoPanic
<1> QED
  BY <1>1, IInvHolds, PTL
=============================================================================
