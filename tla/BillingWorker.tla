---------------------------- MODULE BillingWorker ----------------------------
(***************************************************************************)
(* internal/billing/worker.go under the gateway's shutdown sequence        *)
(* (cmd/gateway/main.go): chat handlers enqueue one event per request      *)
(* without blocking, consumer goroutines write them to request_logs, and   *)
(* the deferred Stop flushes what is left.                                 *)
(*                                                                         *)
(* An event is identified with its request; what matters of it is the      *)
(* month whose partition of request_logs its row belongs to.  The database *)
(* may refuse any statement, and an INSERT may time out after it took      *)
(* effect.                                                                 *)
(***************************************************************************)
EXTENDS Integers, Sequences, FiniteSets

CONSTANTS
  Requests,      \* one event each
  MonthOf,       \* the month of StartedAt
  Workers,       \* the goroutines Start spawns
  NoEvent,
  BufferSize

ASSUME WorkerConfig ==
  /\ IsFiniteSet(Requests)
  /\ NoEvent \notin Requests
  /\ Workers # {}
  /\ BufferSize \in Nat \ {0}

Months == {MonthOf[r] : r \in Requests}

VARIABLES
  main,          \* serve, drain, shutdown, flush, clean, timeout
  graceful,      \* httpSrv.Shutdown returned nil
  ctxDone,       \* the signal context, which is also the workers' context
  handler,       \* idle, run, accepted, dropped, panicked
  ch, closed,    \* the event channel
  dropped, written,
  wpc,           \* recv, check, lookup, create, mark, insert, count, exit
  ev,            \* the event a worker has taken from ch
  partOK,        \* months ensurePartition remembers
  partitions,    \* partitions that exist in the database
  rows,          \* inserts into request_logs that took effect, per request
  failed         \* events whose insert returned an error (logged)

stopVars == <<main, graceful, ctxDone>>
queueVars == <<handler, ch, closed, dropped>>
workVars == <<wpc, ev>>
dbVars == <<partOK, partitions, rows, failed, written>>
vars == <<stopVars, queueVars, workVars, dbVars>>

Init ==
  /\ main = "serve" /\ graceful = FALSE /\ ctxDone = FALSE
  /\ handler = [r \in Requests |-> "idle"]
  /\ ch = <<>> /\ closed = FALSE
  /\ dropped = 0 /\ written = 0
  /\ wpc = [w \in Workers |-> "recv"]
  /\ ev = [w \in Workers |-> NoEvent]
  /\ partOK = {} /\ partitions = {}
  /\ rows = [r \in Requests |-> 0]
  /\ failed = {}

-----------------------------------------------------------------------------
\* A chat request arrives; the listener is open until httpSrv.Shutdown.
Arrive(r) ==
  /\ main \in {"serve", "drain"}
  /\ handler[r] = "idle"
  /\ handler' = [handler EXCEPT ![r] = "run"]
  /\ UNCHANGED <<stopVars, ch, closed, dropped, workVars, dbVars>>

\* emitBillingEvent and Enqueue: a send that never blocks.  Sending on a closed
\* channel panics, select with default or not.
Enqueue(r) ==
  /\ handler[r] = "run"
  /\ \/ /\ closed
        /\ handler' = [handler EXCEPT ![r] = "panicked"]
        /\ UNCHANGED <<ch, dropped>>
     \/ /\ ~closed /\ Len(ch) < BufferSize
        /\ ch' = Append(ch, r)
        /\ handler' = [handler EXCEPT ![r] = "accepted"]
        /\ UNCHANGED dropped
     \/ /\ ~closed /\ Len(ch) >= BufferSize
        /\ dropped' = dropped + 1
        /\ handler' = [handler EXCEPT ![r] = "dropped"]
        /\ UNCHANGED ch
  /\ UNCHANGED <<stopVars, closed, workVars, dbVars>>

-----------------------------------------------------------------------------
\* The consumer loop of run(ctx).

Step(w, from, to) == wpc[w] = from /\ wpc' = [wpc EXCEPT ![w] = to]

\* The event in hand is finished with, one way or another.
Loop(w, from) == Step(w, from, "recv") /\ ev' = [ev EXCEPT ![w] = NoEvent]

Take(w) ==
  /\ ch # <<>>
  /\ Step(w, "recv", "check")
  /\ ev' = [ev EXCEPT ![w] = Head(ch)]
  /\ ch' = Tail(ch)
  /\ UNCHANGED <<stopVars, handler, closed, dropped, dbVars>>

\* Mutant: the loop does not end when the channel is closed.
RangeNeverEnds(w) ==
  /\ FALSE
  /\ UNCHANGED vars

RangeEnds(w) ==
  /\ ch = <<>> /\ closed
  /\ Step(w, "recv", "exit")
  /\ UNCHANGED <<stopVars, queueVars, ev, dbVars>>

\* if ctx.Err() != nil { return }: the event just taken goes with it.
CheckCtx(w) ==
  /\ \/ ctxDone /\ Step(w, "check", "exit")
     \/ ~ctxDone /\ Step(w, "check", "lookup")
  /\ UNCHANGED <<stopVars, queueVars, ev, dbVars>>

\* ensurePartition: is the month cached ...
Lookup(w) ==
  /\ \/ Step(w, "lookup", "insert") /\ MonthOf[ev[w]] \in partOK
     \/ Step(w, "lookup", "create") /\ MonthOf[ev[w]] \notin partOK
  /\ UNCHANGED <<stopVars, queueVars, ev, dbVars>>

\* Mutant: the month is remembered whether or not its partition was created.
CreatePartitionMarks(w) ==
  /\ Step(w, "create", "mark")
  /\ UNCHANGED <<stopVars, queueVars, ev, dbVars>>

\* ... CREATE TABLE IF NOT EXISTS, which may fail: the insert is tried anyway.
CreatePartition(w) ==
  /\ \/ /\ Step(w, "create", "mark")
        /\ partitions' = partitions \cup {MonthOf[ev[w]]}
     \/ /\ Step(w, "create", "insert")
        /\ UNCHANGED partitions
  /\ UNCHANGED <<stopVars, queueVars, ev, partOK, rows, failed, written>>

MarkPartition(w) ==
  /\ Step(w, "mark", "insert")
  /\ partOK' = partOK \cup {MonthOf[ev[w]]}
  /\ UNCHANGED <<stopVars, queueVars, ev, partitions, rows, failed, written>>

InsertTakesEffect(w) ==
  /\ MonthOf[ev[w]] \in partitions
  /\ rows' = [rows EXCEPT ![ev[w]] = @ + 1]

Insert(w) ==
  /\ Step(w, "insert", "count")
  /\ InsertTakesEffect(w)
  /\ UNCHANGED <<stopVars, queueVars, ev, partOK, partitions, failed, written>>

\* Mutant: a failed insert is put back into the queue.
InsertFailsRequeue(w) ==
  /\ Loop(w, "insert")
  /\ ~closed /\ Len(ch) < BufferSize
  /\ InsertTakesEffect(w) \/ UNCHANGED rows
  /\ failed' = failed \cup {ev[w]}
  /\ ch' = Append(ch, ev[w])
  /\ UNCHANGED <<stopVars, handler, closed, dropped, partOK, partitions, written>>

\* Mutant: a failed insert is tried again until it succeeds.
InsertFailsRetries(w) ==
  /\ wpc[w] = "insert"
  /\ UNCHANGED vars

\* The insert returns an error; after a timeout the row may be there all the
\* same.  The error is logged and the event not tried again.
InsertFails(w) ==
  /\ Loop(w, "insert")
  /\ InsertTakesEffect(w) \/ UNCHANGED rows
  /\ failed' = failed \cup {ev[w]}
  /\ UNCHANGED <<stopVars, queueVars, partOK, partitions, written>>

CountWritten(w) ==
  /\ Loop(w, "count")
  /\ written' = written + 1
  /\ UNCHANGED <<stopVars, queueVars, partOK, partitions, rows, failed>>

Work(w) ==
  \/ Take(w) \/ RangeEnds(w) \/ CheckCtx(w)
  \/ Lookup(w) \/ CreatePartition(w) \/ MarkPartition(w)
  \/ Insert(w) \/ InsertFails(w) \/ CountWritten(w)

-----------------------------------------------------------------------------
\* runWithCtx from the shutdown signal to the deferred Stop.

Signal ==
  /\ main = "serve"
  /\ main' = "drain" /\ ctxDone' = TRUE
  /\ UNCHANGED <<graceful, queueVars, workVars, dbVars>>

\* The pre-shutdown delay is over: httpSrv.Shutdown closes the listener.
CloseListener ==
  /\ main = "drain"
  /\ main' = "shutdown"
  /\ UNCHANGED <<graceful, ctxDone, queueVars, workVars, dbVars>>

\* close(w.ch), the first thing Stop does.
CloseQueue == main' = "flush" /\ closed' = TRUE

\* Mutant: Stop without waiting for the handlers.
ShutdownReturnsEarly ==
  /\ main = "shutdown"
  /\ graceful' = TRUE
  /\ CloseQueue
  /\ UNCHANGED <<ctxDone, handler, ch, dropped, workVars, dbVars>>

\* Shutdown returns once the in-flight handlers have, or with an error after
\* ShutdownTimeout; either way runWithCtx returns and Stop runs.
ShutdownReturns ==
  /\ main = "shutdown"
  /\ graceful' = (\A r \in Requests : handler[r] # "run")
  /\ CloseQueue
  /\ UNCHANGED <<ctxDone, handler, ch, dropped, workVars, dbVars>>

\* ListenAndServe fails: runWithCtx returns at once, the context still alive.
ListenFails ==
  /\ main = "serve"
  /\ CloseQueue
  /\ UNCHANGED <<graceful, ctxDone, handler, ch, dropped, workVars, dbVars>>

\* Mutant: Stop looks at the queue instead of waiting for the workers.
StopCleanOnEmptyQueue ==
  /\ main = "flush"
  /\ ch = <<>>
  /\ main' = "clean"
  /\ UNCHANGED <<graceful, ctxDone, queueVars, workVars, dbVars>>

\* wg.Wait() returned: "billing worker stopped cleanly".
StopClean ==
  /\ main = "flush"
  /\ \A w \in Workers : wpc[w] = "exit"
  /\ main' = "clean"
  /\ UNCHANGED <<graceful, ctxDone, queueVars, workVars, dbVars>>

\* FlushTimeout: "billing worker stop timed out; some events may be lost".
StopTimeout ==
  /\ main = "flush"
  /\ main' = "timeout"
  /\ UNCHANGED <<graceful, ctxDone, queueVars, workVars, dbVars>>

\* The process is gone.
Exited == main \in {"clean", "timeout"} /\ UNCHANGED vars

Shutdown ==
  \/ Signal \/ CloseListener \/ ShutdownReturns \/ ListenFails
  \/ StopClean \/ StopTimeout

Next ==
  \/ \E r \in Requests : Arrive(r) \/ Enqueue(r)
  \/ \E w \in Workers : Work(w)
  \/ Shutdown
  \/ Exited

Spec == Init /\ [][Next]_vars

\* Goroutines run and the database answers (an INSERT within its 5 s timeout).
FairSpec == Spec /\ \A w \in Workers : WF_vars(Work(w))

-----------------------------------------------------------------------------
TypeOK ==
  /\ main \in {"serve", "drain", "shutdown", "flush", "clean", "timeout"}
  /\ graceful \in BOOLEAN /\ ctxDone \in BOOLEAN /\ closed \in BOOLEAN
  /\ handler \in [Requests -> {"idle", "run", "accepted", "dropped", "panicked"}]
  /\ ch \in Seq(Requests) /\ Len(ch) <= BufferSize
  /\ dropped \in Nat /\ written \in Nat
  /\ wpc \in [Workers -> {"recv", "check", "lookup", "create", "mark", "insert",
                          "count", "exit"}]
  /\ ev \in [Workers -> Requests \cup {NoEvent}]
  /\ partOK \subseteq Months /\ partitions \subseteq Months
  /\ rows \in [Requests -> Nat]
  /\ failed \subseteq Requests

\* An event is written to request_logs at most once, although an insert may
\* fail after taking effect: run never tries an event again, and no two
\* workers get hold of the same one.  A bill never counts a request twice.
WrittenOnce == \A r \in Requests : rows[r] <= 1

\* The partition cache is never ahead of the database: a month in partOK has
\* its partition, so skipping the DDL never makes an insert fail.
PartitionCacheSound ==
  /\ partOK \subseteq partitions
  /\ \A w \in Workers : wpc[w] = "mark" => MonthOf[ev[w]] \in partitions

\* Every accepted event is settled: its row is there or its failure was logged.
AllSettled ==
  \A r \in Requests : handler[r] = "accepted" => rows[r] > 0 \/ r \in failed

\* "Stop drains and waits" (Worker's comment): when it reports a clean stop and
\* the workers' context was alive, nothing accepted is left in the queue or in
\* a worker's hands.
CleanStopFlushes == main = "clean" /\ ~ctxDone => AllSettled

\* No handler sends on the closed channel if httpSrv.Shutdown succeeded: Stop
\* runs after the last in-flight handler has emitted its event.
GracefulMeansNoPanic ==
  graceful => \A r \in Requests : handler[r] # "panicked"

\* As long as the context lives, an accepted event is eventually settled, even
\* if it was queued when Stop closed the channel.
EventsSettle ==
  \A r \in Requests :
    handler[r] = "accepted" ~> rows[r] > 0 \/ r \in failed \/ ctxDone

\* No consumer goroutine outlives the channel.
WorkersExit == closed ~> \A w \in Workers : wpc[w] = "exit"

\* buildBilling's comment: "The worker itself is stopped explicitly in main's
\* defer chain to flush in-flight events."  A stop reported as clean has flushed.
ShutdownFlushes == main = "clean" => AllSettled
=============================================================================
