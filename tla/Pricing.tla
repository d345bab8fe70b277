------------------------------ MODULE Pricing ------------------------------
(***************************************************************************)
(* The rate table: model_pricing in Postgres and the snapshot one gateway  *)
(* keeps of it (internal/billing/pricing.go), with the admin handlers that *)
(* write it (internal/server/admin_pricing.go), the periodic reload, and   *)
(* writers elsewhere (xbctl pricing, other gateways) that change the table *)
(* and not this snapshot.                                                  *)
(*                                                                         *)
(* A rate is a model value.  Set, Delete and Reload hold reloadMu over     *)
(* their statement and the change of the snapshot; a statement can fail,   *)
(* and an INSERT or DELETE can fail after it took effect.  A call that     *)
(* deletes is one with NoRate.  Arguments that are refused before the lock *)
(* is taken change nothing and are left out.                               *)
(***************************************************************************)
EXTENDS FiniteSets

CONSTANTS
  Models,
  Rates,
  NoRate,        \* the model has no row, or no entry
  Admins,        \* handlers of PUT and DELETE /admin/pricing/{model}
  Reloader,      \* the PeriodicReload goroutine
  Nobody         \* reloadMu is free

ASSUME PricingConstants ==
  /\ NoRate \notin Rates
  /\ Reloader \notin Admins
  /\ Nobody \notin Admins \cup {Reloader}

Actors == Admins \cup {Reloader}
Entries == [Models -> Rates \cup {NoRate}]

VARIABLES
  table,         \* model_pricing
  snap,          \* snapshot
  mu,            \* the holder of reloadMu
  pc,            \* idle, lock, db, swap, fetch
  model,         \* the model an admin writes ...
  rate,          \* ... and the rate
  rows,          \* what Reload has read
  dirty,         \* models whose row the snapshot has not caught up with
  behind,        \* models written since the query of the Reload under way
  later          \* admins whose row was written again after their statement

callVars == <<model, rate>>
ghosts == <<dirty, behind, later>>
vars == <<table, snap, mu, pc, callVars, rows, ghosts>>

\* NewPricingCache: nothing is priced until the first Reload.
Init ==
  /\ table \in Entries
  /\ snap = [m \in Models |-> NoRate]
  /\ mu = Nobody
  /\ pc = [a \in Actors |-> "idle"]
  /\ model \in [Admins -> Models]
  /\ rate = [a \in Admins |-> NoRate]
  /\ rows = [m \in Models |-> NoRate]
  /\ dirty = {m \in Models : table[m] # NoRate}
  /\ behind = {}
  /\ later = {}

Goto(a, from, to) == pc[a] = from /\ pc' = [pc EXCEPT ![a] = to]

\* Mutant: the statement does not wait for reloadMu.
LockIgnored(a) ==
  /\ Goto(a, "lock", "db")
  /\ mu' = a
  /\ UNCHANGED <<table, snap, callVars, rows, ghosts>>

Lock(a) ==
  /\ Goto(a, "lock", "db")
  /\ mu = Nobody
  /\ mu' = a
  /\ UNCHANGED <<table, snap, callVars, rows, ghosts>>

\* The call ends and the deferred Unlock runs.
Return(a, from, to) == Goto(a, from, to) /\ mu' = Nobody

\* Admins that have written m and not answered yet.
Writers(m) == {a \in Admins : pc[a] \in {"swap", "fetch"} /\ model[a] = m}

\* A row is written behind the back of the snapshot.
WriteUnseen(m, v) ==
  /\ table' = [table EXCEPT ![m] = v]
  /\ dirty' = dirty \cup {m}
  /\ behind' = IF pc[Reloader] = "swap" THEN behind \cup {m} ELSE {}
  /\ later' = later \cup Writers(m)

-----------------------------------------------------------------------------
\* Set and Delete.

Call(a, m, v) ==
  /\ Goto(a, "idle", "lock")
  /\ model' = [model EXCEPT ![a] = m]
  /\ rate' = [rate EXCEPT ![a] = v]
  /\ UNCHANGED <<table, snap, mu, rows, ghosts>>

\* The upsert, or the DELETE of a row that is there.
Exec(a) ==
  /\ Goto(a, "db", "swap")
  /\ rate[a] # NoRate \/ table[model[a]] # NoRate
  /\ table' = [table EXCEPT ![model[a]] = rate[a]]
  /\ dirty' = dirty \ {model[a]}
  /\ later' = later \cup Writers(model[a])
  /\ UNCHANGED <<snap, mu, callVars, rows, behind>>

\* RowsAffected() == 0: the handler answers 404 and the snapshot stays.
DeleteNothing(a) ==
  /\ Return(a, "db", "idle")
  /\ rate[a] = NoRate /\ table[model[a]] = NoRate
  /\ UNCHANGED <<table, snap, callVars, rows, ghosts>>

\* Mutant: the handler does not look at the error of Set.
ExecFailsIgnored(a) ==
  /\ Return(a, "db", "fetch")
  /\ UNCHANGED <<table, snap, callVars, rows, ghosts>>

\* The statement fails, or takes effect and its answer is lost.
ExecFails(a) ==
  /\ Return(a, "db", "idle")
  /\ \/ WriteUnseen(model[a], rate[a])
     \/ UNCHANGED <<table, ghosts>>
  /\ UNCHANGED <<snap, callVars, rows>>

ReplaceOne(a) ==
  /\ rate[a] # NoRate
  /\ Return(a, "swap", "fetch")
  /\ snap' = [snap EXCEPT ![model[a]] = rate[a]]
  /\ UNCHANGED <<table, callVars, rows, ghosts>>

RemoveOne(a) ==
  /\ rate[a] = NoRate
  /\ Return(a, "swap", "idle")
  /\ snap' = [snap EXCEPT ![model[a]] = NoRate]
  /\ later' = later \ {a}
  /\ UNCHANGED <<table, callVars, rows, dirty, behind>>

\* upsertPricing looks the model up again, without the lock, for the audit entry
\* and the response.
Fetch(a) ==
  /\ Goto(a, "fetch", "idle")
  /\ later' = later \ {a}
  /\ UNCHANGED <<table, snap, mu, callVars, rows, dirty, behind>>

Handle(a) ==
  \/ Exec(a) \/ DeleteNothing(a) \/ ExecFails(a)
  \/ ReplaceOne(a) \/ RemoveOne(a) \/ Fetch(a)

-----------------------------------------------------------------------------
\* Reload.

\* The ticker fires (Reload of buildBilling is the first call).
ReloadCall ==
  /\ Goto(Reloader, "idle", "lock")
  /\ UNCHANGED <<table, snap, mu, callVars, rows, ghosts>>

ReloadQuery ==
  /\ Goto(Reloader, "db", "swap")
  /\ rows' = table
  /\ UNCHANGED <<table, snap, mu, callVars, ghosts>>

\* Reload returns; what it read is garbage.
ReloadReturns(from) ==
  /\ Return(Reloader, from, "idle")
  /\ rows' = [m \in Models |-> NoRate]
  /\ behind' = {}

\* Query, Scan or rows.Err() fails: the snapshot stays.
ReloadFails ==
  /\ ReloadReturns("db") \/ ReloadReturns("swap")
  /\ UNCHANGED <<table, snap, callVars, dirty, later>>

\* Mutant: the rows are merged into the snapshot, which keeps what was deleted.
ReloadMerges ==
  /\ ReloadReturns("swap")
  /\ snap' = [m \in Models |-> IF rows[m] = NoRate THEN snap[m] ELSE rows[m]]
  /\ dirty' = behind \cup {m \in dirty : rows[m] = NoRate}
  /\ UNCHANGED <<table, callVars, later>>

ReloadStore ==
  /\ ReloadReturns("swap")
  /\ snap' = rows
  /\ dirty' = behind
  /\ UNCHANGED <<table, callVars, later>>

\* xbctl pricing set or delete, or another gateway.
WriteElsewhere(m, v) ==
  /\ table[m] # v
  /\ WriteUnseen(m, v)
  /\ UNCHANGED <<snap, mu, pc, callVars, rows>>

-----------------------------------------------------------------------------
Next ==
  \/ \E a \in Admins, m \in Models, v \in Rates \cup {NoRate} : Call(a, m, v)
  \/ \E a \in Actors : Lock(a)
  \/ \E a \in Admins : Handle(a)
  \/ ReloadCall \/ ReloadQuery \/ ReloadFails \/ ReloadStore
  \/ \E m \in Models, v \in Rates \cup {NoRate} : WriteElsewhere(m, v)

Spec == Init /\ [][Next]_vars

\* Statements return, a mutex released again and again is granted in the end
\* (sync.Mutex hands over to whoever starves), the ticker keeps firing, and the
\* database does not fail every reload.
FairSpec ==
  /\ Spec
  /\ \A a \in Actors : SF_vars(Lock(a))
  /\ \A a \in Admins : WF_vars(Handle(a))
  /\ WF_vars(ReloadCall) /\ WF_vars(ReloadQuery \/ ReloadStore)
  /\ SF_vars(ReloadQuery) /\ SF_vars(ReloadStore)

-----------------------------------------------------------------------------
TypeOK ==
  /\ table \in Entries /\ snap \in Entries /\ rows \in Entries
  /\ mu \in Actors \cup {Nobody}
  /\ pc \in [Actors -> {"idle", "lock", "db", "swap", "fetch"}]
  /\ model \in [Admins -> Models]
  /\ rate \in [Admins -> Rates \cup {NoRate}]
  /\ dirty \subseteq Models /\ behind \subseteq Models
  /\ later \subseteq Admins

\* The statement on m is done and the entry not replaced yet.
BeingWritten(m) == \E a \in Admins : pc[a] = "swap" /\ model[a] = m

\* The snapshot agrees with the table on every model, except one written since by
\* somebody else or by a statement whose answer was lost, and except the one the
\* holder of reloadMu is writing: no order of Set, Delete and Reload puts an
\* older rate over a newer one, or loses one ("write-write torn snapshots").
SnapshotTracksTable ==
  \A m \in Models : m \notin dirty /\ ~BeingWritten(m) => snap[m] = table[m]

\* What upsertPricing finds when it looks its model up again, after giving up the
\* lock, is the rate it set itself or a newer one: no reload that began earlier
\* puts back the old rate, so the audit entry never names a rate of the past.
AuditNotStale ==
  \A a \in Admins :
    pc[a] = "fetch" => snap[model[a]] = rate[a] \/ a \in later

\* "Multi-instance deployments get bottom-line consistency from the periodic
\* reload": once nobody else writes the table, the snapshot is all of it, again
\* and again, whatever the admins do and however many answers are lost.
SnapshotHeals ==
  <>[][\A m \in Models, v \in Rates \cup {NoRate} : ~WriteElsewhere(m, v)]_vars
    => []<>(snap = table)
=============================================================================
