------------------------- MODULE TableCacheProofs -------------------------
(***************************************************************************)
(* The two copies the gateway keeps of database tables: the snapshot of    *)
(* Pricing, and the verdicts on api_keys that AuthCache caches.            *)
(*                                                                         *)
(* For any models, rates and admins, the snapshot of Pricing is up to date *)
(* wherever it can be.                                                     *)
(*                                                                         *)
(* For any number of keys, clients and gateways and any TTLs, an outdated  *)
(* verdict is given no longer than one TTL.  OutdatedExpires speaks of the *)
(* cache only; a lookup in flight can put an outdated verdict there at any *)
(* time with a full TTL.  The inductive invariant VerdictsInv adds that    *)
(* such a lookup holds the clock `since` at zero, and that nobody ever saw *)
(* a key that has not been created.                                        *)
(***************************************************************************)
EXTENDS Pricing, AuthCache, TLAPS

-----------------------------------------------------------------------------
\* Pricing.

\* reloadMu excludes: whoever is at a statement or a swap holds it.
Exclusion ==
  /\ \A a \in Actors : pc[a] \in {"db", "swap"} => mu = a
  /\ pc[Reloader] # "fetch"

\* What the admins under way know of the table: their own rate is there unless
\* the ghosts say that somebody wrote after them.
WritesHold ==
  \A a \in Admins :
    /\ pc[a] \in {"swap", "fetch"} => table[model[a]] = rate[a] \/ a \in later
    /\ pc[a] = "swap" /\ model[a] \notin dirty => table[model[a]] = rate[a]
    /\ \A b \in Admins :
         pc[a] = "swap" /\ pc[b] = "fetch" /\ model[a] = model[b] => b \in later

\* What a Reload has read is current, or newer than what it could overwrite.
RowsHold ==
  pc[Reloader] = "swap" =>
    /\ \A m \in Models : m \notin behind => rows[m] = table[m]
    /\ \A a \in Admins :
         pc[a] = "fetch" => rows[model[a]] = rate[a] \/ a \in later

IInv ==
  /\ TypeOK /\ Exclusion /\ WritesHold /\ RowsHold
  /\ SnapshotTracksTable /\ AuditNotStale

\* NewPricingCache starts with an empty snapshot, nothing held and nobody busy.
LEMMA InitInv == Init => IInv
  BY PricingConstants, Zenon
  DEF Init, IInv, TypeOK, Entries, Exclusion, WritesHold, RowsHold,
      SnapshotTracksTable, AuditNotStale, Actors

\* Every step of the handlers, of Reload and of other writers keeps the types.
LEMMA NextType == TypeOK /\ [Next]_vars => TypeOK'
<1> SUFFICES ASSUME TypeOK, [Next]_vars PROVE TypeOK'
  BY Zenon
<1> USE PricingConstants DEF TypeOK, Entries, Actors, Goto, Return, callVars, ghosts
<1>1. ASSUME NEW a \in Admins, NEW m \in Models, NEW v \in Rates \cup {NoRate}, Call(a, m, v)
      PROVE TypeOK'
  BY <1>1, Zenon DEF Call
<1>2. ASSUME NEW a \in Actors, Lock(a) PROVE TypeOK'
  BY <1>2, Zenon DEF Lock
<1>3. ASSUME NEW a \in Admins, Handle(a) PROVE TypeOK'
  <2>1. CASE Exec(a)
    BY <2>1, Zenon DEF Exec, Writers
  <2>2. CASE DeleteNothing(a)
    BY <2>2, Zenon DEF DeleteNothing
  <2>3. CASE ExecFails(a)
    BY <2>3 DEF ExecFails, WriteUnseen, Writers
  <2>4. CASE ReplaceOne(a)
    BY <2>4, Zenon DEF ReplaceOne
  <2>5. CASE RemoveOne(a)
    BY <2>5, Zenon DEF RemoveOne
  <2>6. CASE Fetch(a)
    BY <2>6, Zenon DEF Fetch
  <2>7. QED BY <1>3, <2>1, <2>2, <2>3, <2>4, <2>5, <2>6 DEF Handle
<1>4. CASE ReloadCall
  BY <1>4, Zenon DEF ReloadCall
<1>5. CASE ReloadQuery
  BY <1>5, Zenon DEF ReloadQuery
<1>6. CASE ReloadFails
  BY <1>6 DEF ReloadFails, ReloadReturns
<1>7. CASE ReloadStore
  BY <1>7, Zenon DEF ReloadStore, ReloadReturns
<1>8. ASSUME NEW m \in Models, NEW v \in Rates \cup {NoRate}, WriteElsewhere(m, v)
      PROVE TypeOK'
  BY <1>8, Zenon DEF WriteElsewhere, WriteUnseen, Writers
<1>9. CASE UNCHANGED vars
  BY <1>9, Zenon DEF vars
<1>10. QED BY <1>1, <1>2, <1>3, <1>4, <1>5, <1>6, <1>7, <1>8, <1>9, Zenon DEF Next

\* Two actors are never between Lock and Unlock together.
LEMMA NextExclusion == TypeOK /\ Exclusion /\ [Next]_vars => Exclusion'
<1> SUFFICES ASSUME TypeOK, Exclusion, [Next]_vars PROVE Exclusion'
  BY Zenon
<1> USE PricingConstants DEF TypeOK, Exclusion, Actors, Goto, Return
<1>1. ASSUME NEW a \in Admins, NEW m \in Models, NEW v \in Rates \cup {NoRate}, Call(a, m, v)
      PROVE Exclusion'
  BY <1>1, Zenon DEF Call
<1>2. ASSUME NEW a \in Actors, Lock(a) PROVE Exclusion'
  BY <1>2, Zenon DEF Lock
<1>3. ASSUME NEW a \in Admins, Handle(a) PROVE Exclusion'
  <2>1. CASE Exec(a)
    BY <2>1, Zenon DEF Exec
  <2>2. CASE DeleteNothing(a)
    BY <2>2, Zenon DEF DeleteNothing
  <2>3. CASE ExecFails(a)
    BY <2>3, Zenon DEF ExecFails
  <2>4. CASE ReplaceOne(a)
    BY <2>4, Zenon DEF ReplaceOne
  <2>5. CASE RemoveOne(a)
    BY <2>5, Zenon DEF RemoveOne
  <2>6. CASE Fetch(a)
    BY <2>6, Zenon DEF Fetch
  <2>7. QED BY <1>3, <2>1, <2>2, <2>3, <2>4, <2>5, <2>6 DEF Handle
<1>4. CASE ReloadCall
  BY <1>4, Zenon DEF ReloadCall
<1>5. CASE ReloadQuery
  BY <1>5, Zenon DEF ReloadQuery
<1>6. CASE ReloadFails
  BY <1>6, Zenon DEF ReloadFails, ReloadReturns
<1>7. CASE ReloadStore
  BY <1>7, Zenon DEF ReloadStore, ReloadReturns
<1>8. ASSUME NEW m \in Models, NEW v \in Rates \cup {NoRate}, WriteElsewhere(m, v)
      PROVE Exclusion'
  BY <1>8, Zenon DEF WriteElsewhere
<1>9. CASE UNCHANGED vars
  BY <1>9, Zenon DEF vars
<1>10. QED BY <1>1, <1>2, <1>3, <1>4, <1>5, <1>6, <1>7, <1>8, <1>9 DEF Next

\* The part of the invariant that speaks of rates.
RatesHold == WritesHold /\ RowsHold /\ SnapshotTracksTable /\ AuditNotStale

\* Steps that write neither a row nor an entry, and after which no more admins
\* are at their swap or their lookup.
LEMMA IdleStep ==
  ASSUME IInv, table' = table, snap' = snap, dirty' = dirty,
         \A m \in Models : BeingWritten(m) => BeingWritten(m)',
         \A a \in Admins : pc'[a] \in {"swap", "fetch"} =>
           /\ pc'[a] = pc[a] /\ model'[a] = model[a] /\ rate'[a] = rate[a]
           /\ a \in later => a \in later',
         pc'[Reloader] = "swap" => rows' = rows /\ behind' = behind /\ pc[Reloader] = "swap"
  PROVE  RatesHold'
<1>1. WritesHold'
  BY DEF IInv, WritesHold
<1>2. RowsHold'
  BY Zenon DEF IInv, RowsHold
<1>3. SnapshotTracksTable'
  BY Zenon DEF IInv, SnapshotTracksTable
<1>4. AuditNotStale'
  BY Zenon DEF IInv, AuditNotStale
<1>5. QED BY <1>1, <1>2, <1>3, <1>4 DEF RatesHold

\* A row written without the snapshot: the ghosts take note of everyone concerned.
LEMMA UnseenStep ==
  ASSUME IInv, NEW n \in Models, NEW v \in Rates \cup {NoRate}, WriteUnseen(n, v),
         snap' = snap, UNCHANGED callVars, rows' = rows,
         \A a \in Actors : pc'[a] \in {pc[a], "idle"},
         \A a \in Actors : pc[a] = "swap" => pc'[a] = pc[a]
  PROVE  RatesHold'
<1> USE DEF IInv, TypeOK, Entries, Actors, callVars, WriteUnseen, Writers
<1>1. WritesHold'
  BY Zenon DEF WritesHold
<1>2. RowsHold'
  BY Zenon DEF RowsHold
<1>3. SnapshotTracksTable'
  <2> SUFFICES ASSUME NEW m \in Models, m \notin dirty', ~BeingWritten(m)'
               PROVE  snap'[m] = table'[m]
    BY Zenon DEF SnapshotTracksTable
  <2>1. ~BeingWritten(m)
    BY Zenon DEF BeingWritten
  <2>2. QED BY <2>1 DEF SnapshotTracksTable
<1>4. AuditNotStale'
  BY Zenon DEF AuditNotStale
<1>5. QED BY <1>1, <1>2, <1>3, <1>4 DEF RatesHold

\* The statement of Set or Delete: its row is excused until the swap, and whoever
\* wrote it before is overtaken.
LEMMA ExecStep == ASSUME IInv, NEW a \in Admins, Exec(a) PROVE RatesHold'
<1> USE PricingConstants DEF IInv, TypeOK, Entries, Actors, callVars, Exec, Goto, Writers
<1>0. mu = a /\ \A b \in Actors : b # a => pc[b] \notin {"db", "swap"} /\ pc'[b] = pc[b]
  BY Zenon DEF Exclusion
<1>1. WritesHold'
  BY <1>0, Zenon DEF WritesHold
<1>2. RowsHold'
  BY <1>0, Zenon DEF RowsHold
<1>3. SnapshotTracksTable'
  <2> SUFFICES ASSUME NEW m \in Models, m \notin dirty', ~BeingWritten(m)'
               PROVE  snap'[m] = table'[m]
    BY Zenon DEF SnapshotTracksTable
  <2>1. m # model[a]
    BY Zenon DEF BeingWritten
  <2>2. ~BeingWritten(m)
    BY <1>0, Zenon DEF BeingWritten
  <2>3. QED BY <2>1, <2>2 DEF SnapshotTracksTable
<1>4. AuditNotStale'
  BY <1>0, Zenon DEF AuditNotStale
<1>5. QED BY <1>1, <1>2, <1>3, <1>4 DEF RatesHold

\* replaceOne and removeOne put the admin's own rate into the snapshot, which the
\* table still has unless it was written elsewhere since.
LEMMA SwapStep ==
  ASSUME IInv, NEW a \in Admins, ReplaceOne(a) \/ RemoveOne(a) PROVE RatesHold'
<1> USE PricingConstants DEF IInv, TypeOK, Entries, Actors, callVars, ghosts, Return, Goto
<1>0. /\ pc[a] = "swap" /\ pc'[a] \in {"fetch", "idle"}
      /\ \A b \in Actors : b # a => pc[b] \notin {"db", "swap"} /\ pc'[b] = pc[b]
      /\ snap' = [snap EXCEPT ![model[a]] = rate[a]]
      /\ table' = table /\ dirty' = dirty /\ model' = model /\ rate' = rate
      /\ \A b \in Admins : b # a => (b \in later <=> b \in later')
      /\ pc'[a] = "fetch" => later' = later
  BY DEF Exclusion, ReplaceOne, RemoveOne
<1>1. WritesHold'
  BY <1>0, Zenon DEF WritesHold
<1>2. RowsHold'
  BY <1>0 DEF RowsHold
<1>3. SnapshotTracksTable'
  <2> SUFFICES ASSUME NEW m \in Models, m \notin dirty PROVE snap'[m] = table[m]
    BY <1>0, Zenon DEF SnapshotTracksTable
  <2>1. CASE m = model[a]
    BY <1>0, <2>1, Zenon DEF WritesHold
  <2>2. CASE m # model[a]
    BY <1>0, <2>2, Zenon DEF SnapshotTracksTable, BeingWritten
  <2>3. QED BY <2>1, <2>2
<1>4. AuditNotStale'
  BY <1>0, Zenon DEF AuditNotStale, WritesHold
<1>5. QED BY <1>1, <1>2, <1>3, <1>4 DEF RatesHold

\* The query of Reload reads the table as it is.
LEMMA QueryStep == ASSUME IInv, ReloadQuery PROVE RatesHold'
<1> USE PricingConstants DEF IInv, TypeOK, Entries, Actors, callVars, ghosts, ReloadQuery, Goto
<1>0. \A b \in Admins : pc'[b] = pc[b]
  BY Zenon
<1>1. WritesHold'
  BY <1>0, Zenon DEF WritesHold
<1>2. RowsHold'
  BY <1>0, Zenon DEF RowsHold, WritesHold
<1>3. SnapshotTracksTable' /\ AuditNotStale'
  BY <1>0, Zenon DEF SnapshotTracksTable, BeingWritten, AuditNotStale
<1>4. QED BY <1>1, <1>2, <1>3 DEF RatesHold

\* Reload's swap publishes rows that are current but for what was written since.
LEMMA StoreStep == ASSUME IInv, ReloadStore PROVE RatesHold'
<1> USE PricingConstants
    DEF IInv, TypeOK, Entries, Actors, callVars, ReloadStore, ReloadReturns, Return, Goto
<1>0. \A b \in Admins : pc'[b] = pc[b] /\ pc[b] # "swap"
  BY Zenon DEF Exclusion
<1>1. WritesHold'
  BY <1>0, Zenon DEF WritesHold
<1>2. RowsHold'
  BY Zenon DEF RowsHold
<1>3. SnapshotTracksTable' /\ AuditNotStale'
  BY <1>0, Zenon DEF RowsHold, SnapshotTracksTable, AuditNotStale
<1>4. QED BY <1>1, <1>2, <1>3 DEF RatesHold

\* Every step keeps the part of the invariant that speaks of rates.
LEMMA NextRates == IInv /\ [Next]_vars => RatesHold'
<1> SUFFICES ASSUME IInv, [Next]_vars PROVE RatesHold'
  BY Zenon
<1> USE PricingConstants DEF TypeOK, Actors, Goto, Return, callVars, ghosts
<1>0. TypeOK
  BY Zenon DEF IInv
<1>1. ASSUME NEW a \in Admins, NEW m \in Models, NEW v \in Rates \cup {NoRate}, Call(a, m, v)
      PROVE RatesHold'
  BY <1>0, <1>1, IdleStep, Zenon DEF Call, BeingWritten
<1>2. ASSUME NEW a \in Actors, Lock(a) PROVE RatesHold'
  BY <1>0, <1>2, IdleStep, Zenon DEF Lock, BeingWritten
<1>3. ASSUME NEW a \in Admins, Handle(a) PROVE RatesHold'
  <2>1. CASE Exec(a)
    BY <2>1, ExecStep, Zenon
  <2>2. CASE DeleteNothing(a)
    BY <1>0, <2>2, IdleStep, Zenon DEF DeleteNothing, BeingWritten
  <2>3. CASE ExecFails(a) /\ WriteUnseen(model[a], rate[a])
    BY <1>0, <2>3, UnseenStep, Zenon DEF ExecFails
  <2>4. CASE ExecFails(a) /\ UNCHANGED <<table, ghosts>>
    BY <1>0, <2>4, IdleStep, Zenon DEF ExecFails, BeingWritten
  <2>5. CASE ReplaceOne(a) \/ RemoveOne(a)
    BY <2>5, SwapStep, Zenon
  <2>6. CASE Fetch(a)
    BY <1>0, <2>6, IdleStep, Zenon DEF Fetch, BeingWritten
  <2>7. QED BY <1>3, <2>1, <2>2, <2>3, <2>4, <2>5, <2>6 DEF Handle, ExecFails
<1>4. CASE ReloadCall
  BY <1>0, <1>4, IdleStep, Zenon DEF ReloadCall, BeingWritten
<1>5. CASE ReloadQuery
  BY <1>5, QueryStep, Zenon
<1>6. CASE ReloadFails
  BY <1>0, <1>6, IdleStep, Zenon DEF ReloadFails, ReloadReturns, BeingWritten
<1>7. CASE ReloadStore
  BY <1>7, StoreStep, Zenon
<1>8. ASSUME NEW m \in Models, NEW v \in Rates \cup {NoRate}, WriteElsewhere(m, v)
      PROVE RatesHold'
  BY <1>0, <1>8, UnseenStep, Zenon DEF WriteElsewhere
<1>9. CASE UNCHANGED vars
  BY <1>0, <1>9, IdleStep, Zenon DEF vars, BeingWritten
<1>10. QED BY <1>1, <1>2, <1>3, <1>4, <1>5, <1>6, <1>7, <1>8, <1>9 DEF Next

\* The inductive invariant holds.
THEOREM InvHolds == Spec => []IInv
<1>1. IInv /\ [Next]_vars => IInv'
  BY NextType, NextExclusion, NextRates, Zenon DEF IInv, RatesHold
<1>2. QED BY InitInv, <1>1, PTL DEF Spec

\* Types of the rate table.
THEOREM TypeHolds == Spec => []TypeOK
  BY InvHolds, PTL DEF IInv

\* Set, Delete and Reload, in any order and with any failures, leave a snapshot
\* that differs from model_pricing only where somebody else wrote.
THEOREM SnapshotTracksTableHolds == Spec => []SnapshotTracksTable
  BY InvHolds, PTL DEF IInv

\* upsertPricing answers and audits its own rate or a newer one.
THEOREM AuditNotStaleHolds == Spec => []AuditNotStale
  BY InvHolds, PTL DEF IInv

-----------------------------------------------------------------------------
\* AuthCache.

\* What holds of one key.
KeyInv(k) ==
  /\ Outdated(k, cache[k]) => ttl[k] + since[k] <= Ttl(cache[k])
  /\ \A g \in Gateways : Outdated(k, flight[g][k]) => since[k] = 0
  /\ row[k] = "absent" => cache[k] # "pos" /\ \A g \in Gateways : flight[g][k] # "pos"
  /\ cache[k] # "none" => ttl[k] > 0

VerdictsInv == AuthTypeOK /\ \A k \in Keys : KeyInv(k)

\* The TTL of a verdict is a number no larger than LongAgo, and zero for anything
\* that is not a verdict.
LEMMA TtlType ==
  /\ LongAgo \in Nat
  /\ Ttl("pos") = PosTTL /\ Ttl("neg") = NegTTL /\ Ttl("none") = 0
  /\ PosTTL <= LongAgo /\ NegTTL <= LongAgo
  BY AuthConstants DEF LongAgo, Ttl

\* NewCached starts with an empty cache and no lookup.
LEMMA InitVerdicts == AuthInit => VerdictsInv
  BY TtlType DEF AuthInit, VerdictsInv, AuthTypeOK, KeyInv, Outdated

\* Steps that touch neither a row, nor the cache, nor a lookup's verdict.
LEMMA SameKeyInv ==
  ASSUME NEW k \in Keys, KeyInv(k),
         row'[k] = row[k], cache'[k] = cache[k], ttl'[k] = ttl[k], since'[k] = since[k],
         \A g \in Gateways : flight'[g][k] \in {flight[g][k], "none", "query", "err"}
  PROVE  KeyInv(k)'
  BY Zenon DEF KeyInv, Outdated, Ttl

\* Every step of a client, of a lookup, of the keystore or of the clock keeps the
\* types.
LEMMA NextAuthType == VerdictsInv /\ [AuthNext]_cacheVars => AuthTypeOK'
<1> SUFFICES ASSUME VerdictsInv, [AuthNext]_cacheVars PROVE AuthTypeOK'
  BY Zenon
<1> USE TtlType, AuthConstants DEF VerdictsInv, AuthTypeOK, keyVars, authVars
<1>1. ASSUME NEW c \in Callers, Hit(c) \/ Miss(c) \/ Join(c) PROVE AuthTypeOK'
  <2>1. CASE Hit(c)
    BY <2>1, Zenon DEF Hit, Answer
  <2>2. CASE Miss(c)
    BY <2>2, Zenon DEF Miss
  <2>3. CASE Join(c)
    BY <2>3 DEF Join
  <2>4. QED BY <1>1, <2>1, <2>2, <2>3
<1>2. ASSUME NEW c \in Callers, NEW k \in Keys, Begin(c, k) PROVE AuthTypeOK'
  BY <1>2, Zenon DEF Begin
<1>3. ASSUME NEW g \in Gateways, NEW k \in Keys, Query(g, k) \/ QueryFails(g, k)
      PROVE AuthTypeOK'
  <2>1. CASE Query(g, k)
    BY <2>1, Zenon DEF Query
  <2>2. CASE QueryFails(g, k)
    BY <2>2, Zenon DEF QueryFails
  <2>3. QED BY <1>3, <2>1, <2>2
<1>4. ASSUME NEW g \in Gateways, NEW k \in Keys, Write(g, k) PROVE AuthTypeOK'
  BY <1>4 DEF Write, Land, Answer
<1>5. ASSUME NEW g \in Gateways, NEW k \in Keys, WriteSkips(g, k) PROVE AuthTypeOK'
  BY <1>5, Zenon DEF WriteSkips, Land, Answer
<1>6. ASSUME NEW k \in Keys,
             Create(k) \/ RevokeCommit(k) \/ RevokeDelFails(k) \/ RevokeRowOnly(k)
      PROVE AuthTypeOK'
  <2>1. CASE Create(k)
    BY <2>1 DEF Create
  <2>2. CASE RevokeCommit(k)
    BY <2>2 DEF RevokeCommit, SetRevoked
  <2>3. CASE RevokeDelFails(k)
    BY <2>3, Zenon DEF RevokeDelFails
  <2>4. CASE RevokeRowOnly(k)
    BY <2>4 DEF RevokeRowOnly, SetRevoked
  <2>5. QED BY <1>6, <2>1, <2>2, <2>3, <2>4
<1>7. ASSUME NEW k \in Keys, RevokeDel(k) PROVE AuthTypeOK'
  BY <1>7 DEF RevokeDel
<1>8. CASE Tick
  BY <1>8 DEF Tick, Ttl
<1>9. CASE UNCHANGED cacheVars
  BY <1>9, Zenon DEF cacheVars
<1>10. QED
  BY <1>1, <1>2, <1>3, <1>4, <1>5, <1>6, <1>7, <1>8, <1>9, Zenon DEF AuthNext, Finish

\* ... and the invariant of every key.
LEMMA NextKeyInv ==
  ASSUME VerdictsInv, [AuthNext]_cacheVars, NEW k \in Keys PROVE KeyInv(k)'
<1> USE DEF VerdictsInv, keyVars, authVars
<1>1. ASSUME NEW c \in Callers, Hit(c) \/ Miss(c) \/ Join(c) PROVE KeyInv(k)'
  <2>1. \A g \in Gateways : flight'[g][k] \in {flight[g][k], "query"}
    BY <1>1 DEF Hit, Miss, Join, AuthTypeOK
  <2>2. QED BY <1>1, <2>1, SameKeyInv DEF Hit, Miss, Join
<1>2. ASSUME NEW c \in Callers, NEW j \in Keys, Begin(c, j) PROVE KeyInv(k)'
  BY <1>2, SameKeyInv, Zenon DEF Begin
<1>3. ASSUME NEW h \in Gateways, NEW j \in Keys, Query(h, j) PROVE KeyInv(k)'
  BY <1>3 DEF Query, KeyInv, Outdated, AuthTypeOK
<1>4. ASSUME NEW h \in Gateways, NEW j \in Keys, QueryFails(h, j) PROVE KeyInv(k)'
  <2>1. \A g \in Gateways : flight'[g][k] \in {flight[g][k], "err"}
    BY <1>4, Zenon DEF QueryFails, AuthTypeOK
  <2>2. QED BY <1>4, <2>1, SameKeyInv DEF QueryFails
<1>5. ASSUME NEW h \in Gateways, NEW j \in Keys, Finish(h, j) PROVE KeyInv(k)'
  <2>1. \A g \in Gateways : flight'[g][k] \in {flight[g][k], "none"}
    <3>1. flight' = [flight EXCEPT ![h][j] = "none"]
      BY <1>5, Zenon DEF Finish, Write, WriteSkips, Land
    <3>2. DOMAIN flight = Gateways /\ \A g \in Gateways : DOMAIN flight[g] = Keys
      BY Zenon DEF VerdictsInv, AuthTypeOK
    <3> QED BY <3>1, <3>2
  <2>2. CASE WriteSkips(h, j) \/ j # k
    <3>1. cache'[k] = cache[k] /\ ttl'[k] = ttl[k]
      BY <1>5, <2>2, Zenon DEF Finish, Write, WriteSkips, AuthTypeOK
    <3>2. QED BY <1>5, <2>1, <3>1, SameKeyInv DEF Finish, Write, WriteSkips
  <2>3. CASE Write(h, j) /\ j = k
    <3>1. /\ cache'[k] = flight[h][k] /\ flight[h][k] \in {"pos", "neg"}
          /\ ttl'[k] = Ttl(flight[h][k]) /\ Ttl(flight[h][k]) > 0
          /\ row' = row /\ since' = since
      BY <2>3, Zenon DEF Write, AuthTypeOK
    <3>2. QED BY <2>1, <3>1, TtlType, AuthConstants DEF KeyInv, Outdated, AuthTypeOK
  <2>4. QED BY <1>5, <2>2, <2>3 DEF Finish
<1>6. ASSUME NEW j \in Keys, Create(j) PROVE KeyInv(k)'
  BY <1>6, TtlType, AuthConstants DEF Create, KeyInv, Outdated, AuthTypeOK
<1>7. ASSUME NEW j \in Keys, RevokeCommit(j) \/ RevokeRowOnly(j) PROVE KeyInv(k)'
  <2>1. /\ UNCHANGED <<cache, ttl, flight>>
        /\ row[j] # "absent"
        /\ SetRevoked(j)
    BY <1>7, Zenon DEF RevokeCommit, RevokeRowOnly
  <2>2. CASE j = k
    BY <2>1, <2>2, TtlType, AuthConstants DEF SetRevoked, KeyInv, Outdated, AuthTypeOK
  <2>3. CASE j # k
    BY <2>1, <2>3, SameKeyInv, Zenon DEF SetRevoked, AuthTypeOK
  <2>4. QED BY <2>2, <2>3
<1>8. ASSUME NEW j \in Keys, RevokeDel(j) PROVE KeyInv(k)'
  BY <1>8, Zenon DEF RevokeDel, KeyInv, Outdated, AuthTypeOK
<1>9. ASSUME NEW j \in Keys, RevokeDelFails(j) PROVE KeyInv(k)'
  BY <1>9, SameKeyInv, Zenon DEF RevokeDelFails
<1>10. CASE Tick
  <2>1. /\ row' = row /\ flight' = flight
        /\ cache'[k] = IF ttl[k] > 1 THEN cache[k] ELSE "none"
        /\ ttl'[k] = IF ttl[k] > 0 THEN ttl[k] - 1 ELSE 0
        /\ since'[k] = IF Pending(k) \/ since[k] >= LongAgo THEN since[k] ELSE since[k] + 1
    BY <1>10, Zenon DEF Tick
  <2>2. \A g \in Gateways : Outdated(k, flight[g][k]) => since'[k] = 0
    BY <2>1, Zenon DEF Pending, KeyInv
  <2>3. since'[k] \in Nat /\ since'[k] <= since[k] + 1 /\ ttl[k] \in Nat
    BY <2>1, TtlType DEF AuthTypeOK
  <2>4. CASE ttl[k] > 1
    BY <2>1, <2>2, <2>3, <2>4, TtlType, AuthConstants DEF KeyInv, Outdated, AuthTypeOK
  <2>5. CASE ~(ttl[k] > 1)
    BY <2>1, <2>2, <2>5, Zenon DEF KeyInv, Outdated
  <2>6. QED BY <2>4, <2>5
<1>11. CASE UNCHANGED cacheVars
  BY <1>11, SameKeyInv, Zenon DEF cacheVars
<1>12. QED
  BY <1>1, <1>2, <1>3, <1>4, <1>5, <1>6, <1>7, <1>8, <1>9, <1>10, <1>11, Zenon DEF AuthNext

\* The inductive invariant holds in every behaviour of the authenticator.
THEOREM VerdictsHold == AuthSpec => []VerdictsInv
<1>1. VerdictsInv /\ [AuthNext]_cacheVars => VerdictsInv'
  BY NextAuthType, NextKeyInv, Zenon DEF VerdictsInv
<1>2. QED BY InitVerdicts, <1>1, PTL DEF AuthSpec

\* The types of cache, lookups and clients; no entry lives longer than the TTL
\* CachedAuthenticator.write gives it.
THEOREM AuthTypeHolds == AuthSpec => []AuthTypeOK
  BY VerdictsHold, PTL DEF VerdictsInv

\* A cached verdict that contradicts api_keys is gone within one TTL window of
\* the change, however authentications and revocations interleave.
THEOREM OutdatedExpiresHolds == AuthSpec => []OutdatedExpires
<1>1. VerdictsInv => OutdatedExpires
  BY Zenon DEF VerdictsInv, KeyInv, OutdatedExpires
<1>2. QED BY <1>1, VerdictsHold, PTL

\* No client is let in with a key revoked more than posTTL ago, or refused with
\* one created more than negTTL ago, and backend failures yield neither verdict.
THEOREM AnswerFreshHolds == AuthSpec => AnswerFresh
<1> DEFINE Fair(c) ==
      /\ res'[c] = "ok" =>
           row[key[c]] = "active" \/ since[key[c]] = 0 \/ since[key[c]] < PosTTL
      /\ res'[c] = "denied" =>
           row[key[c]] # "active" \/ since[key[c]] = 0 \/ since[key[c]] < NegTTL
<1>1. ASSUME VerdictsInv, [AuthNext]_cacheVars, NEW c \in Callers, res'[c] # res[c] PROVE Fair(c)
  <2> USE DEF VerdictsInv, keyVars, authVars
  <2>1. ASSUME NEW d \in Callers, Hit(d) PROVE Fair(c)
    <3>1. d = c /\ res'[c] = Answer(cache[key[c]]) /\ key[c] \in Keys
      BY <1>1, <2>1, Zenon DEF Hit, AuthTypeOK
    <3>2. /\ ttl[key[c]] \in Nat /\ since[key[c]] \in Nat
          /\ KeyInv(key[c])
          /\ cache[key[c]] \in {"pos", "neg"}
      BY <1>1, <2>1, <3>1, TtlType DEF Hit, AuthTypeOK
    <3>3. Outdated(key[c], cache[key[c]]) => since[key[c]] < Ttl(cache[key[c]])
      BY <3>2, TtlType, AuthConstants DEF KeyInv
    <3>4. QED BY <3>1, <3>2, <3>3, TtlType DEF Answer, Outdated
  <2>2. ASSUME NEW g \in Gateways, NEW k \in Keys, Finish(g, k) PROVE Fair(c)
    <3>1. /\ key[c] = k /\ res'[c] = Answer(flight[g][k])
          /\ flight[g][k] \in {"pos", "neg", "err"}
      BY <1>1, <2>2 DEF Finish, Write, WriteSkips, Land, Waiting, AuthTypeOK
    <3>2. Outdated(k, flight[g][k]) => since[k] = 0
      BY <1>1, Zenon DEF KeyInv
    <3>3. QED BY <3>1, <3>2 DEF Answer, Outdated
  <2>3. ASSUME NEW d \in Callers, NEW k \in Keys, Begin(d, k) PROVE Fair(c)
    BY <1>1, <2>3, Zenon DEF Begin, AuthTypeOK
  <2>4. QED
    <3>1. ASSUME res' = res PROVE FALSE
      BY <1>1, <3>1, Zenon
    <3>2. QED
      BY <1>1, <2>1, <2>2, <2>3, <3>1, Zenon
         DEF AuthNext, Miss, Join, Query, QueryFails, Create, RevokeCommit, RevokeDel,
             RevokeDelFails, RevokeRowOnly, Tick, cacheVars
<1>2. VerdictsInv /\ [AuthNext]_cacheVars =>
        [\A c \in Callers :
           LET k == key[c] IN
             res'[c] # res[c] =>
               /\ res'[c] = "ok" =>
                    row[k] = "active" \/ since[k] = 0 \/ since[k] < PosTTL
               /\ res'[c] = "denied" =>
                    row[k] # "active" \/ since[k] = 0 \/ since[k] < NegTTL]_cacheVars
  BY <1>1, Zenon
<1>3. QED BY <1>2, VerdictsHold, PTL DEF AuthSpec, AnswerFresh
=============================================================================
