------------------------------ MODULE Registry ------------------------------
(***************************************************************************)
(* The provider registry and its hot reload: internal/provider/registry,   *)
(* the reload and listing handlers (internal/server/admin_providers.go),   *)
(* loadRegistry at startup (cmd/gateway/handlers.go) and the two look-ups  *)
(* a request makes, ResolveModel in the handler and ResolveChain in the    *)
(* router, each on whatever table is installed then.                       *)
(*                                                                         *)
(* providers.yaml is edited while the gateway runs and is read as it is at *)
(* that time, so a half-written file is one of Files.  A file is NoFile,   *)
(* or [yaml, providers, default] with the providers in declaration order,  *)
(* each [name, type, key, exact, glob].  path.Match is Globs, the pairs    *)
(* <<pattern, model>> that match, and BadPatterns, the malformed patterns. *)
(***************************************************************************)
EXTENDS Integers, Sequences, FiniteSets, Functions, TLC

CONSTANTS
  Files, Models, Globs, BadPatterns,
  NoFile,        \* providers.yaml does not exist
  NoDefault,    \* default_provider is not set
  Wanted,        \* Wanted[c]: the model client c asks for
  Reloaders,     \* calls of POST /admin/providers/reload
  Viewers,       \* calls of GET /admin/providers
  MaxEdits       \* bound: edits of the file

VARIABLES
  file,          \* what is on disk
  written,       \* everything that was
  table,         \* Registry.state
  source,        \* the file it was built from, NoFile for an empty one
  reload,        \* per reloader: idle, swap, names, models, done, rejected
  fresh,         \* the registry Load returned to it
  report,        \* the names and models it answers with and audits
  client,        \* per client: idle, resolved, refused, routed, failed
  chain,         \* the chain the router got for it
  view,          \* per viewer: idle, names, done
  owned,         \* the models by owner it has read
  rows           \* the listing it answers with

Clients == DOMAIN Wanted
registryVars == <<file, written, table, source, reload, fresh, report, client, chain,
                  view, owned, rows>>

-----------------------------------------------------------------------------
\* loader.go.

\* validateProviderConfig; an unset string is "".
ValidProviderConfig(pc) ==
  pc.name # "" /\ pc.type # "" /\ (pc.exact # <<>> \/ pc.glob # <<>>)

\* constructProvider and the adapters' New.
Constructs(pc) == pc.type \in {"openai", "deepseek", "anthropic"} /\ pc.key

EmptyTable ==
  [names |-> <<>>, byName |-> <<>>, exactIndex |-> <<>>, globRules |-> <<>>,
   defaultProvider |-> NoDefault]

\* One pass of build's loop, over a table and the count of errors so far.
AddProvider(b, pc) ==
  LET t == b.table
      claimed == {i \in DOMAIN pc.exact :
                    \/ pc.exact[i] \in DOMAIN t.exactIndex
                    \/ \E j \in 1 .. i - 1 : pc.exact[j] = pc.exact[i]}
      mine == Range(pc.exact) \ DOMAIN t.exactIndex
      globs == SelectSeq(pc.glob, LAMBDA g : g \notin BadPatterns) IN
  IF ~ValidProviderConfig(pc) \/ pc.name \in DOMAIN t.byName \/ ~Constructs(pc)
  THEN [b EXCEPT !.errs = @ + 1]
  ELSE [errs |-> b.errs + Cardinality(claimed) + Len(pc.glob) - Len(globs),
        table |-> [t EXCEPT
          !.names = Append(@, pc.name),
          !.byName = (pc.name :> pc) @@ @,
          !.exactIndex = [m \in mine |-> pc.name] @@ @,
          !.globRules = @ \o [i \in DOMAIN globs |->
                                [pattern |-> globs[i], provider |-> pc.name]]]]

\* build over the whole file, errors included.
Attempt(f) ==
  LET built[n \in 0 .. Len(f.providers)] ==
        IF n = 0 THEN [table |-> EmptyTable, errs |-> 0]
        ELSE AddProvider(built[n - 1], f.providers[n])
      b == built[Len(f.providers)] IN
  IF f.default = NoDefault THEN b
  ELSE IF f.default \in DOMAIN b.table.byName
       THEN [b EXCEPT !.table.defaultProvider = f.default]
       ELSE [b EXCEPT !.errs = @ + 1]

\* Load: does it return a registry, and with which table.
Loads(f) == f # NoFile /\ f.yaml /\ f.providers # <<>> /\ Attempt(f).errs = 0
Load(f) == Attempt(f).table

-----------------------------------------------------------------------------
\* registry.go, each on one table.

\* Mutant: a provider with several matching rules is tried several times.
AddAlways(ps, p) == IF p = NoDefault THEN ps ELSE Append(ps, p)

\* add in ResolveChain.
AddOnce(ps, p) == IF p = NoDefault \/ p \in Range(ps) THEN ps ELSE Append(ps, p)

ResolveChain(t, m) ==
  LET exact == IF m \in DOMAIN t.exactIndex THEN <<t.exactIndex[m]>> ELSE <<>>
      matched == SelectSeq(t.globRules, LAMBDA rule : <<rule.pattern, m>> \in Globs)
      candidates ==
        exact \o [i \in DOMAIN matched |-> matched[i].provider] \o <<t.defaultProvider>>
      added[n \in 0 .. Len(candidates)] ==
        IF n = 0 THEN <<>> ELSE AddOnce(added[n - 1], candidates[n]) IN
  added[Len(candidates)]

\* ResolveModel succeeds.
Resolves(t, m) == ResolveChain(t, m) # <<>>

\* AllModels: the exact models, each with its owner's kind (owned_by).
AllModels(t) ==
  {[id |-> m, ownedBy |-> t.byName[t.exactIndex[m]].type] : m \in DOMAIN t.exactIndex}

-----------------------------------------------------------------------------
\* loadRegistry: any error but a missing file is fatal.
RegistryInit ==
  /\ file \in {f \in Files \cup {NoFile} : f = NoFile \/ Loads(f)}
  /\ written = {file}
  /\ table = IF file = NoFile THEN EmptyTable ELSE Load(file)
  /\ source = file
  /\ reload = [r \in Reloaders |-> "idle"]
  /\ fresh = [r \in Reloaders |-> [table |-> EmptyTable, source |-> NoFile]]
  /\ report = [r \in Reloaders |-> [names |-> <<>>, models |-> 0]]
  /\ client = [c \in Clients |-> "idle"]
  /\ chain = [c \in Clients |-> <<>>]
  /\ view = [v \in Viewers |-> "idle"]
  /\ owned = [v \in Viewers |-> {}]
  /\ rows = [v \in Viewers |-> <<>>]

\* Someone saves providers.yaml, or a part of it.
EditFile(f) ==
  /\ Cardinality(written) <= MaxEdits
  /\ f # file
  /\ file' = f
  /\ written' = written \cup {f}
  /\ UNCHANGED <<table, source, reload, fresh, report, client, chain, view, owned, rows>>

-----------------------------------------------------------------------------
\* adminProvidersReloadHandler.

\* Mutant: what could be built of a bad file is installed.
LoadFileAnyway(r) ==
  /\ reload[r] = "idle"
  /\ file # NoFile
  /\ fresh' = [fresh EXCEPT ![r] = [table |-> Load(file), source |-> file]]
  /\ reload' = [reload EXCEPT ![r] = "swap"]
  /\ UNCHANGED <<file, written, table, source, report, client, chain, view, owned, rows>>

\* registry.Load; an error leaves the registry alone and is the answer.
LoadFile(r) ==
  /\ reload[r] = "idle"
  /\ \/ /\ Loads(file)
        /\ fresh' = [fresh EXCEPT ![r] = [table |-> Load(file), source |-> file]]
        /\ reload' = [reload EXCEPT ![r] = "swap"]
     \/ /\ ~Loads(file)
        /\ reload' = [reload EXCEPT ![r] = "rejected"]
        /\ UNCHANGED fresh
  /\ UNCHANGED <<file, written, table, source, report, client, chain, view, owned, rows>>

\* reg.Swap.
Swap(r) ==
  /\ reload[r] = "swap"
  /\ table' = fresh[r].table
  /\ source' = fresh[r].source
  /\ reload' = [reload EXCEPT ![r] = "names"]
  /\ UNCHANGED <<file, written, fresh, report, client, chain, view, owned, rows>>

\* reg.Names and then reg.AllModels, for the audit row and the answer.
ReportNames(r) ==
  /\ reload[r] = "names"
  /\ report' = [report EXCEPT ![r].names = table.names]
  /\ reload' = [reload EXCEPT ![r] = "models"]
  /\ UNCHANGED <<file, written, table, source, fresh, client, chain, view, owned, rows>>

ReportModels(r) ==
  /\ reload[r] = "models"
  /\ report' = [report EXCEPT ![r].models = Cardinality(AllModels(table))]
  /\ reload' = [reload EXCEPT ![r] = "done"]
  /\ UNCHANGED <<file, written, table, source, fresh, client, chain, view, owned, rows>>

-----------------------------------------------------------------------------
\* A chat request.

\* ResolveModel in the handler: 400 model_not_found when it fails.
Resolve(c) ==
  /\ client[c] = "idle"
  /\ client' = [client EXCEPT ![c] = IF Resolves(table, Wanted[c]) THEN "resolved"
                                     ELSE "refused"]
  /\ UNCHANGED <<file, written, table, source, reload, fresh, report, chain, view, owned,
                 rows>>

\* ResolveChain in the router.
Route(c) ==
  /\ client[c] = "resolved"
  /\ chain' = [chain EXCEPT ![c] = ResolveChain(table, Wanted[c])]
  /\ client' = [client EXCEPT ![c] = IF chain'[c] = <<>> THEN "failed" ELSE "routed"]
  /\ UNCHANGED <<file, written, table, source, reload, fresh, report, view, owned, rows>>

-----------------------------------------------------------------------------
\* adminProvidersHandler: AllModels, grouped by owned_by, and then Names.

ViewModels(v) ==
  /\ view[v] = "idle"
  /\ owned' = [owned EXCEPT ![v] = AllModels(table)]
  /\ view' = [view EXCEPT ![v] = "names"]
  /\ UNCHANGED <<file, written, table, source, reload, fresh, report, client, chain, rows>>

ViewNames(v) ==
  /\ view[v] = "names"
  /\ rows' = [rows EXCEPT ![v] =
                [i \in DOMAIN table.names |->
                   [name |-> table.names[i],
                    models |-> {m.id : m \in {n \in owned[v] : n.ownedBy = table.names[i]}}]]]
  /\ view' = [view EXCEPT ![v] = "done"]
  /\ UNCHANGED <<file, written, table, source, reload, fresh, report, client, chain, owned>>

-----------------------------------------------------------------------------
RegistryDone ==
  /\ \A r \in Reloaders : reload[r] \in {"done", "rejected"}
  /\ \A c \in Clients : client[c] \in {"refused", "routed", "failed"}
  /\ \A v \in Viewers : view[v] = "done"
  /\ UNCHANGED registryVars

RegistryNext ==
  \/ \E f \in Files : EditFile(f)
  \/ \E r \in Reloaders : LoadFile(r) \/ Swap(r) \/ ReportNames(r) \/ ReportModels(r)
  \/ \E c \in Clients : Resolve(c) \/ Route(c)
  \/ \E v \in Viewers : ViewModels(v) \/ ViewNames(v)
  \/ RegistryDone

RegistrySpec == RegistryInit /\ [][RegistryNext]_registryVars

-----------------------------------------------------------------------------
\* What providers.yaml says, read off the file itself: the providers that claim
\* a model, and the place each has in its chain.
Claims(pc, m) == m \in Range(pc.exact)
Covers(pc, m) == \E g \in Range(pc.glob) : <<g, m>> \in Globs

Place(f, i, m) ==
  IF Claims(f.providers[i], m) THEN 0
  ELSE IF Covers(f.providers[i], m) THEN i ELSE Len(f.providers) + 1

Chain(f, m) ==
  LET able == {i \in DOMAIN f.providers :
                 \/ Claims(f.providers[i], m) \/ Covers(f.providers[i], m)
                 \/ f.providers[i].name = f.default}
      before(i) == {j \in able : \/ Place(f, j, m) < Place(f, i, m)
                                 \/ Place(f, j, m) = Place(f, i, m) /\ j < i}
      nth(n) == CHOOSE i \in able : Cardinality(before(i)) = n - 1 IN
  [n \in 1 .. Cardinality(able) |-> f.providers[nth(n)].name]

\* The installed table resolves every model to the chain that one file, the one
\* it was built from, prescribes: the exact owner, then the providers with a
\* matching glob in declaration order, then the default, each once; whatever
\* edits and reloads overlapped and whichever files were rejected.
ChainsFollowFile ==
  source # NoFile => \A m \in Models : ResolveChain(table, m) = Chain(source, m)

\* A request is turned away for want of a provider only if some file that loads,
\* or the lack of one at the start, leaves its model without one: neither a bad
\* or half-written file nor the swap itself makes a served model unserved.
ReloadKeepsServing ==
  \A c \in Clients :
    client[c] \in {"refused", "failed"} =>
      \E f \in written : f = NoFile \/ (Loads(f) /\ ~Resolves(Load(f), Wanted[c]))
=============================================================================
