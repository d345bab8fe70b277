------------------------------ MODULE MCAdmin ------------------------------
(***************************************************************************)
(* Registry and Stats for TLC.  The two share no state: a behaviour runs   *)
(* one of them, part, and leaves the other in its initial state.           *)
(***************************************************************************)
EXTENDS Registry, Stats

CONSTANTS
  m1, m2, c1, c2, r1, r2

VARIABLE part

vars == <<part, registryVars, statsVars>>

Provider(name, type, exact, glob) ==
  [name |-> name, type |-> type, key |-> TRUE, exact |-> exact, glob |-> glob]
File(providers, default) == [yaml |-> TRUE, providers |-> providers, default |-> default]

TwoGlobs == {<<"m*", m1>>, <<"m*", m2>>, <<"*2", m2>>}

\* Three files that load, the last without a provider for m2; one that claims m1
\* twice, one with a malformed pattern and an unknown default, one cut short.
SixFiles ==
  {File(<<Provider("openai", "openai", <<m1>>, <<>>),
          Provider("a", "anthropic", <<m2>>, <<"m*">>)>>, "openai"),
   File(<<Provider("a", "anthropic", <<>>, <<"*2", "m*">>),
          Provider("openai", "openai", <<m1>>, <<>>)>>, "a"),
   File(<<Provider("openai", "openai", <<m1>>, <<>>)>>, NoDefault),
   File(<<Provider("openai", "openai", <<m1>>, <<>>),
          Provider("a", "anthropic", <<m1>>, <<"m*">>)>>, "openai"),
   File(<<Provider("a", "anthropic", <<>>, <<"m*", "[">>)>>, "b"),
   [yaml |-> FALSE, providers |-> <<>>, default |-> NoDefault]}

OneEach == (c1 :> m1) @@ (c2 :> m2)

Hit == [kind |-> "hit"]
Written == [kind |-> "written"]
Refused(s) == [kind |-> "refused", status |-> s]
Failed(v, s, t) ==
  [kind |-> "failed", reply |-> [vendor |-> v, status |-> s, type |-> t]]

First == (r1 :> Hit) @@ (r2 :> Failed("anthropic", 529, "overloaded_error"))
ThreeWorkloads ==
  {First,
   (r1 :> Written) @@ (r2 :> Failed("transport", 0, "canceled")),
   (r1 :> Refused(413)) @@ (r2 :> Failed("openai", 400, ""))}

Symmetry == Permutations(Reloaders) \cup Permutations(Pollers)

Init ==
  /\ part \in {"registry", "stats"}
  /\ RegistryInit /\ (part = "stats" => file = NoFile)
  /\ StatsInit /\ (part = "registry" => outcome = First /\ collector = "summary")

Next ==
  \/ part = "registry" /\ RegistryNext /\ UNCHANGED <<part, statsVars>>
  \/ part = "stats" /\ StatsNext /\ UNCHANGED <<part, registryVars>>

Spec == Init /\ [][Next]_vars
=============================================================================
