--------------------------- MODULE MCChatHandler ---------------------------
(* Instances of ChatHandler for TLC. *)
EXTENDS ChatHandler, SequencesExt, TLC

CONSTANTS r1, r2, gpt, claude, code, plain, choices

OneEach == {(r1 :> "stream") @@ (r2 :> "chat"), (r1 :> "native") @@ (r2 :> "chat")}

Msg(role, size, words) == [role |-> role, size |-> size, words |-> words]

\* All conversations of up to four messages of these kinds.
MCTexts ==
  BoundedSeq({Msg("system", 3, {}), Msg("user", 5, {code}), Msg("user", 14, {}),
              Msg("assistant", 9, {code})}, 4)

Rule(name, to, max, any, weight) ==
  [name |-> name, routeTo |-> to, models |-> {gpt, claude}, min |-> 0, max |-> max,
   any |-> any, none |-> {}, weight |-> weight]

\* A canary for code, and a rule for short prompts.
MCRules == <<Rule("code", claude, 0, {code}, 50), Rule("short", gpt, 12, {}, 0)>>

MCWindows == claude :> 56

Ask(m, t, x) == [model |-> m, text |-> t, extra |-> x]

Long ==
  <<Msg("system", 3, {}), Msg("user", 14, {}), Msg("user", 14, {}), Msg("user", 5, {code})>>

Short == <<Msg("system", 3, {}), Msg("user", 14, {}), Msg("user", 5, {code})>>

\* Routed to claude, r1's prompt is compressed to the one of r2, which wants n = 2
\* choices.
MCAsked ==
  (r1 :> Ask(gpt, Long, plain)) @@ (r2 :> Ask(claude, Short, choices))
=============================================================================
