------------------------------- MODULE Prompt -------------------------------
(***************************************************************************)
(* What becomes of a conversation before it goes upstream: the rule-based  *)
(* classifier, which may replace the model                                 *)
(* (internal/route/rule_classifier.go), and the sliding-window compressor, *)
(* which may drop old messages (internal/prompt/compressor.go), with the   *)
(* token counts both use (pkg/tokenizer).                                  *)
(*                                                                         *)
(* A message is [role, size, words]: the tokens of role, text and name,    *)
(* and the keywords found in the text.  A rule's glob is the set of models *)
(* it matches.                                                             *)
(***************************************************************************)
EXTENDS Integers, Sequences, FiniteSetsExt

CONSTANTS
  Claude,        \* the models counted by the Anthropic estimate
  Rules,         \* [name, routeTo, models, min, max, any, none, weight]
  DefaultWindow, Windows, TriggerPercent, MinKeep   \* SlidingWindowOptions

-----------------------------------------------------------------------------
\* pkg/tokenizer.

\* openaiBPE.CountMessages: three tokens a message and three for priming.
OpenAICount(ms) ==
  LET sum[n \in 0 .. Len(ms)] == IF n = 0 THEN 3 ELSE sum[n - 1] + 3 + ms[n].size IN
  IF ms = <<>> THEN 0 ELSE sum[Len(ms)]

\* scale by 1.15, half up.
Scaled(n) == (n * 115 + 50) \div 100

\* Selector.For.
CountMessages(model, ms) ==
  IF model \in Claude THEN Scaled(OpenAICount(ms)) ELSE OpenAICount(ms)

-----------------------------------------------------------------------------
\* RuleClassifier.

\* NewRuleClassifier.
ValidRules ==
  /\ \A i, j \in DOMAIN Rules : Rules[i].name = Rules[j].name => i = j
  /\ \A i \in DOMAIN Rules : Rules[i].weight \in 0 .. 100

ASSUME RulesAssumption == ValidRules

\* joinUserContent and anyKeywordPresent.
Mentions(ms, words) == \E i \in DOMAIN ms : ms[i].role = "user" /\ ms[i].words \cap words # {}

\* All conditions of a rule but the roll; zero and empty conditions are skipped.
Selects(rule, model, ms) ==
  LET n == CountMessages(model, ms) IN
  /\ model \in rule.models
  /\ rule.max > 0 => n <= rule.max
  /\ rule.min > 0 => n >= rule.min
  /\ rule.any # {} => Mentions(ms, rule.any)
  /\ ~Mentions(ms, rule.none)

\* The roll, for the percentage weight, cannot be lost.
Certain(rule) == rule.weight \in {0, 100}

\* Classify: the models it may choose, by the first rule that selects the request
\* and wins its roll; the request's own if there is none.
Classify(model, ms) ==
  LET fires == {i \in DOMAIN Rules : Selects(Rules[i], model, ms)}
      sure == {i \in fires : Certain(Rules[i])}
      reached == {i \in fires : \A j \in sure : i <= j} IN
  {Rules[i].routeTo : i \in reached} \cup IF sure = {} THEN {model} ELSE {}

-----------------------------------------------------------------------------
\* SlidingWindow.

\* NewSlidingWindow: out of range means the default.
TriggerRatio == IF TriggerPercent \in 1 .. 100 THEN TriggerPercent ELSE 80
MinKeepMessages == IF MinKeep > 0 THEN MinKeep ELSE 2

WindowFor(model) ==
  IF model \in DOMAIN Windows /\ Windows[model] > 0 THEN Windows[model]
  ELSE IF DefaultWindow > 0 THEN DefaultWindow ELSE 128000

Budget(model) == (WindowFor(model) * TriggerRatio) \div 100

Systems(ms) == SelectSeq(ms, LAMBDA m : m.role = "system")
Rest(ms) == SelectSeq(ms, LAMBDA m : m.role # "system")

\* Mutant: the system messages are not charged to the budget.
KeepStartFreeSystems(model, ms) ==
  LET rest == Rest(ms)
      used[i \in 1 .. Len(rest) + 1] ==
        IF i > Len(rest) THEN 0
                         ELSE used[i + 1] + CountMessages(model, <<rest[i]>>)
      kept(i) == used[i] <= Budget(model) \/ Len(rest) - i < MinKeepMessages IN
  Min({i \in 1 .. Len(rest) + 1 : \A j \in i .. Len(rest) : kept(j)})

\* The loop from the tail: it goes on while the next message fits, with those after
\* it and the system messages, or is one of the last MinKeepMessages.
KeepStart(model, ms) ==
  LET rest == Rest(ms)
      used[i \in 1 .. Len(rest) + 1] ==
        IF i > Len(rest) THEN CountMessages(model, Systems(ms))
                         ELSE used[i + 1] + CountMessages(model, <<rest[i]>>)
      kept(i) == used[i] <= Budget(model) \/ Len(rest) - i < MinKeepMessages IN
  Min({i \in 1 .. Len(rest) + 1 : \A j \in i .. Len(rest) : kept(j)})

Compress(model, ms) ==
  IF CountMessages(model, ms) <= Budget(model) \/ KeepStart(model, ms) = 1 THEN ms
  ELSE Systems(ms) \o SubSeq(Rest(ms), KeepStart(model, ms), Len(Rest(ms)))

\* Of a conversation the compressor keeps every system message and a tail of the
\* others, the last MinKeepMessages at least; what it keeps fits the budget unless it is
\* down to those, although it charges message by message, with priming and
\* rounding each time, and the upstream the whole; and it leaves alone what it has
\* trimmed, so that a trimmed history sent again has the same cache key.
CompressKeeps(model, ms) ==
  LET c == Compress(model, ms) IN
  /\ Systems(c) = Systems(ms)
  /\ Rest(c) = SubSeq(Rest(ms), Len(Rest(ms)) - Len(Rest(c)) + 1, Len(Rest(ms)))
  /\ Len(Rest(c)) >= Min({MinKeepMessages, Len(Rest(ms))})
  /\ CountMessages(model, c) <= Budget(model) \/ Len(Rest(c)) <= MinKeepMessages
  /\ Compress(model, c) = c
=============================================================================
