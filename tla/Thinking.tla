------------------------------ MODULE Thinking ------------------------------
(* internal/thinking: how much a model is asked to reason. A request may   *)
(* say so in its body or in a suffix of the model's name; what goes        *)
(* upstream depends on what the registry knows about the model.            *)
(*                                                                         *)
(* A model name is a sequence of tokens, of which "(" and ")" are two, and *)
(* a level is the string the code uses. Of a body these operators see      *)
(* `effort`, the reasoning effort in the place each format keeps it ("" is *)
(* an absent field). Letter case and white space are left out.             *)
EXTENDS Integers, SequencesExt

CONSTANT NumberOf   (* the texts that are numbers, with their values        *)

-----------------------------------------------------------------------------
(* Modes, levels and budgets.                                              *)

Config(mode, budget, level) == [Mode |-> mode, Budget |-> budget, Level |-> level]
NoConfig == Config("budget", 0, "")
None == Config("none", 0, "")
Automatic == Config("auto", -1, "")
Refused == Config("error", 0, "")

hasThinkingConfig(c) == c # NoConfig

standardLevelOrder == <<"minimal", "low", "medium", "high", "xhigh", "max">>
StandardLevels == Range(standardLevelOrder)
levelIndex(level) == CHOOSE i \in DOMAIN standardLevelOrder : standardLevelOrder[i] = level

levelToBudgetMap == [none |-> 0, auto |-> -1, minimal |-> 512, low |-> 1024, medium |-> 8192,
                     high |-> 24576, xhigh |-> 32768, max |-> 128000]

ASSUME NumberAssumption ==
  /\ DOMAIN NumberOf \subseteq STRING \ (StandardLevels \union {"", "(", ")", "none", "auto", "-1"})
  /\ \A t \in DOMAIN NumberOf : NumberOf[t] \in Nat

\* Faulty variant: a threshold belongs to the level above.
ConvertBudgetToLevelExclusive(budget) ==
  IF budget < -1 THEN ""
  ELSE IF budget = -1 THEN "auto"
  ELSE IF budget = 0 THEN "none"
  ELSE IF budget < 512 THEN "minimal"
  ELSE IF budget < 1024 THEN "low"
  ELSE IF budget < 8192 THEN "medium"
  ELSE IF budget < 24576 THEN "high" ELSE "xhigh"

\* The lowest level whose threshold covers the budget; "" is a budget that is none.
ConvertBudgetToLevel(budget) ==
  IF budget < -1 THEN ""
  ELSE IF budget = -1 THEN "auto"
  ELSE IF budget = 0 THEN "none"
  ELSE IF budget <= 512 THEN "minimal"
  ELSE IF budget <= 1024 THEN "low"
  ELSE IF budget <= 8192 THEN "medium"
  ELSE IF budget <= 24576 THEN "high" ELSE "xhigh"

-----------------------------------------------------------------------------
(* What the registry knows of a model.                                     *)

\* user: the model is unknown or the user's own. reasons: it has a ThinkingSupport, of
\* which the other fields are the parts.
Info(user, reasons, levels, min, max, zero, dynamic) ==
  [user |-> user, reasons |-> reasons, Levels |-> levels, Min |-> min, Max |-> max,
   ZeroAllowed |-> zero, DynamicAllowed |-> dynamic]

UserDefined == Info(TRUE, FALSE, <<>>, 0, 0, FALSE, FALSE)
Plain == Info(FALSE, FALSE, <<>>, 0, 0, FALSE, FALSE)
LevelOnly(levels) == Info(FALSE, TRUE, levels, 0, 0, FALSE, FALSE)

IsUserDefinedModel(info) == info.user
HasBudget(info) == info.Min > 0 \/ info.Max > 0

detectModelCapability(info) ==
  IF ~info.reasons THEN "none"
  ELSE IF HasBudget(info) THEN IF info.Levels # <<>> THEN "hybrid" ELSE "budget"
  ELSE IF info.Levels # <<>> THEN "level" ELSE "none"

HasLevel(levels, level) == level \in Range(levels)

-----------------------------------------------------------------------------
(* The suffix of a model's name.                                           *)

Opens(model) == {i \in DOMAIN model : model[i] = "("}

ParseSuffix(model) ==
  IF Opens(model) = {} \/ Last(model) # ")"
    THEN [ModelName |-> model, HasSuffix |-> FALSE, RawSuffix |-> <<>>]
    ELSE LET lastOpen == Max(Opens(model))
         IN  [ModelName |-> SubSeq(model, 1, lastOpen - 1), HasSuffix |-> TRUE,
              RawSuffix |-> SubSeq(model, lastOpen + 1, Len(model) - 1)]

\* A suffix is understood when it is one word: a special one, a level, or a number.
ParseSpecialSuffix(word) == CASE word = "none" -> None [] word \in {"auto", "-1"} -> Automatic

parseSuffixToConfig(raw) ==
  IF Len(raw) # 1 THEN NoConfig
  ELSE CASE raw[1] \in {"none", "auto", "-1"}    -> ParseSpecialSuffix(raw[1])
         [] raw[1] \in StandardLevels            -> Config("level", 0, raw[1])
         [] raw[1] \in DOMAIN NumberOf           -> IF NumberOf[raw[1]] = 0 THEN None
                                                    ELSE Config("budget", NumberOf[raw[1]], "")
         [] OTHER                                -> NoConfig

-----------------------------------------------------------------------------
(* The body.                                                               *)

Formats == {"openai", "codex"}

extractThinkingConfig(body, format) ==
  IF format \notin Formats THEN NoConfig
  ELSE CASE body.effort[format] = ""      -> NoConfig
         [] body.effort[format] = "none"  -> None
         [] OTHER                         -> Config("level", 0, body.effort[format])

SetEffort(body, format, level) == [body EXCEPT !.effort[format] = level]
StripThinkingConfig(body, format) == SetEffort(body, format, "")

-----------------------------------------------------------------------------
(* Validation: the configuration in the terms of the model, or Refused.    *)

\* The nearest level the model has, the lower one of two.
Distance(i, j) == IF i < j THEN j - i ELSE i - j

clampLevel(level, info) ==
  LET known == {i \in DOMAIN standardLevelOrder : HasLevel(info.Levels, standardLevelOrder[i])}
      pos == levelIndex(level)
  IN  IF info.Levels = <<>> \/ HasLevel(info.Levels, level) \/ level \notin StandardLevels \/ known = {}
        THEN level
        ELSE standardLevelOrder[CHOOSE i \in known : \A j \in known :
               Distance(i, pos) < Distance(j, pos) \/ (Distance(i, pos) = Distance(j, pos) /\ i <= j)]

clampBudget(value, info) ==
  IF value = -1 THEN value
  ELSE IF value = 0 /\ ~info.ZeroAllowed THEN info.Min
  ELSE IF value = 0 \/ (info.Min = 0 /\ info.Max = 0) THEN value
  ELSE IF value < info.Min THEN info.Min
  ELSE IF value > info.Max THEN info.Max ELSE value

\* Automatic, for a model that cannot.
convertAutoToMidRange(info) ==
  LET mid == (info.Min + info.Max) \div 2
  IN  IF info.Levels # <<>> /\ ~HasBudget(info) THEN Config("level", 0, "medium")
      ELSE IF mid > 0 THEN Config("budget", mid, "")
      ELSE IF info.ZeroAllowed THEN None ELSE Config("budget", info.Min, "")

\* A level for a model of budgets, a budget for a model of levels.
Translated(c, info) ==
  CASE detectModelCapability(info) = "budget" /\ c.Mode = "level" /\ c.Level # "auto"
         -> IF c.Level \in DOMAIN levelToBudgetMap
              THEN Config("budget", levelToBudgetMap[c.Level], "") ELSE Refused
    [] detectModelCapability(info) = "level" /\ c.Mode = "budget"
         -> IF ConvertBudgetToLevel(c.Budget) = "" THEN Refused
            ELSE Config("level", 0, clampLevel(ConvertBudgetToLevel(c.Budget), info))
    [] OTHER -> c

\* One way to say none, one to say automatic.
Normalised(c) ==
  CASE c.Mode = "level" /\ c.Level = "none"   -> None
    [] c.Mode = "level" /\ c.Level = "auto"   -> Automatic
    [] c.Mode = "budget" /\ c.Budget = 0      -> None
    [] OTHER                                  -> c

isOpenAIFamily(format) == format \in {"openai", "openai-response", "codex"}
isSameProviderFamily(from, to) == from = to \/ (isOpenAIFamily(from) /\ isOpenAIFamily(to))

\* A level must be one the model has: it is only replaced between families.
Supported(c, info, from, to) ==
  IF c.Mode # "level" \/ info.Levels = <<>> \/ HasLevel(info.Levels, c.Level) THEN c
  ELSE IF isSameProviderFamily(from, to) \/ ~HasLevel(info.Levels, clampLevel(c.Level, info)) THEN Refused
  ELSE [c EXCEPT !.Level = clampLevel(c.Level, info)]

\* A budget that the body gave, in the model's own family, must be within its range.
InRange(c, info, strict) ==
  IF /\ strict /\ c.Mode = "budget" /\ (info.Min # 0 \/ info.Max # 0)
     /\ c.Budget \notin info.Min..info.Max
    THEN Refused ELSE c

Clamped(c, info) ==
  IF c.Mode \in {"level", "error"} THEN c
  ELSE LET budget == clampBudget(c.Budget, info)
       IN  IF c.Mode = "none" /\ budget > 0 /\ info.Levels # <<>>
             THEN Config("none", budget, info.Levels[1])
             ELSE Config(c.Mode, budget, c.Level)

ValidateConfig(config, info, from, to, fromSuffix) ==
  LET derived == detectModelCapability(info) = "budget" /\ config.Mode = "level"
      strict == ~fromSuffix /\ isSameProviderFamily(from, to) /\ ~derived
      checked == InRange(Supported(Normalised(Translated(config, info)), info, from, to), info, strict)
  IN  Clamped(IF checked.Mode = "auto" /\ ~info.DynamicAllowed THEN convertAutoToMidRange(info)
              ELSE checked, info)

-----------------------------------------------------------------------------
(* The appliers of the two formats differ only in the field they write.    *)

\* For a model nobody describes: whatever was asked for.
applyCompatible(body, format, c) ==
  CASE c.Mode = "level"   -> IF c.Level = "" THEN body ELSE SetEffort(body, format, c.Level)
    [] c.Mode = "none"    -> SetEffort(body, format, IF c.Level = "" THEN "none" ELSE c.Level)
    [] c.Mode = "auto"    -> SetEffort(body, format, "auto")
    [] c.Mode = "budget"  -> IF ConvertBudgetToLevel(c.Budget) = "" THEN body
                             ELSE SetEffort(body, format, ConvertBudgetToLevel(c.Budget))

\* None is "none" where the model has it, otherwise the least the model does.
NoneOf(c, info) ==
  IF c.Budget = 0 /\ (info.ZeroAllowed \/ HasLevel(info.Levels, "none")) THEN "none"
  ELSE IF c.Level # "" THEN c.Level
  ELSE IF info.Levels # <<>> THEN info.Levels[1] ELSE ""

\* A budget and automatic stay unsaid: the format has levels only.
Apply(body, format, c, info) ==
  IF IsUserDefinedModel(info) THEN applyCompatible(body, format, c)
  ELSE IF c.Mode = "level" THEN SetEffort(body, format, c.Level)
  ELSE IF c.Mode = "none" /\ NoneOf(c, info) # "" THEN SetEffort(body, format, NoneOf(c, info))
  ELSE body

applyUserDefinedModel(body, info, from, to, suffix) ==
  LET source == extractThinkingConfig(body, from)
      config == IF suffix.HasSuffix THEN parseSuffixToConfig(suffix.RawSuffix)
                ELSE IF hasThinkingConfig(source) THEN source ELSE extractThinkingConfig(body, to)
  IN  IF hasThinkingConfig(config) THEN Apply(body, to, config, info) ELSE body

\* The suffix, if there is one, decides alone: also when it is not understood, and then
\* what the body asks for is passed on as it is.
ConfigOf(body, suffix, to) ==
  IF suffix.HasSuffix THEN parseSuffixToConfig(suffix.RawSuffix) ELSE extractThinkingConfig(body, to)

\* ApplyThinking returns a body or an error; on an error the body is as it was.
ApplyThinking(body, model, info, from, to) ==
  LET suffix == ParseSuffix(model)
      config == ConfigOf(body, suffix, to)
      validated == ValidateConfig(config, info, from, to, suffix.HasSuffix)
      Done(b) == [body |-> b, err |-> FALSE]
  IN  IF to \notin Formats THEN Done(body)
      ELSE IF IsUserDefinedModel(info) THEN Done(applyUserDefinedModel(body, info, from, to, suffix))
      ELSE IF ~info.reasons THEN Done(StripThinkingConfig(body, to))
      ELSE IF ~hasThinkingConfig(config) THEN Done(body)
      ELSE IF validated.Mode = "error" THEN [body |-> body, err |-> TRUE]
      ELSE Done(Apply(body, to, validated, info))

=============================================================================
