----------------------------- MODULE ActionAnalyzer -----------------------------
(***************************************************************************)
(* What a step of a plan asks for: python/orchestrator/action_analyzer.py  *)
(* and the tables of python/runtime/rules.py.  A text is the set of the    *)
(* table words in it; the tables keep, of each rule, words enough to tell  *)
(* the rules apart and to let them overlap as they do.  Length gives a     *)
(* word its length.                                                        *)
(***************************************************************************)
EXTENDS Integers, Sequences, FiniteSets, FiniteSetsExt, SequencesExt

CONSTANT Length

(* ACTION_TASK_RULES in the order of the table.                            *)
Rule(category, keywords, implemented, priority) ==
  [category |-> category, keywords |-> keywords,
   implemented |-> implemented, priority |-> priority]

ActionTaskRules == <<
  Rule("move", {"travel", "arrive"}, TRUE, 15),
  Rule("move_to_player", {"come here", "travel", "join"}, TRUE, 16),
  Rule("mine", {"mine", "ore"}, FALSE, 10),
  Rule("farm", {"harvest"}, FALSE, 0),
  Rule("craft", {"craft"}, FALSE, 0),
  Rule("follow", {"follow"}, FALSE, 0),
  Rule("build", {"build"}, FALSE, 0),
  Rule("fight", {"fight", "guard"}, FALSE, 0),
  Rule("equip", {"equip", "hold"}, TRUE, 20),
  Rule("deliver", {"hand over"}, FALSE, 0),
  Rule("storage", {"chest"}, FALSE, 0),
  Rule("gather", {"gather"}, FALSE, 0)>>

RuleOf(category) ==
  SelectSeq(ActionTaskRules, LAMBDA rule : rule.category = category)

(* Words that point at the speaker, that pass a message on, that forbid.   *)
MoveToPlayerHints == {"come here", "join", "here", "player", "follow"}
RelayMarkers == {"tell"}
MoveToPlayerNegations == {"do not come"}

HasMoveToPlayerIntent(text) ==
  /\ text \cap (RelayMarkers \cup MoveToPlayerNegations) = {}
  /\ text \cap MoveToPlayerHints # {}

(* The chat itself forbids to follow: it negates, or passes on a call.     *)
IsSourceExcluded(text) ==
  \/ text \cap MoveToPlayerNegations # {}
  \/ text \cap RelayMarkers # {} /\ text \cap MoveToPlayerHints # {}

(* The rules that fit a text, and how well: priority, number of words,     *)
(* longest word; the earlier of two that fit alike.                        *)
Fits(text, rule) ==
  /\ text \cap rule.keywords # {}
  /\ rule.category = "move_to_player" => HasMoveToPlayerIntent(text)

Score(text, rule) ==
  LET found == text \cap rule.keywords
  IN  <<rule.priority, Cardinality(found), Max({Length[w] : w \in found})>>

Above(a, b) ==
  \E i \in DOMAIN a : a[i] > b[i] /\ \A j \in 1..(i - 1) : a[j] = b[j]

ClassifyActionTask(text) ==
  FoldLeft(LAMBDA best, rule :
             IF ~Fits(text, rule) THEN best
             ELSE IF best = "none" THEN rule.category
             ELSE IF Above(Score(text, rule), Score(text, RuleOf(best)[1]))
             THEN rule.category ELSE best,
           "none", ActionTaskRules)

(* DETECTION_TASK_KEYWORDS, the first that fits.                           *)
DetectionTaskKeywords ==
  <<<<"player_position", {"position"}>>, <<"inventory_status", {"belongings"}>>,
    <<"general_status", {"state"}>>>>

ClassifyDetectionTask(text) ==
  LET fitting == SelectSeq(DetectionTaskKeywords, LAMBDA row : row[2] \cap text # {})
  IN  IF fitting = <<>> THEN "none" ELSE fitting[1][1]

(* EQUIP_KEYWORD_RULES: the tool or the item a text names first.           *)
EquipKeywordRules ==
  <<"pickaxe", "sword", "axe", "shovel", "hoe", "shield", "torch">>

InferEquipArguments(text) ==
  LET named == SelectSeq(EquipKeywordRules, LAMBDA tool : tool \in text)
  IN  IF named = <<>> THEN "none" ELSE named[1]

(* The ores a text asks for, redstone if it names none, and the tier that  *)
(* the pickaxe for them must have (ORE_PICKAXE_REQUIREMENTS).              *)
OreTier ==
  [redstone |-> 3, diamond |-> 3, lapis |-> 2, iron |-> 2, gold |-> 3, coal |-> 1]

InferTargets(text) ==
  LET named == text \cap DOMAIN OreTier
  IN  IF named = {} THEN {"redstone"} ELSE named

RequiredTier(targets) == Max({1} \cup {OreTier[ore] : ore \in targets})

(* select_pickaxe_for_targets: the remembered pickaxes that are good       *)
(* enough and not worn out; one of the best of them is taken.              *)
FitPickaxes(pickaxes, targets) ==
  {p \in pickaxes : p.tier >= RequiredTier(targets) /\ ~p.worn}
=============================================================================
