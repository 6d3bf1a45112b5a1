----------------------------- MODULE ActionGraphMC -----------------------------
(***************************************************************************)
(* Instances of ActionGraph: texts of each kind the tables tell apart, a   *)
(* library with a skill that is unlocked, one that a mission asks for and  *)
(* one that is locked.                                                     *)
(***************************************************************************)
EXTENDS ActionGraph

MCLength ==
  [w \in UNION {rule.keywords : rule \in {ActionTaskRules[i] : i \in DOMAIN ActionTaskRules}} |->
     CASE w \in {"come here", "hand over"} -> 9
       [] w \in {"travel", "arrive", "follow", "gather", "harvest"} -> 6
       [] OTHER -> 4]

Undirected(text) == [text |-> text, directive |-> "none"]

(* A move, a call, an item, none, a craft, a look into the bag and at the  *)
(* state, and a directive to mine.                                         *)
MCSteps ==
  {Undirected(text) : text \in
     {{"arrive"}, {"come here", "travel"}, {"equip", "torch"}, {"hold"}, {"craft"},
      {"belongings"}, {"state"}}}
  \cup {[text |-> {"iron"}, directive |-> "mine"]}

(* A call and a call that is passed on.                                    *)
MCChats == {{"come here"}, {"tell", "come here"}}

MCNode(id, cats, tags, words, unlocked) ==
  [id |-> id, cats |-> cats, tags |-> tags, words |-> words, title |-> id, about |-> "",
   hints |-> {}, unlocked |-> unlocked, used |-> 0, won |-> 0]

MCSeeds ==
  <<MCNode("torches", {"equip"}, {"light"}, {"torch"}, TRUE),
    MCNode("tools", {"craft"}, {"wall"}, {"craft"}, FALSE)>>

MCMissionTags ==
  [obtain_diamond |-> {"mine", "deep"}, harvest_wheat |-> {"farm"},
   build_simple_house |-> {"build", "wall"}]

MCDemoTags ==
  [obtain_diamond |-> {"demo", "deep"}, harvest_wheat |-> {"demo"},
   build_simple_house |-> {"demo", "wall"}]

MCPickaxes == {[tier |-> 2, worn |-> FALSE]}
=============================================================================
