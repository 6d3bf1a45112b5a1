-------------------------------- MODULE MineDojo --------------------------------
(***************************************************************************)
(* The missions and demonstrations of MineDojo, which a step of some       *)
(* category is given as a context:                                         *)
(*                                                                         *)
(*   python/services/minedojo_client.py   memory, file, data set, service  *)
(*   python/runtime/minedojo_handler.py   the mission that is active       *)
(*   python/runtime/minedojo.py           the dialogue with itself         *)
(*                                                                         *)
(* The operators are the code between two awaits; ActionGraph says when    *)
(* each runs.  What the service says of a mission is told apart by whether *)
(* it is something ("good"), something useless that is kept all the same   *)
(* ("bad": no object, no demonstration) or nothing.                        *)
(***************************************************************************)
EXTENDS SkillTree

CONSTANTS
  MissionTags,   \* the tags of each mission
  DemoTags       \* the tags of its demonstration

Missions == DOMAIN MissionTags

ASSUME MissionsAssumption ==
  /\ Missions = {"obtain_diamond", "harvest_wheat", "build_simple_house"}
  /\ DOMAIN DemoTags = Missions

VARIABLES
  kept,       \* _mission_cache and _demo_cache: what was good
  stored,     \* the files of the cache directory
  active,     \* _active_mission_id, _active_mission, _active_demos
  fetched,    \* the mission of the fetch under way is there
  botSkills   \* skillRegistry of the bot: the skills it was told of

mineDojoVars == <<kept, stored, active, fetched, botSkills>>

Keys == {"mission", "demos"} \X Missions
NoMission == [id |-> "none", mission |-> FALSE, demos |-> FALSE]

MineDojoInit ==
  /\ kept = {} /\ stored = [key \in Keys |-> "none"]
  /\ active = NoMission /\ fetched = FALSE
  /\ botSkills = {}

MissionBindings ==
  [mine |-> "obtain_diamond", farm |-> "harvest_wheat", build |-> "build_simple_house"]

Bound(cat) == cat \in DOMAIN MissionBindings

-----------------------------------------------------------------------------
(* The client. *)

(* What a fetch may come to: what is in memory, or else in the file, or    *)
(* else what the data set or the service says.                             *)
Answers(key) ==
  IF key \in kept THEN {"good"}
  ELSE IF stored[key] # "none" THEN {stored[key]}
  ELSE {"none", "bad", "good"}

(* What the service said is stored, even if it is useless, unless writing  *)
(* fails; what the data set said is not.                                   *)
Fetch(key, answer) ==
  /\ answer \in Answers(key)
  /\ kept' = kept \cup {k \in {key} : answer = "good"}
  /\ stored' \in {stored, IF key \in kept THEN stored ELSE [stored EXCEPT ![key] = answer]}

-----------------------------------------------------------------------------
(* attach_context. *)

(* Nothing to do for a step without a mission, or with the active one.     *)
Attached(cat) ==
  \/ ~Bound(cat)
  \/ active.id = MissionBindings[cat] /\ active.demos

FetchMission(mission) ==
  \E answer \in Answers(<<"mission", mission>>) :
    /\ Fetch(<<"mission", mission>>, answer)
    /\ fetched' = (answer = "good")
    /\ UNCHANGED <<active, botSkills>>

FetchDemos(mission) ==
  \E answer \in Answers(<<"demos", mission>>) :
    /\ Fetch(<<"demos", mission>>, answer)
    /\ active' = IF fetched \/ answer = "good"
                 THEN [id |-> mission, mission |-> fetched, demos |-> answer = "good"]
                 ELSE NoMission
    /\ fetched' = FALSE
    /\ UNCHANGED <<botSkills>>

DemoSkill(mission) == "minedojo::" \o mission

(* The node of the active mission's demonstration.                         *)
DemoNode ==
  LET told == IF active.mission THEN MissionTags[active.id] ELSE {}
  IN  [id |-> DemoSkill(active.id), cats |-> told,
       tags |-> {"minedojo", active.id} \cup DemoTags[active.id] \cup told,
       words |-> {}, title |-> active.id, about |-> "", hints |-> {},
       unlocked |-> TRUE, used |-> 0, won |-> 0]

(* The bot is told of a skill, or is not reached.                          *)
TellBot(id) ==
  /\ botSkills' \in {botSkills, botSkills \cup {id}}
  /\ UNCHANGED <<kept, stored, active, fetched>>

-----------------------------------------------------------------------------
(* find_skill_for_step: the tags and the mission are the active ones,      *)
(* whatever the step.                                                      *)
ContextTags ==
  (IF active.demos THEN DemoTags[active.id] \cup {"minedojo", active.id} ELSE {})
  \cup (IF active.mission THEN MissionTags[active.id] ELSE {})

Question(cat, text) ==
  [text |-> text, cat |-> cat, tags |-> ContextTags, mission |-> active.id]

-----------------------------------------------------------------------------
(* handle_directive and maybe_trigger_autorecovery: the dialogue fetches   *)
(* the mission and its demonstration, and stops at _build_skill_node with  *)
(* an exception, as SkillRepository has no Node; both answer False.        *)

DialogueFetches(kindOf, mission) ==
  \E answer \in Answers(<<kindOf, mission>>) :
    /\ Fetch(<<kindOf, mission>>, answer)
    /\ UNCHANGED <<active, fetched, botSkills>>

(* The agent starts anew.                                                  *)
ForgetMissions ==
  /\ kept' = {} /\ active' = NoMission /\ fetched' = FALSE
  /\ UNCHANGED <<stored, botSkills>>

=============================================================================
