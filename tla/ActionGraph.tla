------------------------------ MODULE ActionGraph ------------------------------
(***************************************************************************)
(* One step of a plan at a time on its way through the action graph        *)
(* (python/runtime/action_graph_builder.py, move_handler.py): context,     *)
(* skill, role, module; a mining step may send a step of its own, to equip *)
(* a pickaxe, through the same graph.  The step shares with the events of  *)
(* the bot and with the threads of the file: the role (BridgeRoles), the   *)
(* skills (SkillTree) and the missions (MineDojo).                         *)
(*                                                                         *)
(* pc names the await the step is at, or the node it comes to next.  The   *)
(* step may be cancelled at any of them (the worker's timeout).  What a    *)
(* step says is classified by ActionAnalyzer.                              *)
(***************************************************************************)
EXTENDS MineDojo, BridgeRoles, ActionAnalyzer

CONSTANTS
  Steps,       \* the steps of the plans: [text, directive], the category
               \* its directive gives, or "none"
  Chats,       \* what the player has said
  Pickaxes,    \* the pickaxes there are, [tier, worn]
  Homes,       \* what default_move_target may come to, "none" if unreadable
  MaxSteps     \* bound: the steps of all plans

VARIABLES
  pc,
  task,       \* the step: text, category, the place its directive or text
              \* names, and whether it may lead to a player
  nested,     \* it is the step a mining step has sent
  start,      \* active_role of its state
  found,      \* id of skill_candidate
  handled, detail,   \* its result: handled, and that failure_detail is set
  goal,       \* where it moves to
  fallback,   \* used_default
  target,     \* last_target_coords of the plan
  inventory,  \* inventory_detail in the memory: its pickaxes
  steps,
  (* what the properties look back at *)
  places,     \* the places this plan was given or has reached
  cutShort    \* a step ended before it had registered its demonstration

stepVars == <<task, nested, start, found, handled, detail, goal, fallback>>
planVars == <<target, steps, places>>
vars == <<pc, stepVars, planVars, inventory, cutShort,
          roleVars, skillVars, mineDojoVars>>

NoTask == [text |-> {}, cat |-> "none", place |-> "none",
           allowed |-> TRUE]

(* What coordinates a chat, a plan, a step's directive or its text names,  *)
(* if any.                                                                 *)
NamedPlaces == {"none", "P"}
Given(place) == {place} \ {"none"}

Init ==
  /\ RolesInit /\ SkillsInit /\ MineDojoInit
  /\ pc = "idle" /\ task = NoTask /\ nested = FALSE
  /\ start = Generalist /\ found = "none"
  /\ handled = FALSE /\ detail = FALSE
  /\ goal = "none" /\ fallback = FALSE
  /\ target \in NamedPlaces /\ places = Given(target)
  /\ inventory = {} /\ steps = 0 /\ cutShort = FALSE

-----------------------------------------------------------------------------
(* The ways on. *)

Going(next) == pc' = next /\ UNCHANGED <<task, nested, start, found, handled, detail, goal, fallback>>

(* The result is fixed; next is its last await, or "done".                 *)
Result(ok, next) ==
  /\ pc' = next
  /\ handled' = ok /\ detail' = ~ok
  /\ UNCHANGED <<task, nested, start, found, goal, fallback>>

Ends(ok) == Result(ok, "done")
Barrier(ok) == Result(ok, "barrier")
SkillsSame == UNCHANGED <<skillVars, mineDojoVars, cutShort>>
OutsideSame == SkillsSame /\ UNCHANGED roleVars
StepOnly == OutsideSame /\ UNCHANGED <<planVars, inventory>>

(* Mutation: the place the chat names is not handed on. *)
PlanForgetsPlace ==
  \E place \in NamedPlaces : target' = "none" /\ places' = Given(place)

(* A new plan has the place its arguments or its chat name; the plan that  *)
(* is made after a failure has none.                                       *)
NewPlan ==
  \E place \in NamedPlaces : target' = place /\ places' = Given(place)

Rest == pc' = "idle" /\ task' = NoTask /\ nested' = FALSE /\ start' = Generalist
        /\ found' = "none" /\ handled' = FALSE /\ detail' = FALSE
        /\ goal' = "none" /\ fallback' = FALSE

(* The step is cancelled or raises; the worker takes the next chat.        *)
StepRaises ==
  /\ Rest /\ NewPlan
  /\ cutShort' = (cutShort \/ pc \in {"prime", "register"})
  /\ steps' = steps

-----------------------------------------------------------------------------
(* handle_step and handle_action_task.  Coordinates make a step without a  *)
(* directive a move, and are the target from then on, whatever its         *)
(* category and whether or not it goes there.                              *)

Begin ==
  /\ pc = "idle" /\ steps < MaxSteps
  /\ \E step \in Steps, chat \in Chats, place \in NamedPlaces, caller \in BOOLEAN :
     LET cat == IF step.directive # "none" THEN step.directive
                ELSE IF place # "none" THEN "move" ELSE ClassifyActionTask(step.text)
     IN
       /\ cat # "none"
       /\ ClassifyDetectionTask(step.text) = "none"
       /\ target' = IF place = "none" THEN target ELSE place
       /\ places' = places \cup Given(place)
       /\ task' = [text |-> step.text, cat |-> cat, place |-> place,
                   allowed |-> cat = "move_to_player" => caller /\ ~IsSourceExcluded(chat)]
  /\ pc' = "attach" /\ nested' = FALSE
  /\ steps' = steps + 1
  /\ UNCHANGED <<start, found, handled, detail, goal, fallback, inventory>>
  /\ OutsideSame

Mission == MissionBindings[task.cat]

AttachContext ==
  /\ pc = "attach"
  /\ Going(IF Attached(task.cat) THEN "graph" ELSE "mission")
  /\ StepOnly

MissionFetched ==
  /\ pc = "mission"
  /\ FetchMission(Mission)
  /\ Going("demos")
  /\ UNCHANGED <<planVars, inventory, skillVars, roleVars, cutShort>>

DemosFetched ==
  /\ pc = "demos"
  /\ FetchDemos(Mission)
  /\ Going(IF active'.demos THEN "prime" ELSE "graph")
  /\ UNCHANGED <<planVars, inventory, skillVars, roleVars, cutShort>>

(* Mutation: only a demonstration that was played is registered. *)
PrimedOnly ==
  /\ pc = "prime"
  /\ Going("register") \/ Going("graph")
  /\ StepOnly

(* play_vpt_actions, if there is anything to play; its outcome does not    *)
(* matter.                                                                 *)
Primed ==
  /\ pc = "prime"
  /\ Going("register")
  /\ StepOnly

RegisterDemo ==
  /\ pc = "register"
  /\ RegisterSkill(DemoNode)
  /\ Going(IF Has(Tree, DemoNode.id) THEN "saved" ELSE "tell")
  /\ cutShort' = FALSE
  /\ UNCHANGED <<planVars, inventory, roleVars, mineDojoVars>>

(* The tree cannot be read.                                                *)
RegisterFails ==
  /\ pc = "register" /\ ~loaded
  /\ StepRaises
  /\ UNCHANGED <<inventory, skillVars, roleVars, mineDojoVars>>

(* The bot is told of a new skill once the file is written.                *)
DemoSaved ==
  /\ pc \in {"saved", "tell"} /\ Saved
  /\ IF pc = "tell" THEN TellBot(DemoNode.id) ELSE UNCHANGED mineDojoVars
  /\ Going("graph")
  /\ UNCHANGED <<planVars, inventory, skillVars, roleVars, cutShort>>

-----------------------------------------------------------------------------
(* initialize, seek_skill, trigger_exploration. *)

Initialize ==
  /\ pc = "graph"
  /\ pc' = IF task.cat = "move_to_player" THEN "policy" ELSE "seek"
  /\ start' = current /\ found' = "none"
  /\ handled' = FALSE /\ detail' = FALSE
  /\ UNCHANGED <<task, nested, goal, fallback>>
  /\ StepOnly

(* A tree that cannot be read counts as one without a fitting skill.       *)
SeekSkill ==
  /\ pc = "seek"
  /\ \/ /\ ReadTree
        /\ LET match == FindBestMatch(Tree, Question(task.cat, task.text))
           IN  /\ found' = match.id
               /\ pc' = IF match = NoSkill THEN "policy"
                        ELSE IF match.unlocked THEN "invoke" ELSE "explore"
     \/ /\ ~loaded
        /\ found' = "none" /\ pc' = "policy"
        /\ UNCHANGED skillVars
  /\ UNCHANGED <<task, nested, start, handled, detail, goal, fallback,
                 planVars, inventory, roleVars, mineDojoVars, cutShort>>

(* execute_skill_match: the bot plays a skill it was told of; of one that  *)
(* it does not know it says so, and the step is done in the usual way; any *)
(* other failure is the step's.                                            *)
InvokeSkill ==
  /\ pc = "invoke"
  /\ \/ /\ found \in botSkills
        /\ RecordUsage(found, TRUE)
        /\ Result(TRUE, "counted")
     \/ /\ found \notin botSkills
        /\ RecordUsage(found, FALSE)
        /\ Going("counted")
     \/ /\ RecordUsage(found, FALSE)
        /\ Result(FALSE, "counted")
  /\ UNCHANGED <<planVars, inventory, roleVars, mineDojoVars, cutShort>>

UsageCounted ==
  /\ pc = "counted" /\ Saved
  /\ Going(IF handled \/ detail THEN "done" ELSE "policy")
  /\ StepOnly

TriggerExploration ==
  /\ pc = "explore"
  /\ \E ok \in BOOLEAN : Ends(ok)
  /\ StepOnly

-----------------------------------------------------------------------------
(* apply_role_policy. *)

ApplyPolicy ==
  /\ pc = "policy"
  /\ ApplyRolePolicy(start)
  /\ Going(IF Wish(start) = NoRole THEN "route" ELSE "role")
  /\ SkillsSame /\ UNCHANGED <<planVars, inventory>>

RoleAnswered ==
  /\ pc = "role"
  /\ SwitchGranted \/ SwitchFails
  /\ Going("route")
  /\ SkillsSame /\ UNCHANGED <<planVars, inventory>>

-----------------------------------------------------------------------------
(* handle_move. *)

(* To a player: one must know who called, and the chat must not pass on or *)
(* forbid the call.                                                        *)
MoveToPlayer ==
  /\ pc = "route" /\ task.cat = "move_to_player"
  /\ IF task.allowed THEN Going("follow") ELSE Result(FALSE, "say")
  /\ StepOnly

(* followPlayer; the place is the one that was last perceived, if any.     *)
Followed ==
  /\ pc = "follow"
  /\ \/ /\ Result(TRUE, "say")
        /\ \/ target' = target /\ places' = places
           \/ target' = "seen" /\ places' = places \cup {"seen"}
     \/ /\ Result(FALSE, "say")
        /\ UNCHANGED <<target, places>>
  /\ OutsideSame /\ UNCHANGED <<steps, inventory>>

(* The place the step names, the target, or home.                          *)
Goals ==
  IF task.place # "none" THEN {task.place}
  ELSE IF target # "none" THEN {target} ELSE Homes

Move ==
  /\ pc = "route" /\ task.cat = "move"
  /\ \/ "none" \in Goals /\ Barrier(FALSE)
     \/ /\ pc' = "moving"
        /\ goal' \in Goals \ {"none"}
        /\ fallback' = (task.place = "none" /\ target = "none")
        /\ UNCHANGED <<task, nested, start, found, handled, detail>>
  /\ StepOnly

(* A bot sent home for want of a place is complained about in any case.    *)
Moved ==
  /\ pc = "moving"
  /\ \E ok \in BOOLEAN :
       /\ Result(ok, IF fallback THEN "barrier" ELSE "done")
       /\ target' = IF ok THEN goal ELSE target
       /\ places' = places \cup {x \in {goal} : ok}
  /\ OutsideSame /\ UNCHANGED <<steps, inventory>>

-----------------------------------------------------------------------------
(* handle_equip. *)

(* A text that names no item is complained about and counts as handled.    *)
Equip ==
  /\ pc = "route" /\ task.cat = "equip"
  /\ IF InferEquipArguments(task.text) = "none" THEN Barrier(TRUE) ELSE Going("items")
  /\ StepOnly

(* InventorySynchronizer.refresh succeeds.                                 *)
Refresh == inventory' \in SUBSET Pickaxes

ItemsSeen ==
  /\ pc = "items"
  /\ \/ /\ Refresh
        /\ \/ InferEquipArguments(task.text) = "pickaxe" /\ inventory' # {} /\ Going("equip")
           \/ InferEquipArguments(task.text) # "pickaxe" /\ Going("equip")
           \/ (InferEquipArguments(task.text) = "pickaxe" => inventory' = {}) /\ Barrier(FALSE)
     \/ inventory' = inventory /\ Barrier(FALSE)
  /\ OutsideSame /\ UNCHANGED planVars

Equipped ==
  /\ pc = "equip"
  /\ (\E ok \in BOOLEAN : Ends(ok)) \/ Going("items again")
  /\ StepOnly

(* The bot did not have it: what the memory says is renewed, or erased.    *)
ItemsRenewed ==
  /\ pc = "items again"
  /\ Refresh \/ inventory' = {}
  /\ Barrier(FALSE)
  /\ OutsideSame /\ UNCHANGED planVars

-----------------------------------------------------------------------------
(* handle_mining: with a fit pickaxe in the memory it sends a step to      *)
(* equip it through handle_action_task, and that step's result is its own; *)
(* it mines only without one.                                              *)

EquipStep == [task EXCEPT !.cat = "equip", !.text = {"equip", "pickaxe"}]

Mine ==
  /\ pc = "route" /\ task.cat = "mine"
  /\ IF FitPickaxes(inventory, InferTargets(task.text)) = {}
     THEN Going("dig")
     ELSE /\ pc' = "attach" /\ nested' = TRUE
          /\ task' = EquipStep
          /\ UNCHANGED <<start, found, handled, detail, goal, fallback>>
  /\ StepOnly

Mined ==
  /\ pc = "dig"
  /\ \E ok \in BOOLEAN : Ends(ok)
  /\ StepOnly

-----------------------------------------------------------------------------
(* handle_building, handle_defense, handle_generic: noted for the          *)
(* follow-up.  A rule that calls itself implemented and has no module      *)
(* would be refused without a reason.                                      *)
Queue ==
  /\ pc = "route" /\ task.cat \notin {"move", "move_to_player", "equip", "mine"}
  /\ pc' = "done"
  /\ LET queued == task.cat \in {"build", "fight"} \/ ~RuleOf(task.cat)[1].implemented
     IN  /\ handled' = queued
  /\ detail' = FALSE
  /\ UNCHANGED <<task, nested, start, found, goal, fallback>>
  /\ StepOnly

(* A say or the report of a barrier, which is another say.                 *)
Said ==
  /\ pc \in {"say", "barrier"}
  /\ pc' = "done"
  /\ UNCHANGED stepVars
  /\ StepOnly

-----------------------------------------------------------------------------
(* The end of a step, of a plan, and the steps that are no actions.        *)

(* A step that failed ends the plan; the plan may also be through, and     *)
(* then says what it has noted, unless it has answered before.             *)
StepEnds ==
  /\ pc = "done"
  /\ \/ handled /\ Rest /\ UNCHANGED <<target, places>>
     \/ ~handled /\ Rest /\ NewPlan
     \/ handled /\ Going("follow up") /\ UNCHANGED <<target, places>>
  /\ OutsideSame /\ UNCHANGED <<steps, inventory>>

FollowedUp ==
  /\ pc = "follow up"
  /\ Rest /\ NewPlan
  /\ OutsideSame /\ UNCHANGED <<steps, inventory>>

(* perform_detection_task: the inventory is remembered, a failure is       *)
(* reported and the plan goes on.                                          *)
Detect ==
  /\ pc = "idle" /\ steps < MaxSteps
  /\ \E step \in Steps :
       /\ ClassifyDetectionTask(step.text) # "none"
       /\ task' = [NoTask EXCEPT !.text = step.text, !.cat = ClassifyDetectionTask(step.text)]
  /\ pc' = "status"
  /\ steps' = steps + 1
  /\ UNCHANGED <<nested, start, found, handled, detail, goal, fallback,
                 target, places, inventory>>
  /\ OutsideSame

Detected ==
  /\ pc = "status"
  /\ \/ /\ IF task.cat = "inventory_status" THEN Refresh ELSE inventory' = inventory
        /\ Ends(TRUE)
     \/ inventory' = inventory /\ Barrier(FALSE)
  /\ OutsideSame /\ UNCHANGED planVars

(* A directive for MineDojo, or the recovery of a plan without steps.      *)
Dialogue ==
  /\ pc = "idle" /\ steps < MaxSteps
  /\ \E step \in Steps :
       /\ Bound(step.directive)
       /\ task' = [NoTask EXCEPT !.cat = step.directive]
  /\ pc' = "dialogue"
  /\ steps' = steps + 1
  /\ UNCHANGED <<nested, start, found, handled, detail, goal, fallback,
                 target, places, inventory>>
  /\ OutsideSame

DialogueGoes ==
  /\ pc = "dialogue"
  /\ DialogueFetches("mission", Mission)
  /\ Going("dialogue demos")
  /\ UNCHANGED <<planVars, inventory, skillVars, roleVars, cutShort>>

(* Then _build_skill_node raises: the step is left to the other handlers,  *)
(* the plan is not rescued.                                                *)
DialogueFetched ==
  /\ pc = "dialogue demos"
  /\ DialogueFetches("demos", Mission)
  /\ Rest
  /\ UNCHANGED <<planVars, inventory, skillVars, roleVars, cutShort>>

-----------------------------------------------------------------------------
(* What happens to a step from outside. *)

(* The worker's timeout, at any await.                                     *)
Cancel ==
  /\ pc # "idle"
  /\ StepRaises
  /\ IF pc = "role" THEN SwitchFails ELSE UNCHANGED roleVars
  /\ LeaveWrite
  /\ UNCHANGED <<inventory, mineDojoVars>>

Restart ==
  /\ AgentRestarts /\ ForgetTree /\ ForgetMissions
  /\ Rest /\ NewPlan
  /\ inventory' = {} /\ cutShort' = FALSE
  /\ UNCHANGED steps

BotDown ==
  /\ BotRestarts
  /\ botSkills' = {}
  /\ UNCHANGED <<kept, stored, active, fetched, pc, stepVars, planVars,
                 inventory, cutShort, skillVars>>

StepSame == UNCHANGED <<pc, stepVars, planVars, inventory, cutShort, mineDojoVars>>
RolesMove == RolesAside /\ UNCHANGED skillVars /\ StepSame
FileWritten == WriteEnds /\ UNCHANGED roleVars /\ StepSame

(* A write fails; the step that waits for it, if one does, ends with it.   *)
WriteBreaks ==
  /\ \E i \in DOMAIN writes :
       /\ WriteFails(i)
       /\ IF writes[i].own THEN StepRaises
          ELSE UNCHANGED <<pc, stepVars, planVars, cutShort>>
  /\ UNCHANGED <<roleVars, inventory, mineDojoVars>>

Work ==
  \/ AttachContext \/ MissionFetched \/ DemosFetched \/ Primed \/ RegisterDemo
  \/ RegisterFails \/ DemoSaved
  \/ Initialize \/ SeekSkill \/ InvokeSkill \/ UsageCounted \/ TriggerExploration
  \/ ApplyPolicy \/ RoleAnswered
  \/ MoveToPlayer \/ Followed \/ Move \/ Moved
  \/ Equip \/ ItemsSeen \/ Equipped \/ ItemsRenewed \/ Mine \/ Mined \/ Queue \/ Said
  \/ StepEnds \/ FollowedUp \/ Detected \/ DialogueGoes \/ DialogueFetched

Next ==
  \/ Begin \/ Detect \/ Dialogue \/ Work \/ Cancel \/ Restart \/ BotDown
  \/ RolesMove \/ FileWritten \/ WriteBreaks

Spec == Init /\ [][Next]_vars

-----------------------------------------------------------------------------

(* The bot is sent home only in a plan that was given no place and has     *)
(* reached none: no step in between, of whatever category and outcome,     *)
(* loses the place that a later move without one goes to (move_handler.py, *)
(* directive_executor.py: last_target_coords).                             *)
HomeOnlyLost == pc = "moving" /\ fallback => places = {}

(* The demonstration of the active mission is a skill of the agent, even   *)
(* if the bot could not play it: nothing keeps it out of the tree but a    *)
(* step that was cancelled on the way, or that could not read the tree;    *)
(* both leave the mission active, and no later step of it registers it.    *)
ActiveRegistered ==
  active.demos /\ ~cutShort /\ pc \notin {"prime", "register"}
    => Has(Tree, DemoSkill(active.id))

=============================================================================
