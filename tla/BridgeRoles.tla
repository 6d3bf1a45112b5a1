------------------------------ MODULE BridgeRoles ------------------------------
(***************************************************************************)
(* The role of the player in the game, kept twice:                         *)
(*                                                                         *)
(*   node-bot lifecycleService.ts   the role the bot has (botRole)         *)
(*   python/bridge_role_handler.py  the role the agent believes it has     *)
(*   python/runtime/bridge_events.py    the events that change that belief *)
(*                                                                         *)
(* The agent asks for a role with a command (apply_role_switch) and hears  *)
(* of every switch by an event, in the order the bot sent them.  Commands  *)
(* go over connections of their own: one that timed out may still reach    *)
(* the bot, after a later one.  handle_agent_event has no await and is one *)
(* action; apply_role_switch is cut at its only await.                     *)
(***************************************************************************)
EXTENDS Naturals, Sequences, SequencesExt

CONSTANTS
  Roles,       \* ROLE_CATALOG of roles.ts
  Generalist,  \* the role both sides start with
  Defender,    \* the role a threat asks for
  Supplier,    \* the role a shortage asks for
  NoRole,      \* None
  MaxEvents    \* bound: losses and restarts

ASSUME RolesAssumption ==
  /\ {Generalist, Defender, Supplier} \subseteq Roles
  /\ NoRole \notin Roles
  /\ MaxEvents \in Nat

VARIABLES
  current,    \* BridgeRoleHandler._current_role_id
  pending,    \* its _pending_role
  asking,     \* the role apply_role_switch waits for, or NoRole
  order,      \* that command: "none", "sent", "executed", "broken": its
              \* answer will not come
  stray,      \* the roles of commands reported as failed, still on their way
  botRole,    \* agentRoleState.activeRole
  updates,    \* roleUpdate events on their way, oldest first
  estranged,  \* an event was lost, a side restarted, or an answer overwrote
              \* what an update of a later switch had said, and the bot has
              \* not switched since (history)
  events      \* how many losses and restarts there have been

roleVars == <<current, pending, asking, order, stray, botRole, updates,
              estranged, events>>

RolesTypeOK ==
  /\ current \in Roles /\ botRole \in Roles
  /\ pending \in Roles \cup {NoRole}
  /\ asking \in Roles \cup {NoRole}
  /\ order \in {"none", "sent", "executed", "broken"}
  /\ (asking = NoRole) <=> (order = "none")
  /\ stray \subseteq Roles
  /\ updates \in Seq(Roles)
  /\ estranged \in BOOLEAN
  /\ events \in Nat

RolesInit ==
  /\ current = Generalist /\ botRole = Generalist
  /\ pending = NoRole /\ asking = NoRole /\ order = "none"
  /\ stray = {} /\ updates = <<>>
  /\ estranged = FALSE
  /\ events = 0

-----------------------------------------------------------------------------
(* The agent. *)

(* request_role_switch: a wish for the role one has is ignored, any other  *)
(* replaces the wish before it.                                            *)
Requested(wish, role) == IF role = current THEN wish ELSE role

(* A status event carries a threat, a shortage or both; the shortage is    *)
(* looked at last.                                                         *)
StatusEvent(threat, shortage) ==
  /\ threat \/ shortage
  /\ LET alarmed == IF threat THEN Requested(pending, Defender) ELSE pending
     IN  pending' = IF shortage THEN Requested(alarmed, Supplier) ELSE alarmed
  /\ UNCHANGED <<current, asking, order, stray, botRole, updates, estranged, events>>

(* roleUpdate of the primary agent: _apply_primary_role_update.            *)
UpdateArrives ==
  /\ updates # <<>>
  /\ current' = Head(updates)
  /\ updates' = Tail(updates)
  /\ UNCHANGED <<pending, asking, order, stray, botRole, estranged, events>>

(* apply_role_policy of a step that began in the role start: the wish is   *)
(* consumed in any case; what it asks for, NoRole for nothing.             *)
Wish(start) == IF pending \in {start, current} THEN NoRole ELSE pending

ApplyRolePolicy(start) ==
  /\ asking = NoRole
  /\ pending' = NoRole
  /\ asking' = Wish(start)
  /\ order' = IF Wish(start) = NoRole THEN "none" ELSE "sent"
  /\ UNCHANGED <<current, stray, botRole, updates, estranged, events>>

(* The answer is ok: the agent takes the role it asked for, whatever       *)
(* updates it heard since it asked.                                        *)
SwitchGranted ==
  /\ order = "executed"
  /\ current' = asking
  /\ asking' = NoRole /\ order' = "none"
  /\ estranged' = (estranged \/ (updates = <<>> /\ botRole # asking))
  /\ UNCHANGED <<pending, stray, botRole, updates, events>>

(* Mutation: the answer is not looked at. *)
SwitchFailsUnseen ==
  /\ order # "none"
  /\ stray' = stray
  /\ current' = asking
  /\ asking' = NoRole /\ order' = "none"
  /\ UNCHANGED <<pending, botRole, updates, estranged, events>>

(* No answer in time, or no connection, or the step is cancelled: the      *)
(* command was executed, is lost, or will still be executed.               *)
SwitchFails ==
  /\ order # "none"
  /\ stray' \in {stray} \cup IF order = "sent" THEN {stray \cup {asking}} ELSE {}
  /\ asking' = NoRole /\ order' = "none"
  /\ UNCHANGED <<current, pending, botRole, updates, estranged, events>>

AgentRestarts ==
  /\ events < MaxEvents
  /\ events' = events + 1
  /\ current' = Generalist /\ pending' = NoRole
  /\ stray' = stray \cup IF order = "sent" THEN {asking} ELSE {}
  /\ asking' = NoRole /\ order' = "none"
  /\ estranged' = TRUE
  /\ UNCHANGED <<botRole, updates>>

-----------------------------------------------------------------------------
(* The bot: handleSetAgentRoleCommand sets the role, queues the event and  *)
(* then answers.                                                           *)

BotSwitches ==
  /\ order = "sent"
  /\ order' = "executed"
  /\ botRole' = asking
  /\ updates' = Append(updates, asking)
  /\ estranged' = FALSE
  /\ UNCHANGED <<current, pending, asking, stray, events>>

StraySwitches ==
  /\ \E role \in stray :
       /\ stray' = stray \ {role}
       /\ botRole' = role
       /\ updates' = Append(updates, role)
  /\ estranged' = FALSE
  /\ UNCHANGED <<current, pending, asking, order, events>>

BotRestarts ==
  /\ events < MaxEvents
  /\ events' = events + 1
  /\ botRole' = Generalist
  /\ updates' = <<>> /\ stray' = {}
  /\ order' = IF order = "executed" THEN "broken" ELSE order
  /\ estranged' = TRUE
  /\ UNCHANGED <<current, pending, asking>>

UpdateLost ==
  /\ events < MaxEvents
  /\ events' = events + 1
  /\ \E i \in DOMAIN updates : updates' = RemoveAt(updates, i)
  /\ estranged' = TRUE
  /\ UNCHANGED <<current, pending, asking, order, stray, botRole>>

(* What happens to the role without the step that runs.                    *)
RolesAside ==
  \/ \E threat, shortage \in BOOLEAN : StatusEvent(threat, shortage)
  \/ UpdateArrives \/ BotSwitches \/ StraySwitches \/ UpdateLost

RolesNext ==
  \/ RolesAside \/ AgentRestarts \/ BotRestarts
  \/ \E start \in Roles : ApplyRolePolicy(start)
  \/ SwitchGranted \/ SwitchFails

RolesSpec == RolesInit /\ [][RolesNext]_roleVars

-----------------------------------------------------------------------------
(* The agent and the bot agree on the role as soon as no event is on its   *)
(* way, also after commands that failed, were lost or came late.  Three    *)
(* things part them until the bot switches again: a lost event, a restart, *)
(* and the answer to a switch that comes when the update of a later one    *)
(* was heard already; it puts the older role in the place of the newer     *)
(* (bridge_role_handler.py: apply_role_switch).                            *)
AgreeWhenQuiet == updates = <<>> /\ ~estranged => current = botRole
=============================================================================
