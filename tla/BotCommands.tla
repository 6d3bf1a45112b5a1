----------------------------- MODULE BotCommands -----------------------------
(***************************************************************************)
(* A command from the Python agent to the player in the game:              *)
(*                                                                         *)
(*   python/bridge_ws.py       one connection per command, with retries    *)
(*   node-bot/runtime/server.ts, bot.ts            receiving, dispatching  *)
(*   commands/*.ts, navigationController.ts, localNavigation.ts            *)
(*                             what the commands do with the bot           *)
(*   movementControl.ts        the lock that keeps them apart              *)
(*                                                                         *)
(* next to the wood collection, which the player starts from the chat.     *)
(* The Node bot is one thread: an action is the code between two awaits.   *)
(* Routes, blocks and items are left out; an await that depends on them    *)
(* ends in any of the ways the code tells apart.                           *)
(***************************************************************************)
EXTENDS Naturals, FiniteSets

CONSTANTS
  Commands,    \* the commands the agent sends, at most one run of each
  Kinds,       \* which kinds of command it may send
  BotObjects,        \* how many bot objects there are, one after the other
  MaxRetries,    \* BotBridge.max_retries
  Tries        \* bound on ores, forced-move retries and steps of a walk

ASSUME CommandsAssumption ==
  /\ Kinds \subseteq {"say", "moveTo", "followPlayer", "mineOre", "playVptActions", "equipItem"}
  /\ BotObjects \in Nat \ {0}
  /\ MaxRetries \in Nat \ {0}
  /\ Tries \in Nat \ {0}
  /\ "wood" \notin Commands /\ "nobody" \notin Commands

VARIABLES
  \* the agent
  kind,      \* the type of a command
  py,        \* where BotBridge.send is, and what it returned
  attempt,   \* its attempt
  \* between the two
  wire,      \* how many messages of a command are on their way
  answer,    \* the answer on its way: "none", "ok", "no"
  \* the Node bot
  pc,        \* where the handler is
  on,        \* activeBot of the handler
  left,      \* what is left of Tries
  style,     \* profile of the goto of a handler
  mined,     \* results of mineOre are not empty
  runs,      \* how often the command was executed (history)
  owner,     \* movementControl: who holds a bot
  profile,   \* pathfinder.movements of a bot: "walk", "dig"
  previous,  \* previousMovements of the goto under way
  moveTo,    \* moveToInFlight and moveToActiveBot
  rendezvous,\* rendezvousInFlight and rendezvousActiveBot
  vpt,       \* isVptPlaybackActive
  wood,      \* the wood run: "idle", "between" awaits without the lock, "leg"
  woodBot,
  active,    \* the bot getActiveBot returns; 0: null
  born       \* how many bot objects there have been

agent == <<kind, py, attempt>>
handler == <<pc, on, left, style, mined, runs>>
control == <<owner, profile, previous, moveTo, rendezvous, vpt>>
woodRun == <<wood, woodBot>>
game == <<active, born>>
commandVars == <<agent, wire, answer, handler, control, woodRun, game>>

Bot == 1..BotObjects
NoFlight == [cmd |-> "nobody", bot |-> 0]

Reported == {"ok", "no", "unsent", "unknown", "cancelled"}
Driving == {"goto", "delay", "target", "walk", "play"}

TypeOK ==
  /\ kind \in [Commands -> Kinds]
  /\ py \in [Commands -> {"idle", "connect", "wait"} \cup Reported]
  /\ attempt \in [Commands -> 0..MaxRetries]
  /\ wire \in [Commands -> Nat]
  /\ answer \in [Commands -> {"none", "ok", "no"}]
  /\ pc \in [Commands -> Driving \cup {"none", "aim", "dig", "equip", "ended"}]
  /\ on \in [Commands -> 0..BotObjects]
  /\ left \in [Commands -> 0..Tries]
  /\ style \in [Commands -> {"walk", "dig"}]
  /\ mined \in [Commands -> BOOLEAN]
  /\ runs \in [Commands -> Nat]
  /\ owner \in [Bot -> Commands \cup {"wood", "nobody"}]
  /\ profile \in [Bot -> {"walk", "dig"}]
  /\ previous \in [Bot -> {"walk", "dig"}]
  /\ moveTo \in [cmd : Commands \cup {"nobody"}, bot : 0..BotObjects]
  /\ rendezvous \in [cmd : Commands \cup {"nobody"}, bot : 0..BotObjects]
  /\ vpt \in BOOLEAN
  /\ wood \in {"idle", "between", "leg"}
  /\ woodBot \in 0..BotObjects
  /\ active \in 0..BotObjects
  /\ born \in 1..BotObjects

CommandsInit ==
  /\ kind \in [Commands -> Kinds]
  /\ py = [c \in Commands |-> "idle"]
  /\ attempt = [c \in Commands |-> 0]
  /\ wire = [c \in Commands |-> 0]
  /\ answer = [c \in Commands |-> "none"]
  /\ pc = [c \in Commands |-> "none"]
  /\ on = [c \in Commands |-> 0]
  /\ left = [c \in Commands |-> 0]
  /\ style = [c \in Commands |-> "walk"]
  /\ mined = [c \in Commands |-> FALSE]
  /\ runs = [c \in Commands |-> 0]
  /\ owner = [b \in Bot |-> "nobody"]
  /\ profile = [b \in Bot |-> "walk"]
  /\ previous = [b \in Bot |-> "walk"]
  /\ moveTo = NoFlight
  /\ rendezvous = NoFlight
  /\ vpt = FALSE
  /\ wood = "idle"
  /\ woodBot = 0
  /\ active = 1
  /\ born = 1

-----------------------------------------------------------------------------
(* The agent: bridge_ws.py *)

Become(c, where) == py' = [py EXCEPT ![c] = where]

Dispatch(c) ==
  /\ py[c] = "idle"
  /\ Become(c, "connect")
  /\ attempt' = [attempt EXCEPT ![c] = 1]
  /\ UNCHANGED <<kind, wire, answer, handler, control, woodRun, game>>

\* Connecting fails: the only stage that is tried again.
ConnectFails(c) ==
  /\ py[c] = "connect"
  /\ IF attempt[c] < MaxRetries
     THEN attempt' = [attempt EXCEPT ![c] = @ + 1] /\ UNCHANGED py
     ELSE Become(c, "unsent") /\ UNCHANGED attempt
  /\ UNCHANGED <<kind, wire, answer, handler, control, woodRun, game>>

\* The connection stands and the message is sent; send() may time out although
\* the message arrives.
SendMessage(c) ==
  /\ py[c] = "connect"
  /\ wire' = [wire EXCEPT ![c] = @ + 1]
  /\ Become(c, "wait")
  /\ UNCHANGED <<kind, attempt, answer, handler, control, woodRun, game>>

\* Mutant: every stage is tried again.
RetryAnyStage(c) ==
  IF attempt[c] < MaxRetries
  THEN Become(c, "connect") /\ attempt' = [attempt EXCEPT ![c] = @ + 1]
  ELSE Become(c, "unknown") /\ UNCHANGED attempt

\* What follows a failure after the message was sent: no second attempt.
AfterSendFailure(c) == Become(c, "unknown") /\ UNCHANGED attempt

\* send or recv times out or fails, and the message may be lost with the
\* connection.
SendOrRecvFails(c) ==
  /\ py[c] = "wait"
  /\ AfterSendFailure(c)
  /\ wire' \in {wire, [wire EXCEPT ![c] = 0]}
  /\ UNCHANGED <<kind, answer, handler, control, woodRun, game>>

RecvAnswer(c) ==
  /\ py[c] = "wait"
  /\ answer[c] # "none"
  /\ Become(c, answer[c])
  /\ UNCHANGED <<kind, attempt, wire, answer, handler, control, woodRun, game>>

\* The chat worker cancels the step that waits.
Cancel(c) ==
  /\ py[c] \in {"connect", "wait"}
  /\ Become(c, "cancelled")
  /\ UNCHANGED <<kind, attempt, wire, answer, handler, control, woodRun, game>>

Agent(c) ==
  Dispatch(c) \/ ConnectFails(c) \/ SendMessage(c) \/ SendOrRecvFails(c)
    \/ RecvAnswer(c) \/ Cancel(c)

-----------------------------------------------------------------------------
(* The lock: movementControl.ts, and who moves or digs *)

\* Mutant: a lock for all bots, as long as it is the wood run that asks.
FreeUnlessWood(b) == owner[b] \in {"nobody", "wood"}

Free(b) == owner[b] = "nobody"

\* gotoWithForcedMoveRetry, navigateLocally, VPT playback and the wood run take
\* the bot; a goto sets its profile as well.
Take(b, who, how) ==
  /\ owner' = [owner EXCEPT ![b] = who]
  /\ previous' = [previous EXCEPT ![b] = profile[b]]
  /\ profile' = [profile EXCEPT ![b] = how]

\* Mutant: the bot is given back before the profile is.
ReleaseOnly(b) ==
  /\ owner' = [owner EXCEPT ![b] = "nobody"]
  /\ previous' = [previous EXCEPT ![b] = "walk"]
  /\ UNCHANGED profile

\* The finally blocks: the profile is put back, the bot given back.
Release(b) ==
  /\ owner' = [owner EXCEPT ![b] = "nobody"]
  /\ profile' = [profile EXCEPT ![b] = previous[b]]
  /\ previous' = [previous EXCEPT ![b] = "walk"]

\* pathfinder.isMoving() and bot.targetDigBlock.
IsMoving(b) == \E c \in Commands : on[c] = b /\ pc[c] = "goto"
IsDigging(b) == \E c \in Commands : on[c] = b /\ pc[c] = "dig"

-----------------------------------------------------------------------------
(* The Node bot: receiving and answering *)

\* The handler ends with an answer, or by an exception that answers nothing; its
\* locals are gone.
Ends(c, result) ==
  /\ pc' = [pc EXCEPT ![c] = "ended"]
  /\ on' = [on EXCEPT ![c] = 0]
  /\ left' = [left EXCEPT ![c] = 0]
  /\ style' = [style EXCEPT ![c] = "walk"]
  /\ mined' = [mined EXCEPT ![c] = FALSE]
  /\ answer' = IF result = "throw" THEN answer ELSE [answer EXCEPT ![c] = result]

\* A message arrives: from here to the first await is one step.
Receive(c) ==
  /\ wire[c] > 0
  /\ pc[c] \in {"none", "ended"}
  /\ wire' = [wire EXCEPT ![c] = @ - 1]
  /\ runs' = [runs EXCEPT ![c] = @ + 1]
  /\ UNCHANGED <<agent, woodRun, game>>

\* executeCommand: while wood is collected only what does not move the bot is
\* served.  Then each handler wants a bot.
\* Mutant: equipping and moving are let in.
GateOfMining(c) == kind[c] # "mineOre" \/ wood = "idle"

Gate(c) == kind[c] = "say" \/ wood = "idle"
Served(c) == Gate(c) /\ active # 0

Refuse(c) ==
  /\ Ends(c, "no")
  /\ UNCHANGED control

Refused(c) ==
  /\ Receive(c)
  /\ ~Served(c)
  /\ Refuse(c)

\* A handler that answers before it waits for anything.
AtOnce(c, what, results) ==
  /\ kind[c] = what
  /\ Receive(c)
  /\ Served(c)
  /\ \E result \in results : Ends(c, result)
  /\ UNCHANGED control

\* handleChatCommand.
Say(c) == AtOnce(c, "say", {"ok", "no"})

\* Coordinates that are no numbers; a target or distance that is not one.
MoveInvalid(c) == AtOnce(c, "moveTo", {"no"})
FollowInvalid(c) == AtOnce(c, "followPlayer", {"no"})

\* Wood is refused, an ore is unknown or not in sight; the world of a bot that is
\* just going away throws.
NothingToMine(c) == AtOnce(c, "mineOre", {"no", "throw"})

\* Actions that are malformed or too many; none at all is a success.
VptInvalid(c) == AtOnce(c, "playVptActions", {"no", "ok"})

\* The inventory has no such item.
NothingToEquip(c) == AtOnce(c, "equipItem", {"no", "throw"})

Begin(c, where, n, how) ==
  /\ pc' = [pc EXCEPT ![c] = where]
  /\ on' = [on EXCEPT ![c] = active]
  /\ left' = [left EXCEPT ![c] = n]
  /\ style' = [style EXCEPT ![c] = how]
  /\ UNCHANGED <<answer, mined>>

-----------------------------------------------------------------------------
(* moveTo: navigationController.ts *)

\* Another moveTo or followPlayer of this bot is under way.
Navigating(b) ==
  \/ rendezvous.cmd # "nobody" /\ rendezvous.bot = b
  \/ moveTo.cmd # "nobody" /\ moveTo.bot = b

MoveToStart(c) ==
  /\ kind[c] = "moveTo"
  /\ Receive(c)
  /\ Served(c)
  /\ IF Navigating(active)
     THEN Refuse(c)
     ELSE IF ~Free(active)
          THEN \* the flight is noted and over at once
               /\ Ends(c, "no")
               /\ moveTo' = NoFlight
               /\ UNCHANGED <<owner, profile, previous, rendezvous, vpt>>
          ELSE /\ Begin(c, "goto", Tries, "walk")
               /\ Take(active, c, "walk")
               /\ moveTo' = [cmd |-> c, bot |-> active]
               /\ UNCHANGED <<rendezvous, vpt>>

\* A forced move interrupts the goto: the same route again after a delay, with
\* the bot still held.
ForcedMove(c) ==
  /\ pc[c] = "goto"
  /\ left[c] > 0
  /\ left' = [left EXCEPT ![c] = @ - 1]
  /\ pc' = [pc EXCEPT ![c] = "delay"]
  /\ UNCHANGED <<agent, wire, answer, on, style, mined, runs, control, woodRun, game>>

Resume(c) ==
  /\ pc[c] = "delay"
  /\ pc' = [pc EXCEPT ![c] = "goto"]
  /\ UNCHANGED <<agent, wire, answer, on, left, style, mined, runs, control, woodRun, game>>

FlightEnds(flight, c) == IF flight.cmd = c THEN NoFlight ELSE flight

\* The goto of moveTo ends.
MoveToEnds(c) ==
  /\ pc[c] = "goto"
  /\ kind[c] = "moveTo"
  /\ \E result \in {"ok", "no"} : Ends(c, result)
  /\ Release(on[c])
  /\ moveTo' = FlightEnds(moveTo, c)
  /\ UNCHANGED <<agent, wire, runs, rendezvous, vpt, woodRun, game>>

\* There is no path on foot: give the bot back and take it again, allowed to dig.
Fallback(c) ==
  /\ pc[c] = "goto"
  /\ kind[c] = "moveTo"
  /\ style[c] = "walk"
  /\ style' = [style EXCEPT ![c] = "dig"]
  /\ left' = [left EXCEPT ![c] = Tries]
  /\ profile' = [profile EXCEPT ![on[c]] = "dig"]
  /\ UNCHANGED <<agent, wire, answer, pc, on, mined, runs, owner, previous, moveTo, rendezvous, vpt, woodRun, game>>

-----------------------------------------------------------------------------
(* followPlayer: navigationController.ts, localNavigation.ts *)

\* navigateLocally takes the bot only when nothing walks, digs or holds it.
FollowStart(c) ==
  /\ kind[c] = "followPlayer"
  /\ Receive(c)
  /\ Served(c)
  /\ IF Navigating(active)
     THEN Refuse(c)
     ELSE IF IsMoving(active) \/ IsDigging(active) \/ ~Free(active)
          THEN /\ Ends(c, "no")
               /\ rendezvous' = NoFlight
               /\ UNCHANGED <<owner, profile, previous, moveTo, vpt>>
          ELSE /\ Begin(c, "target", Tries, "walk")
               /\ Take(active, c, profile[active])
               /\ rendezvous' = [cmd |-> c, bot |-> active]
               /\ UNCHANGED <<moveTo, vpt>>

FollowOver(c, result) ==
  /\ Ends(c, result)
  /\ Release(on[c])
  /\ rendezvous' = FlightEnds(rendezvous, c)
  /\ UNCHANGED <<agent, wire, runs, moveTo, vpt, woodRun, game>>

\* Where the player is comes from the entity in sight or from the plugin: unknown,
\* offline, in another dimension, or not answered before the deadline.
TargetUnknown(c) ==
  /\ pc[c] = "target"
  /\ FollowOver(c, "no")

\* It is known, but the bot has been replaced, stands or would arrive in danger,
\* or the search over the blocks around finds no way.
NoRoute(c) ==
  /\ pc[c] = "target"
  /\ FollowOver(c, "no")

\* It is near enough.
Arrived(c) ==
  /\ pc[c] = "target"
  /\ on[c] = active
  /\ FollowOver(c, "ok")

\* A step of the route; after the last of MAX_STEPS the run is over.
FollowStep(c) ==
  /\ pc[c] = "target"
  /\ on[c] = active
  /\ IF left[c] = 0
     THEN FollowOver(c, "no")
     ELSE /\ pc' = [pc EXCEPT ![c] = "walk"]
          /\ left' = [left EXCEPT ![c] = @ - 1]
          /\ UNCHANGED <<agent, wire, answer, on, style, mined, runs, control, woodRun, game>>

\* The step is done, or the bot is stuck or the terrain has changed: look again
\* where the player is.
StepDone(c) ==
  /\ pc[c] = "walk"
  /\ on[c] = active
  /\ pc' = [pc EXCEPT ![c] = "target"]
  /\ UNCHANGED <<agent, wire, answer, on, left, style, mined, runs, control, woodRun, game>>

\* The bot is gone, the deadline has come, no physics tick comes any more, or too
\* many steps failed.
StepFails(c) ==
  /\ pc[c] = "walk"
  /\ FollowOver(c, "no")

-----------------------------------------------------------------------------
(* mineOre: coreCommands.ts *)

MineStart(c) ==
  /\ kind[c] = "mineOre"
  /\ Receive(c)
  /\ Served(c)
  /\ UNCHANGED <<moveTo, rendezvous, vpt>>
  /\ IF Free(active)
     THEN /\ Begin(c, "goto", Tries, "dig")
          /\ Take(active, c, "dig")
     ELSE \* navigation_busy for every ore
          /\ Ends(c, "no")
          /\ UNCHANGED <<owner, profile, previous>>

\* The ore is reached and still there: dig, without holding the bot.  dig()
\* first turns the head; only then is targetDigBlock set.
MineReached(c) ==
  /\ pc[c] = "goto"
  /\ kind[c] = "mineOre"
  /\ pc' = [pc EXCEPT ![c] = "aim"]
  /\ Release(on[c])
  /\ UNCHANGED <<agent, wire, answer, on, left, style, mined, runs, moveTo, rendezvous, vpt, woodRun, game>>

MineDig(c) ==
  /\ pc[c] = "aim"
  /\ pc' = [pc EXCEPT ![c] = "dig"]
  /\ UNCHANGED <<agent, wire, answer, on, left, style, mined, runs, control, woodRun, game>>

\* The next ore, if there is one and the bot is free; ores for which it is not
\* are passed over.
NextOre(c, holds, got) ==
  /\ UNCHANGED <<agent, wire, runs, moveTo, rendezvous, vpt, woodRun, game>>
  /\ \/ /\ left[c] > 0
        /\ holds \/ Free(on[c])
        /\ left' = [left EXCEPT ![c] = @ - 1]
        /\ pc' = [pc EXCEPT ![c] = "goto"]
        /\ mined' = [mined EXCEPT ![c] = got]
        /\ IF holds THEN UNCHANGED <<owner, profile, previous>> ELSE Take(on[c], c, "dig")
        /\ UNCHANGED <<answer, on, style>>
     \/ /\ left[c] = 0 \/ ~(holds \/ Free(on[c]))
        /\ Ends(c, IF got THEN "ok" ELSE "no")
        /\ IF holds THEN Release(on[c]) ELSE UNCHANGED <<owner, profile, previous>>

\* The ore cannot be reached, or is gone.
MineMissed(c) ==
  /\ pc[c] = "goto"
  /\ kind[c] = "mineOre"
  /\ NextOre(c, TRUE, mined[c])

\* The dig ends, or fails, also by somebody's stopDigging().
MineDug(c) ==
  /\ pc[c] \in {"aim", "dig"}
  /\ \E dug \in BOOLEAN : NextOre(c, FALSE, mined[c] \/ dug)

-----------------------------------------------------------------------------
(* playVptActions: vptCommands.ts;  equipItem: equipItemCommand.ts *)

VptStart(c) ==
  /\ kind[c] = "playVptActions"
  /\ Receive(c)
  /\ Served(c)
  /\ IF vpt \/ ~Free(active)
     THEN Refuse(c)
     ELSE /\ Begin(c, "play", 0, "walk")
          /\ Take(active, c, profile[active])
          /\ vpt' = TRUE
          /\ UNCHANGED <<moveTo, rendezvous>>

VptEnds(c) ==
  /\ pc[c] = "play"
  /\ \E result \in {"ok", "no"} : Ends(c, result)
  /\ Release(on[c])
  /\ vpt' = FALSE
  /\ UNCHANGED <<agent, wire, runs, moveTo, rendezvous, woodRun, game>>

EquipStart(c) ==
  /\ kind[c] = "equipItem"
  /\ Receive(c)
  /\ Served(c)
  /\ Begin(c, "equip", 0, "walk")
  /\ UNCHANGED control

EquipEnds(c) ==
  /\ pc[c] = "equip"
  /\ \E result \in {"ok", "no"} : Ends(c, result)
  /\ UNCHANGED <<agent, wire, runs, control, woodRun, game>>

-----------------------------------------------------------------------------
(* The wood run (forestry.ts), as far as the lock is concerned, and the bot *)

\* The bot is free, not moving and not digging: the probe lets go at once.
WoodStart ==
  /\ wood = "idle"
  /\ active # 0
  /\ Free(active) /\ ~IsMoving(active) /\ ~IsDigging(active)
  /\ wood' = "between"
  /\ woodBot' = active
  /\ UNCHANGED <<agent, wire, answer, handler, control, game>>

\* A walk, a dig or a chest: it takes the bot, or fails if that is held.
WoodLeg ==
  /\ wood = "between"
  /\ woodBot = active
  /\ Free(woodBot)
  /\ wood' = "leg"
  /\ Take(woodBot, "wood", profile[woodBot])
  /\ UNCHANGED <<agent, wire, answer, handler, moveTo, rendezvous, vpt, woodBot, game>>

WoodLegEnds ==
  /\ wood = "leg"
  /\ wood' = "between"
  /\ Release(woodBot)
  /\ UNCHANGED <<agent, wire, answer, handler, moveTo, rendezvous, vpt, woodBot, game>>

WoodEnds ==
  /\ wood = "between"
  /\ wood' = "idle"
  /\ woodBot' = 0
  /\ UNCHANGED <<agent, wire, answer, handler, control, game>>

\* The connection to the game is lost; another bot object takes its place.
BotLost ==
  /\ active # 0
  /\ active' = 0
  /\ UNCHANGED <<agent, wire, answer, handler, control, woodRun, born>>

BotSpawns ==
  /\ active = 0
  /\ born < BotObjects
  /\ born' = born + 1
  /\ active' = born'
  /\ UNCHANGED <<agent, wire, answer, handler, control, woodRun>>

-----------------------------------------------------------------------------
Handler(c) ==
  \/ Refused(c) \/ Say(c) \/ MoveInvalid(c) \/ FollowInvalid(c)
  \/ NothingToMine(c) \/ VptInvalid(c) \/ NothingToEquip(c)
  \/ MoveToStart(c) \/ ForcedMove(c) \/ Resume(c) \/ MoveToEnds(c) \/ Fallback(c)
  \/ FollowStart(c) \/ TargetUnknown(c) \/ NoRoute(c) \/ Arrived(c)
  \/ FollowStep(c) \/ StepDone(c) \/ StepFails(c)
  \/ MineStart(c) \/ MineReached(c) \/ MineDig(c) \/ MineMissed(c) \/ MineDug(c)
  \/ VptStart(c) \/ VptEnds(c) \/ EquipStart(c) \/ EquipEnds(c)

CommandsNext ==
  \/ \E c \in Commands : Agent(c) \/ Handler(c)
  \/ WoodStart \/ WoodLeg \/ WoodLegEnds \/ WoodEnds
  \/ BotLost \/ BotSpawns

CommandsSpec == CommandsInit /\ [][CommandsNext]_commandVars

-----------------------------------------------------------------------------
(* Properties *)

Drivers(b) ==
  {c \in Commands : on[c] = b /\ pc[c] \in Driving}
    \cup (IF wood = "leg" /\ woodBot = b THEN {"wood"} ELSE {})

\* Whoever walks or plays back input holds the bot, so nobody does so beside him;
\* and a bot that nobody moves is not held, on every way a handler ends.
LockIsHeld == \A b \in Bot : Drivers(b) = {owner[b]} \ {"nobody"}

\* A bot that is not held walks with the cautious profile: a goto that was
\* allowed to dig has put it back, whichever way it ended.
ProfileBack == \A b \in Bot : Free(b) => profile[b] = "walk"

\* A command is executed at most once, whatever is tried again; one that is
\* reported as not connected has not been and will not be; one that is reported
\* as done has ended.
SentOnce == \A c \in Commands :
  /\ runs[c] + wire[c] <= 1
  /\ py[c] = "unsent" => runs[c] + wire[c] = 0
  /\ py[c] \in {"ok", "no"} => pc[c] = "ended"

\* While wood is collected no command walks or plays back input on that bot, but
\* a mineOre that was let in before.
WoodUndisturbed == \A c \in Commands :
  wood # "idle" /\ on[c] = woodBot /\ pc[c] \in Driving => kind[c] = "mineOre"

=============================================================================
