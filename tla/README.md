# A verification of the Minecraft agent

The program is a bot that a player talks to in a Minecraft chat.  Three
processes work together:

- the **Python agent** (`src/python`) takes chats, asks a language model for a
  plan, runs its steps, recovers from failures and remembers them;
- the **Node bot** (`src/node-bot`) is the player in the game: it moves, digs,
  fells trees, and reports chats and events to the agent over WebSockets;
- the **bridge plugin** (`src/bridge-plugin`, Java) runs inside the Paper
  server: it registers mining jobs, protects their regions, finds liquids, and
  guards what a bot may break while it fells trees.

This directory holds TLA+ modules that model these parts, configurations that
model-check them with TLC, and theorems that TLAPS proves.  `PROJECT.json`
lists the components, the runs, the hazards, the mutants (a plausible bug for
each property, which TLC must find) and, for every definition, the lines of
code it stands for.

## 1. Inventory

| Component | State | Operations | Talks to |
|---|---|---|---|
| Chat queue (`runtime/chat_queue.py`, `runtime/websocket_server.py`) | an `asyncio.Queue` with its unfinished counter, a retry count per chat | `enqueue_chat`, `worker`, `_handle_queue_overflow` | called by WebSocket connections; calls the pipeline; says notices through the bot |
| Plan execution (`chat_pipeline.py`, `orchestrator/*`) | the current plan and step, replan depth, directive scope, text of the chat in memory | `run_chat_task`, `run`, `handle_step` and its handlers, `handle_failure`, `_request_replan` | planner, memory, bot commands |
| Memory and reflections (`memory.py`, `services/reflection_store.py`) | entries with a verdict, the active one, a JSON file | begin, finalize, persist, load | plan execution |
| Building (`services/building_service.py`, `runtime/building_plan_processor.py`) | phase, reserved materials, count of placed blocks | restore, advance, save, rollback | plan execution, memory |
| Tunnel mode (`modes/tunnel.py`, `bridge_client.py`) and job bridge (Java: handlers, `JobRegistry`, `WorldGuardFacade`, `LangGraphRetryHook`) | the miner's step; the jobs with their frontier, regions on the main thread | start, evaluate, inspect, mine, advance, stop | HTTP with timeouts and retries; main-thread tasks |
| Wood collection (`node-bot/runtime/forestry.ts`) | a work record in memory and on disk, busy, phase, stop and interrupt flags | chat commands, `run`, `harvest`, `pickup`, `returnAndStore`, `save` | forestry guard over HTTP |
| Forestry guard (Java: `ForestryGuard`, `NaturalWoodLedger`) | logs that were seen to grow, version of the changes, guarded bots, permits | world events, `check`, `breaking`, `release` | Paper events, wood collection |
| Agent bridge (`runtime/agentBridge.ts`) | session state, event queue, batch in flight, timers | emit, flush, retry, reconnect | agent's WebSocket |
| Navigation and movement (`movementControl.ts`, `navigationController.ts`, `localNavigation.ts`, commands) | a lock per bot, targets of moveTo and followPlayer | moveTo, followPlayer, mineOre, playback | the game |
| Command delivery (`bridge_ws.py`, `runtime/server.ts`) | one connection per command | send, dispatch, answer | plan execution, bot |
| Bot lifecycle, chat bridge (`services/lifecycleService.ts`, `services/chatBridge.ts`) | current bot, reconnect timer; socket, heartbeat, pending connection | spawn, loss, reconnect; connect, forward, close | the game, chat queue |
| Bridge events and roles (`runtime/bridge_events.py`, `bridge_role_handler.py`, `lifecycleService.ts`) | the bot's role, the role the agent believes in, its wish | consume an event, wish for a role, switch it | plugin, bot |
| Skills (`skills/models.py`, `services/skill_repository.py`) | a tree of skills with usage counts, its file, the bot's registry | load, save, match, count, register, play, explore | action graph |
| MineDojo support (`runtime/minedojo_handler.py`, `services/minedojo_client.py`, `runtime/minedojo.py`) | the active mission and demonstration, caches in memory and in files | attach a context, register a demonstration, dialogue | skills, bot |
| Action graph (`runtime/action_graph_builder.py`, `move_handler.py`, `action_analyzer.py`) | the step, the target of the last move, the inventory seen last | classify, context, skill, role, the module of the category | roles, skills, missions, bot |
| Planner (`planner/graph.py`, `planner/priority.py`, `llm/client.py`) | the answer of the LLM, the plan, the priority | call, parse, normalise, fall back, review | chat pipeline |
| Status (`runtime/status_service.py`, `perception_service.py`) | details of the bot in memory, notices already given | ask for a detail, retry, tell what is missing | chat pipeline, bot |
| VPT, start-up, facades, configuration, dashboard, telemetry | see section 6 | | |

### What is hard about it

- **Awaits.**  Both the Python agent and the Node bot are single-threaded; what
  interleaves is the code between two awaits.  A slot freed before an await is
  taken after it; a flag read before an await is stale after it.
- **Threads and ticks.**  The plugin handles HTTP requests on threads of its own,
  and changes the world on the server's main thread, waiting for it with a
  timeout: a request that was given up still runs.
- **Retries.**  Every HTTP request and every timed-out chat is tried again,
  and the first try may have been carried out.
- **Crashes.**  The record of a wood job, the reflections and the skills live
  in files; the process may die, or a write fail, between any two steps.
- **The world moves.**  Trees grow and burn, liquids flow, players build, while
  a permit or an evaluation is on its way.
- **Recursion through failure.**  Executor, recovery and replanning call each
  other; a depth limit is all that ends it.

### What makes each part correct

- Chat queue: no chat is lost, duplicated or run too often; the counter of
  unfinished tasks never drifts; every chat ends.
- Planning: nothing runs on a plan the LLM was not sure of, a plan is made on what
  is known of the bot or a notice says what is missing, and no chat ends without a say.
- Plan execution: one reflection at most awaits its verdict, a failure is not called
  a success, what was read from the file stays on it, and a call that is passed on moves
  nobody.
- Action graph: a move without a place goes home only if the plan knows no place.
- Skills and missions: the file says what the agent knows, unless a write failed; the
  demonstration of the active mission is a skill.
- Roles: agent and bot agree as soon as no event is on its way, the exceptions named.
- Commands and movement: a command is executed at most once; who moves the
  bot holds it, and gives it back as it was.
- Lifecycle and chat bridge: there is a bot or a timer that will make one; chats share
  one connection, and none waits for ever.
- Agent bridge: sockets accept the events in their order, each once, and one is dropped
  only when the queue is full.  What the agent gets is not promised: it does not
  acknowledge.
- Wood collection: what was gathered is on the record that survives a crash;
  what the player owned before is never given away; after a stop nothing new begins.
- Forestry guard: only trees that grew by themselves are felled.
- Building: the count names exactly the blocks handed out; besides a rollback, phases
  go back only for a missing layout or changed requirements.
- Tunnel mining: the miner stops after a liquid, offers every slice, and leaves
  nothing behind that no fault explains.

## 2. Plan

The order is that of importance: first what every chat goes through and what
persists, then the transports, then what a step consults on its way.

1. `ChatQueue` with the abstract `ChatDelivery`, and `ChatQueueProofs`.
2. `WoodCollection`, `ForestryGuard`, and `ForestryProofs` about both.
3. `PlanExecution` with the reflections, and `PlanExecutionProofs`.
4. `TunnelMining`: tunnel mode composed with the job bridge; `WorksiteProofs`.
5. `BuildingPhases`; its theorems are in `WorksiteProofs` too.
6. `BotCommands`: delivery of commands, the movement lock, every command that
   moves, and the wood run beside them; `BotProofs`.
7. `AgentBridge` with the abstract `EventStream`, and `AgentBridgeProofs`.
8. `BotLifecycle` and `ChatBridge`, composed in `BotSession`; in `BotProofs` too.
9. `BridgeRoles`, `SkillTree`, `MineDojo`, `ActionAnalyzer`, and `ActionGraph`
   which composes them; `ActionGraphProofs`.
10. `PlanGraph`, and `ChatPlanning` which composes it with the status service and
    the pipeline; `ChatPlanningProofs`.

All of these are done.  Every invariant, every action property and both refinements
that a run checks are stated by a theorem.  What a run says about
fairness is checked by TLC alone (section 4).

## 3. The modules

In every module an action is a stretch of code that nothing can interleave with.
Operators commented as mutants (or mutations) are not used by the
specification; they are the plausible bugs with which the properties are tried out.
A `TypeOK` says what the variables range over; the proofs contain it, and the runs
spend their properties on more.

### ChatQueue, ChatDelivery

`queue` and `unfinished` are the `asyncio.Queue` and its counter, `caller[c]`
says where the `enqueue_chat` of chat `c` stands, `worker` where the worker
loop stands and which task it holds.  A chat is the number of its arrival, so that
"oldest" and "latest" mean something.  The suspension points are the notices
(`await say`), the `put` on a full queue, the `get` on an empty one and the
processing.  `EnqueueOverflow` is `enqueue_chat` up to the notice, including the
removal of the oldest task; `EnqueueBlocks` and `EnqueuePuts` what follows it.
`WorkerRequeue`, `WorkerOverflow`, `WorkerSkip` are the three ends of a timed-out
chat.  `ChatDelivery` says what the queue promises about a single chat: waiting,
running (one at a time, at most `MaxRuns` times), closed for good.

| Run | Shows |
|---|---|
| `ChatQueue` | five chats, two connections, two slots, one retry: the counter never drifts, an open chat is at exactly one place, the queue implements `ChatDelivery`; under fairness every chat ends, unless the worker has blocked itself |
| `ChatQueueSettle` (violated) | with a bound the worker may wait for ever in its own `put` |

Two connections are needed for a slot to be taken during another caller's
notice, and five chats for two overflows while a chat is tried for the second
time.  *Fairness:* a coroutine that can go on is run by the event loop; a
processing ends because `wait_for` bounds it, a notice because
`bridge_ws.send` bounds each stage.  No player has to send another chat.

### PlanGraph, ChatPlanning

`node` is the node of the plan graph that runs next or awaits the LLM, `answer` what
the LLM last answered: it fits the wire model, can be repaired by the normalisation, is
beyond repair, or is unreadable.  A plan is what the executor asks of it (has it
steps, an answer, a question, is it sure, is it a call to come over).
`CallAnswered` and `CallFails`, the three ends of the parsing, `PreActionReview`,
`FollowUp`, `IntentNegotiation` and `FallbackPlan` follow the edges of `build_plan_graph`.  `ChatPlanning` is `run_chat_task` around it: the
requests for the details of the bot's state with their retries (`wanted`,
`attempt`, `failures`), what memory then holds (`known`), the barrier notices, the
early way for a call to come over, and what happens when a plan has no steps.  A
`say` may come back with `ok=False` and without an exception, which no caller looks at:
`heard` are the notices that reached the bot, `lost` those that did not, and `Said`
both.  The run of
the steps is one action here, since `PlanExecution` has it in full; the two
modules overlap in the decisions after planning, and each keeps what its
properties look at.

| Run | Shows |
|---|---|
| `ChatPlanning` | two chats of any kind, every answer or failure of the LLM, missing details, one replan, cancellation at any await: nothing runs on an unsure plan, plans are made on the whole state or after a notice (`PlannedOnState`), a chat that ran nothing ended with a say (`NeverSilent`) |

Two chats let the second find what the first remembered and the priority it left;
one retry and one replan are the least that let a second attempt differ from the
first.  No fairness: the properties are about safety.  Both notices are counted by
`Said`, since the code cannot tell whether one was heard (section 5).

### PlanExecution

`pc` names the await a chat is at.  `Relay` to `Replanned` follow
`run_chat_task`, `PlanExecutor.run`, `DirectiveExecutor.handle_step`,
`ActionStepExecutor.handle_step`, `RecoveryCoordinator.handle_failure` and
`_request_replan` in their order.  A plan is what the control depends on: does it ask
back, does it carry an answer, how many steps are left.  A step goes to one of the
handlers (`Routes`), which may pass it on (`Later`) or end with one of its
`Outcomes`.  `Abort` is the worker's timeout, or an exception out of any await;
`Leave` runs every `finally` on the way.  `logs`, `active` and `disk` are the
reflections; `FailThenBegin` and `FinalizePending` contain the writes, which may
fail.  `Crash` restarts the process from the file, or with empty memory when the file cannot
be read; `known` says that memory has what the file has.

| Run | Shows |
|---|---|
| `PlanExecution` | three runs of chats, two steps, two replans, one restart: at most one reflection is open and it is the active one (`OnePending`); a plan with a failed step is never called a success by its own end (`FailureNotSuccess`); a text that relays a call never makes the bot follow (`RelayNeverJoins`); the file loses no entry and no verdict while memory knows it (`HistoryKept`) |

Two runs let one chat leave a reflection behind and another find it, a third repeats
one that timed out; two steps let the first fail and the second not; two replans let
a replan fail again.  No fairness.

### ActionGraph, ActionAnalyzer, SkillTree, MineDojo, BridgeRoles

`ActionGraph` follows one step at a time through `ActionGraph.run`: `pc` is the
await or the node it comes to next, `task` the step, `nested` that it is the step a
mining step has sent through the same graph.  `ActionAnalyzer` is the classification
of a text by ordered rules, with tables cut down to words that overlap as the real
ones do; the `Length` of a word stands for the scoring by length.  `SkillTree` keeps the
tree as the sequence of its nodes, the `file` and the thread that writes it in place;
a step that is cancelled leaves that thread behind.  `MineDojo` keeps the active
mission across the awaits of `attach_context`, the caches in memory and in files,
and the dialogue, which ends with an exception as soon as it wants to build a skill
node.  `BridgeRoles` keeps the role twice, with the commands and events on their way; a
command that was reported as failed may still arrive (`stray`).  `target` is
`last_target_coords`, `places` the places the plan was given or has reached so far, which
only the property reads.  `estranged` and `unsure` mark what parts the two sides of the
role, and of the skills, until something puts them right.

| Run | Shows |
|---|---|
| `ActionGraph` | two steps of any kind, with timeouts at every await, a restart of either side or the loss of an event: the bot is sent home only in a plan without any place (`HomeOnlyLost`), the demonstration of the active mission is a skill unless its step was cut off or could not read the tree (`ActiveRegistered`), roles agree when quiet (`AgreeWhenQuiet`), the file is what is known when all is written (`SavedTree`) |

`ActionGraphMC` has a step for each category and for each way to a target, and a
library with an unlocked skill, a locked one and one that a mission asks for.  Two
steps let one go back to the target of another and meet the thread that a cancelled
one left behind; the one event is a loss or a restart.  No fairness.

### BotCommands

`py`, `attempt`, `wire`, `answer` are the sending side (`bridge_ws.send`, one
connection per try), `pc`, `on`, `left`, `style` the handler on the bot's side;
`owner`, `profile` and `previous` are the movement lock and the pathfinder's profile
of each bot object, `moveTo` and `rendezvous` the two targets the navigation controller
remembers, `vpt` the playback flag, `wood` and `woodBot` the wood run as far as it
moves the bot.  A handler takes the lock where the code calls `acquire`, gives it
back in its `finally`, and may throw wherever the code may; `BotLost` and `BotSpawns`
exchange the bot object below a running handler.  An await that depends on the world ends in each
way the code tells apart.

| Run | Shows |
|---|---|
| `BotCommands` | two commands of the six kinds, the wood run, two bots, two attempts: who drives a bot holds it and a bot nobody drives is free (`LockIsHeld`), it gets its cautious profile back (`ProfileBack`), a command is executed at most once and its report is true (`SentOnce`), and only a `mineOre` admitted before can move a bot that collects wood (`WoodUndisturbed`) |

Two commands and the wood run give every pair of drivers; a second bot object is one
replacement.  The commands are symmetric until they are given a kind.  No fairness.

### AgentBridge, EventStream

`state`, `ready`, `reconnect`, `health`, `quiet` are the session; `queue`, `timer`,
`flight`, `phase`, `attempt` the events, their timer and the batch in flight; `accepted`
are the events whose `ws.send` came back without an error.  That says that the data went to
the local socket, and no more.  Actions are the callbacks: `Emit`, `Flush`, `Open`, `Closed`, `SendOk`,
`SendError`, `SendTimeout`, `RetryUp`, `RetryDown`, the health check's `Ping`,
`Pong` and `HealthTerminate`, and so on.  `EventStream` says what `emit`
promises to its callers: sockets accept the events in order, each once, and one is given
up only when a full queue of others waits.  It says nothing of the agent.

| Run | Shows |
|---|---|
| `AgentBridge` | six events, a queue of three, batches of two, one retry, four faults: no event waits without a timer or a flight (`NeverStranded`), the bridge implements `EventStream`, and after the faults everything drains (`Drains`) |

Six events fill the queue while a full batch is in flight and leave one more to drop; four
faults fail a batch, its retry, the session and its health check.  *Fairness:* a timer
that is set fires, a send and a connection attempt end (the code bounds both).  Faults
need not happen and are finite.

### BotLifecycle, ChatBridge, BotSession

`bot` and `reconnectTimer` are the service's; `conn[b]` where the connection of bot `b`
stands.  The handlers of a bot are never taken off, so an old bot still raises events,
also after the next one was started; `overtaken` notes that such an event has
taken the current bot for lost.  `ChatBridge` numbers the attempts of
`ensureConnected`; `ws[a]` is the socket of an attempt, `waiting[a]` the chats that
share its promise.  `BotSession` puts the bridge of one bot beside the life of all bots.

| Run | Shows |
|---|---|
| `BotSession` | five bots, two troubles, four attempts, three chats, three cuts: a bot or a timer, never both or neither (`BotOrTimer`); one attempt and one socket (`OneSocket`); the bot comes back and stays unless it was overtaken (`Settles`), no chat waits for ever (`ChatsSettle`) |

A trouble loses two bots at most as long as none is overtaken, so five bots leave one that
can stay, and `Settles` does not hold for want of bots; the bridge looked at is that of
the first bot, so that it outlives its bot.  An event of an old bot may come at any time,
also during the delay, the login or the life of the next bot.
*Fairness:* a connection attempt ends, a bot that logs in appears or is
refused, the close that follows a kick or an error comes.

### WoodCollection

`record` and `disk` are the work record in memory and in the file; `task` is
where `run()` (or the save of `!wood base` and `!wood reset`) stands.  Each action is
the code between two awaits with the check (`alive`, `stopped`,
`interrupted`) that follows the await.  `watched` is whether the server's guard
watches the bot's digging: the last request handled while the bot was online granted it.  `owed` is what the job on record has gathered
and not stored; it is the model's own and no action reads it.  Requests to the
guard wait in `requests` and are handled in order on the server's main thread,
possibly long after the client gave up.  `Crash` loses everything but the file,
the server, the chest and the bot's inventory; `Load` reads the file.

| Run | Shows |
|---|---|
| `WoodCollection` | one job of two logs with two kinds of cargo, run as often as it fails, with stops, failed saves, deaths, disconnections, crashes: nothing gathered is forgotten, nothing else given away, stops hold, digs are guarded, and a run always gives the bot back |

One explored point and two logs are enough for each order of felling, saving,
returning and failing; two kinds let a deposit store one and fail at the other; a
chest of two items fills up in the middle of a deposit.  *Fairness:* every await of
`run()` has a timeout, so some step of the task (its success or its
failure) is always taken; deaths, stops and crashes need not happen.

### ForestryGuard

A tree is a place with `Height` cells; `block` is the world, `ledger`
what `NaturalWoodLedger` remembers, `pending` the tasks a growth event left for the next
tick with the `mutationVersion` they saw, `permits` one log per bot.  All handlers run on
the main thread, one action each.  `Burn` and explosions that reach less
than the handler looks for are the ways the world changes without a watched
event.  Geometry is `Near`; other reasons to refuse are a free choice.

| Run | Shows |
|---|---|
| `ForestryGuard` | two neighbouring trees of two logs: only grown logs are on record, only grown and unbuilt logs are felled |

Two neighbouring trees show invalidation across trees; two
changes let one come before and one after a growth.

### TunnelMining

The miner (`pc`, `step`, `req`) sends one request at a time and repeats it after
a timeout; a request it gave up stays in `late` and is still handled.  `Handle` is a
handler up to its task for the main thread, `RunTask` that task, `Complete` the rest
after it; `SyncTimesOut` gives the task up without taking it out of the queue.
`registry`, `progress` and `blocked` are the job registry, `region` the WorldGuard region of each
job.  Liquids come and go (`Flow`).

| Run | Shows |
|---|---|
| `TunnelMining` | four slices, windows of three, two faults and one flow: the miner stops after a liquid, has offered every slice when it is told it is through, leaves behind no more than faults explain, and every run ends |

`CoveredWhenFinished` names the price of a repeated advance: with as many
faults as slices in a window the frontier could pass slices the miner never offered.
Two faults are the least that let a late request meet a late task.  *Fairness:* the
threads of both sides and the server's ticks go on.

### BuildingPhases

`Process` is `BuildingPlanProcessor.process` as it runs without an await:
restore, shortage, batch, next phase, reservation, save.  `Rollback` is
`rollback_building_state`.  The survey, the inventory and the failures come from
parts that exist only in tests so far; they are the module's environment.  The layout and
the requirements are two entries of memory, read separately and with defaults
(`building_plan_processor.py:33`), so `FindLayout` and `CountMaterials` set them in any
order, or never; `counted` says that the last step saw the requirements of now.
`built` is the set of blocks handed out and not taken back, which the code keeps
only as a count.

| Run | Shows |
|---|---|
| `BuildingPhases` | two materials, five blocks in batches of two, two rollbacks: the count is true (`CountIsTrue`), and without a rollback a job goes back to the survey only without a layout, and to procurement only for changed requirements (`NoWayBack`) |

Five blocks in batches of two end in an odd batch; two rollbacks let one follow
another before the count has recovered.

## 4. What is proved

TLAPS checks the theorems below for every value of the constants that satisfies the named
assumptions of the modules:

| Assumption | Says |
|---|---|
| `ChatQueueAssumption`, `ChatPlanningAssumption`, `BridgeAssumption`, `TunnelBounds`, `BoundsAreCounts` of `PlanExecution` and of `BuildingPhases` | the bounds are naturals, zero included |
| `SizesAssumption`, `TunnelSizes`, `SizesArePositive` | queue, batch, tunnel, window and layout have at least one element |
| `ForestryAssumption` | trees have a log, a tree is near itself |
| `WoodAssumption` | the bounds are naturals, there is some kind of cargo |
| `LifecycleAssumption`, `HostAssumption` | there is a bot, the bridge belongs to one |
| `CommandsAssumption` | the kinds are among the six of the code, there is a bot and an attempt |
| `RolesAssumption` | the named roles exist, and none of them is "no role" |
| `MissionsAssumption` | the missions are those of the code's table |
| `SeedsAssumption` | the first skills have different names and true counts |

Hardly any of the properties is inductive alone.  Each proof module names
the conjuncts that are missing, shows that the initial states satisfy them and every
step keeps them (one lemma or step per action), and draws the properties from them.

**`ChatQueueProofs`** — `TypeOK`, `UnfinishedMatches`, `Accounted`, `Bounded`,
`RunsBounded`, and that the queue implements `ChatDelivery`.  The invariant `IInv` joins them with
`Links`: the worker holds a task exactly when it is not in its `get`; a chat
has a caller from its arrival on and nothing happened to it before; and the chat
in processing was started once more than it was retried.  The counter argument needs the places (a drop takes
exactly one entry), the places need that entries are distinct, and the bound on
starts needs that a waiting chat was started once per retry.  `PutAdds` and
`TakeRemoves` say what an append and a `Tail` do to the entries of a queue without duplicates;
`NextIInv` has one step per action.  The refinement maps each action to one
move of one chat (`AbstractReceive`, `AbstractStart`, `AbstractRetry`,
`AbstractClose`) with at most one chat pushed out, or to a stutter.

**`ChatPlanningProofs`** — `UnsureNeverRuns`, `PlannedOnState`, `NeverSilent`.
`GraphInv` follows the answer of the LLM through the plan graph: an unsure plan has
become a question at the latest in the negotiation, and what comes out of the
graph is a question, one of the two fixed plans, or an answer that may be acted
upon.  `RunsOnlySure` carries that to the executor, which the call to come over
reaches without the LLM.  `StateInv` says of every detail of the bot's
state that it is known, still wanted, or has failed, and that a notice of a failed one is
sent before the first plan.  A chat may then be planned, and run, without that detail; only
a call to come over stops there.

**`PlanExecutionProofs`** — `OnePending`, `RelayNeverJoins`, and the action properties
`FailureNotSuccess` and `HistoryKept`.  `PendingIs` says entry by entry that a
reflection without a verdict is the active one; `FileBehind` that the file of a process
that could read it lacks at most the newest entries and the newest verdicts, without
which a restart could turn a failure into something else; `FailureKept` that a plan remembers a failed step to
its end; `MessageIs` that the handlers see the class of the text in work.
`FinalizeHolds`, `FailThenBeginHolds` and `ReloadHolds` are the three things that
happen to the store.

**`ActionGraphProofs`** — `AgreeWhenQuiet` (of the roles alone and inside
the graph), `SavedTree`, `TreeSound`, `HomeOnlyLost`, `ActiveRegistered`.  `NewestIsRole`: the
last update on its way carries the bot's role, and without one both sides agree.
`SkillsInv`: unless a write has failed, was dropped or ran beside another there is at
most one write, and what it writes is the tree in memory.  `PlacesKept`: a plan with a place
has a target.  `Registered`: outside the two awaits of the registration the demonstration of
the active mission is in that tree.  `AppendedLast`, `TailLast`, `AppendSeq` and `RemovedFrom` say what
sending, hearing and the end of a thread do to a sequence; `EnsuredSound` and
`CountedSound` what registering and counting do to the tree.

**`BotProofs`** — of the commands `LockIsHeld`, `ProfileBack`, `SentOnce` and `WoodUndisturbed`; of
the session `BotOrTimer` and `OneSocket`, whenever the events of old bots come.  That a driver holds its bot is not
enough for the next step: `OwnersDrive` says both ways who the owner is.
`Cautious`: what a goto remembers is always the cautious profile.  `Delivered`: a
command is on its way only while it is sent and not executed.  `WoodGuarded`:
besides the drivers only a `mineOre` digs.  `LossHolds` is what the
ways of losing a bot share.  For the sockets, `FieldsAreTrue` says which attempt each of the two fields means.

**`AgentBridgeProofs`** — `NeverStranded`, `NeverIdle` (a bridge without a session has a
timer that will make one), `QueueBounded`, and that the bridge implements
`EventStream`.  A timer that fires during a flight does
nothing and is not set again, so that no event is stranded rests on what ends a
flight; `Shape` ties a flight to its phase and a socket to the state.  `RequeueFits`
says that a batch put back in front, cut at the bound, still fits; `FlightOverHolds` and
`AttemptFailedHolds` are the two ends every failing action shares.  For the refinement, `Ordered` says that
the flight and the queue rise and that the flight comes first, and `FlightIs` that a
send has a batch; `RisingCount`, that a rising sequence
has as many elements as entries, turns the bound on the queue into the abstract
permission to give up events.

**`ForestryProofs`** — of the guard `LedgerNatural` (only grown logs on record) and
`FellsNatural` (only those are felled by a guarded bot).  The record is written
one tick after the growth, so the invariant adds `FreshSeesGrowth`: a task whose version
is still the current one looks at a tree that no watched change has touched.
`QuietStep` and `WatchedStep` carry the two kinds of actions.  The action
property follows from the invariant and from the second check in `breaking`.

Of the collection `CargoOnRecord`, `DigGuarded`, and the action properties
`StockKept` and `StopHolds`.  `CargoNoted` says that what was gathered is on disk above the
stock, and that memory agrees, so that a service deciding on memory does not forget
it; `JobNoted` that an open job has the stock its start noted;
`CargoAbove` that what is gathered lies above that stock until the bot dies; `TodoAbove`
the same of what is still to be stored; `Permitted` that a permit answers the last
request, so that no late request can take it back during the dig.  The
steps of `run()` fall into those that go on, those that end it, and those of server and
world.

**`WorksiteProofs`** — of the tunnel `StopsAfterLiquid`, `CoveredWhenFinished`,
`LeftoversExplained` and `TunnelTypeOK`.  The invariant has two layers.  `Base` says who is under way: what each
request and each task of the main thread is about, that numbers tell them apart,
that each start makes a job of its own, and that there are no more starts than
faults, but one.  Every action of the plugin is shown to keep `Base` and to have one
`Effect` on the rest, by three classes: a request is answered, a request is handed to the
main thread, a task is over.  The second layer is as the miner sees it: the frontier is at most the
miner's step and the faults (`AdvancesCounted`) and at least the step (`Reached`), a
liquid leaves one batch at most (`AfterLiquid`), what lies behind the frontier
was offered (`Covering`), and as long as every fault has made a job of its own
all the others are in order (`Tidy`).

Of the building `CountIsTrue`, `InspectsAll` and `NoWayBack`.  The
invariant adds that nothing is placed beyond the layout, which may be missing
(`InLayout`), that a job in its placement or inspection has reserved all
it needs as far as its last step saw the requirements (`Secured`), so that an inventory
that shrinks cannot send it back, and that an inspected job counts all blocks (`Whole`).  `BatchBounds`,
`Reserving` and `PhaseNextIs` say what one building step computes;
`ProcessHolds` and `RollbackHolds` are the two steps that change the checkpoint.

**Model-checked only:** the liveness properties, since fairness and `ENABLED` are
beyond the prover: `SettledOrBlocked` (every chat ends), `WorkEnds` (the wood run),
`RunEnds` (the tunnel), `Drains` (the bridge), `Settles` and `ChatsSettle` (the
session).  No theorem rests on what the two folds compute (the skill that fits
a step best, the rule that classifies a text); the theorems hold
whatever they pick, and the runs use them with the tables of their constants.

## 5. Where the code differs from what it says, and what the models show of it

`ChatQueueSettle` is a run that TLC ends with a counterexample; `PROJECT.json` quotes
the sentence it contradicts: between making room and `queue.put` the worker awaits a
notice; if a caller takes the slot, the only consumer waits for itself.

The following is part of the models' behaviour and has no run of its own.

*Chats and plans.*

- The requeue of a timed-out chat drops the newest chat (`chat_queue.py:101`), although
  the overflow handling promises that the latest is accepted (`chat_queue.py:121`).
- The answer of a replan is said at `recovery_coordinator.py:190` and, when the plan
  asks back, again at `plan_executor.py:88`, which `chat_pipeline.py:117` guards against
  for a first plan.
- A file of reflections that cannot be read counts as an empty one
  (`memory.py:107`, `reflection_store.py:40`); the next write puts what memory has
  in its place, and the history is lost.  `HistoryKept` holds as long as the file
  was read (`known`).
- `say` reports a bot that cannot be reached by `ok=False`, which the callers ignore
  (`bridge_ws.py:112`, `chat_pipeline.py:42`, `perception_service.py:103`): the details of
  the state and the notice about them then fail together, the plan is made and the chat ends
  as done although the player has read nothing.  `PlannedOnState` and `NeverSilent` are therefore
  about what was sent.
- A failure that was not replanned leaves its reflection open, and the next chat
  closes it with its own verdict (`plan_executor.py:231`).
- `recovery_hints` are never cleared (`recovery_coordinator.py:116`).
- A step with coordinates whose directive is `move_to_player` goes to recovery
  when the call is refused (`directive_executor.py:394`; the outcome "halt" of "coords join"),
  although `action_step_executor.py:150` keeps such calls from being told and planned again.
- After a hybrid directive was carried out the handler calls a method its owner
  does not have (`hybrid_directive.py:113`, `HybridRaises`), and the chat ends with an
  exception.
- Position and inventory are asked for only when memory has none
  (`status_service.py:52`), so later plans are made on old ones.
- A failing LLM says an acknowledgement first and then that there is no plan.

*Steps, skills, missions.*

- The MineDojo dialogue always ends with an exception before it registers a skill
  (`minedojo.py:119` uses a name that `SkillRepository` lacks), although
  `docs/minedojo_integration.md:70` describes the registration.
- The demonstration of an earlier mission answers later steps that have no
  mission of their own (`minedojo_handler.py:228`).
- An empty answer of the service is kept in the cache file for good.
- `SkillRepository.mark_unlocked` has no caller; registering a skill again resets its counts.
- A mining step that finds no target may only equip a tool and is then reported as done.
- After a follow the position remembered is the one perceived before the walk
  (`move_handler.py:135`).

- The coordinates of a step of any category become the target of later moves although nobody
  goes there (`directive_executor.py:363`, `:410`), as do the coordinates of the chat
  (`chat_pipeline.py:115`); a replan begins without a target.
- A step that is cancelled, or cannot read the tree, after its mission was made active
  (`minedojo_handler.py:192`) leaves the mission active without its demonstration among the skills.
  `ActiveRegistered` excepts it (`cutShort`).
- The write of the tree truncates the file and may fail after memory has changed
  (`skill_repository.py:126`).  File and memory then differ until a later write succeeds, and a
  restart before that may find an empty tree.  `SavedTree` excepts it (`unsure`).

*Roles and events.*

- The answer to a switch of the role is taken for the role even when the update of a later
  switch, made by a command that was given up and came late, was heard while it was awaited
  (`bridge_role_handler.py:86`).  The agent then believes in the older role until the bot switches
  again.  `AgreeWhenQuiet` excepts it, beside a lost event and a restart (`estranged`).
- A bot that restarts has the first role again while the agent keeps its belief.
- A wish for a role is dropped when it equals the role the step began with.
- Reports of the plugin's stream lack the keys the agent looks for and are dropped, which
  leaves parts of `docs/tech_stack_diagram.md:226` without effect; the bot emits neither threat
  levels nor supply demands, so wishes come only from outside.
- An exception in a handler ends the only consumer of events (`bridge_events.py:171`).

*The bot.*

- `mineOre` digs without the lock (`coreCommands.ts:147`); `WoodUndisturbed` therefore has
  to except a `mineOre` that was admitted before the wood run began.
- The loss of an old bot clears the current one, whichever bot raised the event
  (`lifecycleService.ts:177`).  The cleared bot stays in the game, the next start makes the
  server end it, its loss clears the newer one, and so on without end: a cycle of kicks and
  reconnects that one late event sets off.  `Settles` excepts it (`overtaken`).
- The last position is shared by all bots (`botEvents.ts:55`): a late move of an old bot, or
  a broadcast that was lost, leaves the agent with a position of no current bot until the
  next rounded step.
- After an error on an open socket the close of the old one ends the attempt and the
  heartbeat of the new one (`chatBridge.ts:185`), which `OneSocket` excepts; no chat waits for ever in spite of it (`ChatsSettle`).
- A batch counts as sent when the local socket has taken it (`agentBridge.ts:276`); there is no
  acknowledgement.  Behind a half-open connection batches are lost without a retry, and a send
  that timed out may have arrived, so that its retry is a duplicate.
- A bot's bridge is never closed with its bot.

*Wood and building.*

- A permit for the last log survives a regrowth, and then the lowest log is broken
  first (`ForestryGuard.java:61`), against `docs/wood_collection.md:29`.
- Requirements that come late or change take a job from the placement, or even from the
  inspection, back to procurement (`building_service.py:186`), against the comment that
  an inspection never goes back (`building_service.py:207`); requirements without a layout take
  it from procurement to the survey.
- A batch of blocks is handed out, and counted, while materials are missing
  (`building_service.py:149`, `Process`), which `docs/building_state_machine.md:22` excludes.
- Each building step adds the whole inventory to what is reserved
  (`building_service.py:311`, `ReservedNext`), so that one unit passes for two.

## 6. What is not modelled

- Positions, paths and geometry (the search of a route, reach, line of sight), the
  clock, the contents of plans and answers, wording, logging and telemetry are
  abstracted to what the control depends on.
- VPT features and the learned policy are arithmetic on reals, which TLC does not
  have; the playback of its actions is in `BotCommands`.
- Facades of other plugins answer as choices of `TunnelMining`; configuration,
  dashboard, command line and start-up wiring have no behaviour over time
  that these properties could tell apart.
- Backlogs, reports and labels of steps fill lists that only prompts read.
- `AgentBridge` has no clock: a timer that is set may fire.  What becomes of a batch
  beyond the local socket is not in it.  A URL that the WebSocket library
  refuses at once is left out, here and in `ChatBridge`.
- `BotLifecycle` leaves out the broadcasts of position, status and perception, which read
  and emit (of the shared position see section 5), and the repair of outgoing packets.  A `createBot` that throws is in it.
- `TunnelMining` leaves out torches, the estimate of the direction, the stream of
  events and all blocks but liquids.
- `ActionAnalyzer` has a part of the keyword tables; summaries and histories for
  the prompt are left out of `ChatPlanning`.
