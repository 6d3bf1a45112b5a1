----------------------------- MODULE BotProofs ------------------------------
(***************************************************************************)
(* The Node bot: its session and its commands.                             *)
(*                                                                         *)
(* The session, for any number of bots, troubles, chats and sockets: there *)
(* is a bot or a timer that will make one, and the chats of a bot have one *)
(* socket.  The socket needs to know whose the promise and the socket      *)
(* field are.                                                              *)
(*                                                                         *)
(* The commands, for any number of them, of kinds, bots, retries and tries.*)
(* That a driver holds the bot is not enough for the next step: the        *)
(* invariant says both ways who is the owner, that previousMovements is    *)
(* always the cautious profile, that what was never received has no answer,*)
(* and that only a mineOre digs without the lock.                          *)
(***************************************************************************)
EXTENDS BotSession, BotCommands, FiniteSetTheorems, TLAPS

(* BotSession *)

Ranges ==
  /\ bot \in {0} \cup Bots
  /\ reconnectTimer \in BOOLEAN
  /\ threw \in BOOLEAN

LifeInv == Ranges /\ BotOrTimer

BridgeRanges ==
  /\ DOMAIN ws = Attempts
  /\ socket \in {0} \cup Attempts
  /\ connectionPromise \in {0} \cup Attempts
  /\ heartbeatTimer \in BOOLEAN

(* While no open socket has reported an error, the two fields say which    *)
(* attempt is alive, and only one of them is set.                          *)
FieldsAreTrue ==
  ~erred =>
    /\ socket = 0 \/ connectionPromise = 0
    /\ \A a \in Attempts : ws[a] \in {"backoff", "connecting"} <=> connectionPromise = a
    /\ \A a \in Attempts : ws[a] \in {"open", "closing"} <=> socket = a
    /\ \A a \in Attempts : ws[a] # "erred"
    /\ heartbeatTimer <=> socket # 0

BridgeInv == BridgeRanges /\ FieldsAreTrue

-----------------------------------------------------------------------------
(* The lifecycle. *)

LEMMA BotsAreNumbers == \A b \in Bots : b \in Nat /\ b # 0
BY LifecycleAssumption DEF Bots, LifecycleAssumption

LEMMA LifeStarts == LifeInit => LifeInv
<1> SUFFICES ASSUME LifeInit PROVE LifeInv
  OBVIOUS
<1>1. bot = 1 /\ reconnectTimer = FALSE /\ threw = FALSE /\ 1 \in Bots
  BY LifecycleAssumption DEF LifeInit, LifecycleAssumption, Bots
<1>2. BotOrTimer
  BY <1>1 DEF BotOrTimer
<1>3. Ranges
  BY <1>1 DEF Ranges
<1> QED BY <1>2, <1>3 DEF LifeInv

(* A loss sets the timer and takes the bot, whichever bot it was.          *)
LEMMA LossHolds ==
  ASSUME NEW b, HandleConnectionLoss(b), threw' = threw, threw \in BOOLEAN
  PROVE  LifeInv'
BY DEF LifeInv, Ranges, BotOrTimer, HandleConnectionLoss

LEMMA LifeStep == LifeInv /\ [LifeNext]_lifeVars => LifeInv'
<1> SUFFICES ASSUME LifeInv, [LifeNext]_lifeVars PROVE LifeInv'
  OBVIOUS
<1> USE DEF LifeInv, Ranges, BotOrTimer
<1>1. CASE StartFails
  BY <1>1 DEF StartFails
<1>2. ASSUME NEW b \in Bots, Start(b) PROVE LifeInv'
  BY <1>2, BotsAreNumbers DEF Start
<1>3. ASSUME NEW b \in Bots, Spawn(b) \/ ServerKicks(b) PROVE LifeInv'
  BY <1>3 DEF Spawn, ServerKicks
<1>4. ASSUME NEW b \in Bots, Kicked(b) \/ LoginError(b) \/ End(b) PROVE LifeInv'
  <2>1. HandleConnectionLoss(b) /\ threw' = threw
    BY <1>4 DEF Kicked, LoginError, End
  <2> QED BY <2>1, LossHolds
<1>5. CASE UNCHANGED lifeVars
  BY <1>5 DEF lifeVars
<1> QED BY <1>1, <1>2, <1>3, <1>4, <1>5 DEF LifeNext

-----------------------------------------------------------------------------
(* The chat bridge. *)

LEMMA AttemptsAreNumbers == \A a \in Attempts : a \in Nat /\ a # 0
BY BridgeAssumption DEF Attempts, BridgeAssumption

LEMMA BridgeStarts == BridgeInit => BridgeInv
BY AttemptsAreNumbers DEF BridgeInit, BridgeInv, BridgeRanges, FieldsAreTrue

(* A chat shares the attempt that is under way, or makes one when no       *)
(* attempt and no socket is alive.                                         *)
LEMMA ChatShares == BridgeInv /\ ForwardChat => BridgeInv'
<1> SUFFICES ASSUME BridgeInv, ForwardChat PROVE BridgeInv'
  OBVIOUS
<1> USE DEF BridgeInv, BridgeRanges, FieldsAreTrue
<1>1. socket' = socket /\ heartbeatTimer' = heartbeatTimer /\ erred' = erred
  BY DEF ForwardChat
<1>2. CASE connectionPromise' = connectionPromise /\ ws' = ws
  BY <1>1, <1>2
<1>3. ASSUME socket = 0, NEW a \in Attempts, Attempt(a) PROVE BridgeInv'
  <2>1. connectionPromise = 0 /\ connectionPromise' = a /\ ws[a] = "none"
    BY <1>3 DEF Attempt, Connecting
  <2>2. /\ DOMAIN ws' = Attempts /\ ws'[a] \in {"backoff", "connecting"}
        /\ \A b \in Attempts \ {a} : ws'[b] = ws[b]
    BY <1>3 DEF Attempt
  <2> QED BY <1>1, <1>3, <2>1, <2>2, AttemptsAreNumbers
<1> QED BY <1>2, <1>3 DEF ForwardChat, Join

(* The bridge itself: an opened attempt is the socket, a lost one nothing. *)
LEMMA BridgeStep == BridgeInv /\ BridgeNext => BridgeInv'
<1> SUFFICES ASSUME BridgeInv, NEW a \in Attempts,
                    \/ BackoffOver(a) \/ Opened(a) \/ FailsToOpen(a)
                    \/ SocketError(a) \/ CloseBegins(a) \/ Closes(a)
             PROVE  BridgeInv'
  BY DEF BridgeNext
<1> USE AttemptsAreNumbers DEF BridgeInv, BridgeRanges, FieldsAreTrue
<1>1. CASE BackoffOver(a)
  BY <1>1 DEF BackoffOver
<1>2. CASE Opened(a)
  BY <1>2 DEF Opened
<1>3. CASE FailsToOpen(a)
  BY <1>3 DEF FailsToOpen, MarkDisconnected
<1>4. CASE SocketError(a)
  BY <1>4 DEF SocketError, MarkDisconnected
<1>5. CASE CloseBegins(a)
  BY <1>5 DEF CloseBegins
<1>6. CASE Closes(a)
  BY <1>6 DEF Closes, MarkDisconnected
<1> QED BY <1>1, <1>2, <1>3, <1>4, <1>5, <1>6

-----------------------------------------------------------------------------
(* The session. *)

SessionInv == LifeInv /\ BridgeInv

(* A chat changes nothing of the lifecycle, and the lifecycle nothing of   *)
(* the bridge.                                                             *)
LEMMA SessionStep == SessionInv /\ [Next]_vars => SessionInv'
<1> SUFFICES ASSUME SessionInv, [Next]_vars PROVE SessionInv'
  OBVIOUS
<1>1. ASSUME UNCHANGED lifeVars PROVE LifeInv'
  BY <1>1, LifeStep DEF SessionInv
<1>2. ASSUME UNCHANGED bridgeVars PROVE BridgeInv'
  BY <1>2 DEF SessionInv, bridgeVars, BridgeInv, BridgeRanges, FieldsAreTrue
<1>3. CASE HearChat
  BY <1>1, <1>3, ChatShares DEF HearChat, SessionInv
<1>4. CASE LifeNext /\ UNCHANGED bridgeVars
  BY <1>2, <1>4, LifeStep DEF SessionInv
<1>5. CASE BridgeNext /\ UNCHANGED lifeVars
  BY <1>1, <1>5, BridgeStep DEF SessionInv
<1>6. CASE UNCHANGED vars
  BY <1>1, <1>2, <1>6 DEF vars, SessionInv
<1> QED BY <1>3, <1>4, <1>5, <1>6 DEF Next

(* In every state of the session, the fields of the lifecycle service, of  *)
(* its bots and of the chat bridge fit together.                           *)
THEOREM Invariance == Spec => []SessionInv
<1>1. Init => SessionInv
  BY LifeStarts, BridgeStarts DEF Init, SessionInv
<1> QED BY <1>1, SessionStep, PTL DEF Spec

(* The bot never stays away without a timer that will bring it back, but   *)
(* for a start that threw: whatever the order in which old and new bots    *)
(* raise 'kicked', 'error' and 'end'.                                      *)
THEOREM BotOrTimerAlways == Spec => []BotOrTimer
<1>1. SessionInv => BotOrTimer
  BY DEF SessionInv, LifeInv
<1> QED BY <1>1, Invariance, PTL

(* Of a set whose members are all equal to one value, Cardinality is one   *)
(* or zero.                                                                *)
LEMMA AtMostOne ==
  ASSUME NEW S, NEW x, S \subseteq {x} PROVE Cardinality(S) <= 1
<1>1. CASE S = {}
  BY <1>1, FS_EmptySet
<1>2. CASE S = {x}
  BY <1>2, FS_Singleton
<1> QED BY <1>1, <1>2

(* Until an open socket reports an error, the chats of a bot share one     *)
(* attempt, one socket at most is alive, and the heartbeat beats while     *)
(* there is one (ensureConnected, markDisconnected of chatBridge.ts).      *)
THEOREM OneSocketAlways == Spec => []OneSocket
<1>1. SessionInv => OneSocket
  <2> SUFFICES ASSUME BridgeInv, ~erred
               PROVE  /\ Cardinality({a \in Attempts : ws[a] \in {"backoff", "connecting", "open", "closing"}}) <= 1
                      /\ heartbeatTimer <=> socket # 0
    BY DEF SessionInv, OneSocket
  <2> DEFINE Alive == {a \in Attempts : ws[a] \in {"backoff", "connecting", "open", "closing"}}
  <2>1. \A a \in Alive : a = IF socket = 0 THEN connectionPromise ELSE socket
    BY AttemptsAreNumbers DEF BridgeInv, FieldsAreTrue
  <2>2. Alive \subseteq {IF socket = 0 THEN connectionPromise ELSE socket}
    BY <2>1
  <2> HIDE DEF Alive
  <2>3. Cardinality(Alive) <= 1
    BY <2>2, AtMostOne
  <2> QED BY <2>3 DEF BridgeInv, FieldsAreTrue, Alive
<1> QED BY <1>1, Invariance, PTL

-----------------------------------------------------------------------------
(* BotCommands *)

(* Who drives a bot owns it, and who owns it drives it.                    *)
OwnersDrive ==
  /\ \A c \in Commands : pc[c] \in Driving => on[c] \in Bot /\ owner[on[c]] = c
  /\ \A b \in Bot : owner[b] \in Commands => on[owner[b]] = b /\ pc[owner[b]] \in Driving
  /\ wood = "leg" => woodBot \in Bot /\ owner[woodBot] = "wood"
  /\ \A b \in Bot : owner[b] = "wood" => wood = "leg" /\ woodBot = b

(* A goto remembers the cautious profile and nothing else.                 *)
Cautious ==
  /\ \A b \in Bot : previous[b] = "walk"
  /\ ProfileBack

(* A command is on its way only while it is sent and not executed; what    *)
(* was not executed has no answer, and an answered one has ended.          *)
Delivered == \A c \in Commands :
  /\ runs[c] + wire[c] <= 1
  /\ py[c] \in {"idle", "connect", "unsent"} => runs[c] = 0 /\ wire[c] = 0
  /\ runs[c] = 0 => pc[c] = "none" /\ answer[c] = "none"
  /\ answer[c] # "none" => pc[c] = "ended"
  /\ py[c] \in {"ok", "no"} => answer[c] # "none"

(* Besides the drivers, a mineOre digs on its bot.                         *)
WoodGuarded ==
  /\ \A c \in Commands : pc[c] \in {"aim", "dig"} => kind[c] = "mineOre" /\ on[c] \in Bot
  /\ wood # "idle" => woodBot \in Bot
  /\ WoodUndisturbed

CommandsInv == TypeOK /\ OwnersDrive /\ Cautious /\ Delivered /\ WoodGuarded

LEMMA Names == /\ "wood" \notin Commands /\ "nobody" \notin Commands
               /\ BotObjects \in Nat \ {0} /\ MaxRetries \in Nat \ {0} /\ Tries \in Nat \ {0}
               /\ 1 \in Bot /\ 0 \notin Bot
BY CommandsAssumption DEF CommandsAssumption, Bot

LEMMA CommandsStart == CommandsInit => CommandsInv
<1> SUFFICES ASSUME CommandsInit PROVE CommandsInv
  OBVIOUS
<1>1. TypeOK
  <2>1. NoFlight \in [cmd : Commands \cup {"nobody"}, bot : 0..BotObjects]
    BY Names DEF NoFlight
  <2>2. /\ py \in [Commands -> {"idle", "connect", "wait"} \cup Reported]
        /\ attempt \in [Commands -> 0..MaxRetries]
        /\ wire \in [Commands -> Nat]
        /\ answer \in [Commands -> {"none", "ok", "no"}]
    BY Names DEF CommandsInit
  <2>3. /\ pc \in [Commands -> Driving \cup {"none", "aim", "dig", "equip", "ended"}]
        /\ on \in [Commands -> 0..BotObjects]
        /\ left \in [Commands -> 0..Tries]
        /\ style \in [Commands -> {"walk", "dig"}]
        /\ mined \in [Commands -> BOOLEAN]
        /\ runs \in [Commands -> Nat]
    BY Names DEF CommandsInit
  <2>4. /\ owner \in [Bot -> Commands \cup {"wood", "nobody"}]
        /\ profile \in [Bot -> {"walk", "dig"}]
        /\ previous \in [Bot -> {"walk", "dig"}]
    BY DEF CommandsInit
  <2>5. woodBot \in 0..BotObjects /\ active \in 0..BotObjects /\ born \in 1..BotObjects
    BY Names DEF CommandsInit
  <2> QED BY <2>1, <2>2, <2>3, <2>4, <2>5 DEF CommandsInit, TypeOK
<1>2. OwnersDrive
  BY Names DEF CommandsInit, OwnersDrive, Driving
<1>3. Cautious
  BY DEF CommandsInit, Cautious, ProfileBack
<1>4. Delivered
  BY DEF CommandsInit, Delivered
<1>5. WoodGuarded
  BY DEF CommandsInit, WoodGuarded, WoodUndisturbed, Driving
<1> QED BY <1>1, <1>2, <1>3, <1>4, <1>5 DEF CommandsInv

-----------------------------------------------------------------------------
(* Types. *)

LEMMA EndsTyped ==
  ASSUME TypeOK, NEW c \in Commands, NEW result \in {"ok", "no", "throw"}, Ends(c, result)
  PROVE  /\ pc' \in [Commands -> Driving \cup {"none", "aim", "dig", "equip", "ended"}]
         /\ on' \in [Commands -> 0..BotObjects]
         /\ left' \in [Commands -> 0..Tries]
         /\ style' \in [Commands -> {"walk", "dig"}]
         /\ mined' \in [Commands -> BOOLEAN]
         /\ answer' \in [Commands -> {"none", "ok", "no"}]
BY Names DEF TypeOK, Ends

LEMMA BeginTyped ==
  ASSUME TypeOK, NEW c \in Commands, NEW where \in Driving \cup {"equip"},
         NEW n \in 0..Tries, NEW how \in {"walk", "dig"}, Begin(c, where, n, how)
  PROVE  /\ pc' \in [Commands -> Driving \cup {"none", "aim", "dig", "equip", "ended"}]
         /\ on' \in [Commands -> 0..BotObjects]
         /\ left' \in [Commands -> 0..Tries]
         /\ style' \in [Commands -> {"walk", "dig"}]
         /\ mined' \in [Commands -> BOOLEAN]
         /\ answer' \in [Commands -> {"none", "ok", "no"}]
BY DEF TypeOK, Begin

LEMMA LockTyped ==
  ASSUME TypeOK, NEW b,
         \/ Release(b)
         \/ \E who \in Commands \cup {"wood"}, how \in {"walk", "dig"} : Take(b, who, how)
         \/ b \in Bot /\ \E who \in Commands \cup {"wood"} : Take(b, who, profile[b])
         \/ UNCHANGED <<owner, profile, previous>>
  PROVE  /\ owner' \in [Bot -> Commands \cup {"wood", "nobody"}]
         /\ profile' \in [Bot -> {"walk", "dig"}]
         /\ previous' \in [Bot -> {"walk", "dig"}]
<1>1. CASE Release(b)
  BY <1>1 DEF TypeOK, Release
<1>2. ASSUME NEW who \in Commands \cup {"wood"}, NEW how \in {"walk", "dig"}, Take(b, who, how)
      PROVE  /\ owner' \in [Bot -> Commands \cup {"wood", "nobody"}]
             /\ profile' \in [Bot -> {"walk", "dig"}]
             /\ previous' \in [Bot -> {"walk", "dig"}]
  BY <1>2 DEF TypeOK, Take
<1>3. ASSUME b \in Bot, NEW who \in Commands \cup {"wood"}, Take(b, who, profile[b])
      PROVE  /\ owner' \in [Bot -> Commands \cup {"wood", "nobody"}]
             /\ profile' \in [Bot -> {"walk", "dig"}]
             /\ previous' \in [Bot -> {"walk", "dig"}]
  <2>1. profile[b] \in {"walk", "dig"}
    BY <1>3 DEF TypeOK
  <2> QED BY <1>2, <1>3, <2>1
<1>4. CASE UNCHANGED <<owner, profile, previous>>
  BY <1>4 DEF TypeOK
<1> QED BY <1>1, <1>2, <1>3, <1>4

-----------------------------------------------------------------------------
(* The lock.  A command begins or goes on to drive, stops driving, or does *)
(* something else.                                                         *)

LEMMA TakesBot ==
  ASSUME TypeOK, OwnersDrive, NEW c \in Commands, NEW b \in Bot, NEW how,
         pc[c] \notin Driving, Free(b), Take(b, c, how),
         on' = [on EXCEPT ![c] = b], NEW q \in Driving, pc' = [pc EXCEPT ![c] = q],
         UNCHANGED woodRun
  PROVE  OwnersDrive'
<1>1. owner' = [owner EXCEPT ![b] = c] /\ owner[b] = "nobody"
  BY DEF Take, Free
<1>2. wood' = wood /\ woodBot' = woodBot
  BY DEF woodRun
<1> USE Names
<1>3. \A d \in Commands : pc'[d] \in Driving => on'[d] \in Bot /\ owner'[on'[d]] = d
  BY <1>1 DEF TypeOK, OwnersDrive
<1>4. \A a \in Bot : owner'[a] \in Commands => on'[owner'[a]] = a /\ pc'[owner'[a]] \in Driving
  BY <1>1 DEF TypeOK, OwnersDrive
<1>5. wood' = "leg" => woodBot' \in Bot /\ owner'[woodBot'] = "wood"
  BY <1>1, <1>2 DEF TypeOK, OwnersDrive
<1>6. \A a \in Bot : owner'[a] = "wood" => wood' = "leg" /\ woodBot' = a
  BY <1>1, <1>2 DEF TypeOK, OwnersDrive
<1> QED BY <1>3, <1>4, <1>5, <1>6 DEF OwnersDrive

LEMMA GivesBack ==
  ASSUME TypeOK, OwnersDrive, NEW c \in Commands, pc[c] \in Driving, Release(on[c]),
         on' = on \/ on' = [on EXCEPT ![c] = 0],
         NEW q, q \notin Driving, pc' = [pc EXCEPT ![c] = q],
         UNCHANGED woodRun
  PROVE  OwnersDrive'
<1>1. owner' = [owner EXCEPT ![on[c]] = "nobody"] /\ owner[on[c]] = c /\ on[c] \in Bot
  BY DEF Release, OwnersDrive
<1>2. wood' = wood /\ woodBot' = woodBot
  BY DEF woodRun
<1>3. \A d \in Commands : d # c => on'[d] = on[d] /\ pc'[d] = pc[d]
  BY DEF TypeOK
<1>4. pc'[c] \notin Driving
  BY DEF TypeOK
<1> USE Names
<1>5. \A d \in Commands : pc'[d] \in Driving => on'[d] \in Bot /\ owner'[on'[d]] = d
  BY <1>1, <1>3, <1>4 DEF TypeOK, OwnersDrive
<1>6. \A a \in Bot : owner'[a] \in Commands => on'[owner'[a]] = a /\ pc'[owner'[a]] \in Driving
  BY <1>1, <1>3 DEF TypeOK, OwnersDrive
<1>7. wood' = "leg" => woodBot' \in Bot /\ owner'[woodBot'] = "wood"
  BY <1>1, <1>2 DEF TypeOK, OwnersDrive
<1>8. \A a \in Bot : owner'[a] = "wood" => wood' = "leg" /\ woodBot' = a
  BY <1>1, <1>2 DEF TypeOK, OwnersDrive
<1> QED BY <1>5, <1>6, <1>7, <1>8 DEF OwnersDrive

LEMMA DrivesOn ==
  ASSUME TypeOK, OwnersDrive, NEW c \in Commands, NEW q \in Driving, pc[c] \in Driving,
         pc' = [pc EXCEPT ![c] = q], UNCHANGED <<on, owner, woodRun>>
  PROVE  OwnersDrive'
BY DEF TypeOK, OwnersDrive, woodRun

LEMMA StaysAside ==
  ASSUME TypeOK, OwnersDrive, NEW c \in Commands, NEW q, q \notin Driving, pc[c] \notin Driving,
         pc' = [pc EXCEPT ![c] = q], on' = on \/ \E b : on' = [on EXCEPT ![c] = b],
         UNCHANGED <<owner, woodRun>>
  PROVE  OwnersDrive'
<1>1. \A d \in Commands : d # c => on'[d] = on[d] /\ pc'[d] = pc[d]
  BY DEF TypeOK
<1>2. pc'[c] \notin Driving
  BY DEF TypeOK
<1>3. owner' = owner /\ wood' = wood /\ woodBot' = woodBot
  BY DEF woodRun
<1> QED BY <1>1, <1>2, <1>3 DEF OwnersDrive

-----------------------------------------------------------------------------
(* The profile. *)

LEMMA TakenCautious ==
  ASSUME TypeOK, Cautious, NEW b \in Bot, Free(b), NEW who, who # "nobody", NEW how,
         Take(b, who, how)
  PROVE  Cautious'
BY DEF TypeOK, Cautious, ProfileBack, Free, Take

LEMMA ReleasedCautious ==
  ASSUME TypeOK, Cautious, NEW b \in Bot, Release(b) PROVE Cautious'
BY DEF TypeOK, Cautious, ProfileBack, Free, Release

-----------------------------------------------------------------------------
(* The delivery. *)

LEMMA ReceivedDelivered ==
  ASSUME TypeOK, Delivered, NEW c \in Commands, Receive(c),
         NEW q, q # "none", pc' = [pc EXCEPT ![c] = q],
         \/ answer' = answer
         \/ q = "ended" /\ \E a \in {"ok", "no"} : answer' = [answer EXCEPT ![c] = a]
  PROVE  Delivered'
<1>1. /\ wire[c] > 0 /\ wire' = [wire EXCEPT ![c] = @ - 1] /\ runs' = [runs EXCEPT ![c] = @ + 1]
      /\ py' = py
  BY DEF Receive, agent
<1>2. runs[c] \in Nat /\ wire[c] \in Nat /\ runs[c] + wire[c] <= 1
  BY DEF TypeOK, Delivered
<1>3. runs[c] = 0 /\ wire[c] = 1 /\ answer[c] = "none" /\ pc[c] = "none"
  BY <1>1, <1>2 DEF Delivered
<1>4. runs'[c] = 1 /\ wire'[c] = 0 /\ pc'[c] = q
  BY <1>1, <1>3 DEF TypeOK
<1>5. answer'[c] # "none" => q = "ended"
  BY <1>3
<1>6. \A d \in Commands : d # c =>
        runs'[d] = runs[d] /\ wire'[d] = wire[d] /\ pc'[d] = pc[d] /\ answer'[d] = answer[d]
  BY <1>1 DEF TypeOK
<1>7. py[c] \notin {"idle", "connect", "unsent", "ok", "no"}
  BY <1>3 DEF Delivered
<1>8. ASSUME NEW d \in Commands, d # c
      PROVE  /\ runs'[d] + wire'[d] <= 1
             /\ py'[d] \in {"idle", "connect", "unsent"} => runs'[d] = 0 /\ wire'[d] = 0
             /\ runs'[d] = 0 => pc'[d] = "none" /\ answer'[d] = "none"
             /\ answer'[d] # "none" => pc'[d] = "ended"
             /\ py'[d] \in {"ok", "no"} => answer'[d] # "none"
  BY <1>1, <1>6, <1>8 DEF Delivered
<1>9. /\ runs'[c] + wire'[c] <= 1
      /\ py'[c] \in {"idle", "connect", "unsent"} => runs'[c] = 0 /\ wire'[c] = 0
      /\ runs'[c] = 0 => pc'[c] = "none" /\ answer'[c] = "none"
      /\ answer'[c] # "none" => pc'[c] = "ended"
      /\ py'[c] \in {"ok", "no"} => answer'[c] # "none"
  BY <1>1, <1>4, <1>5, <1>7
<1> QED BY <1>8, <1>9 DEF Delivered

(* A handler that has begun goes on or ends: its command was executed.     *)
LEMMA WorkedDelivered ==
  ASSUME TypeOK, Delivered, NEW c \in Commands, pc[c] \notin {"none", "ended"},
         UNCHANGED <<agent, wire, runs>>, NEW q, q # "none", pc' = [pc EXCEPT ![c] = q],
         \/ answer' = answer
         \/ q = "ended" /\ \E a \in {"ok", "no"} : answer' = [answer EXCEPT ![c] = a]
  PROVE  Delivered'
<1>1. py' = py /\ wire' = wire /\ runs' = runs
  BY DEF agent
<1>2. runs[c] # 0 /\ answer[c] = "none"
  BY DEF Delivered
<1>3. \A d \in Commands : d # c => pc'[d] = pc[d] /\ answer'[d] = answer[d]
  BY DEF TypeOK
<1>4. pc'[c] = q /\ (answer'[c] # "none" => q = "ended")
  BY <1>2 DEF TypeOK
<1>5. py[c] \notin {"ok", "no"}
  BY <1>2 DEF Delivered
<1> QED BY <1>1, <1>2, <1>3, <1>4, <1>5 DEF Delivered

-----------------------------------------------------------------------------
(* The steps of the agent. *)

LEMMA AgentStep ==
  ASSUME CommandsInv, NEW c \in Commands, Agent(c)
  PROVE  CommandsInv'
<1> USE DEF CommandsInv
<1>1. UNCHANGED <<kind, answer, handler, control, woodRun, game>>
  BY DEF Agent, Dispatch, ConnectFails, SendMessage, SendOrRecvFails, RecvAnswer, Cancel
<1>2. /\ kind' = kind /\ answer' = answer /\ pc' = pc /\ on' = on /\ left' = left
      /\ style' = style /\ mined' = mined /\ runs' = runs /\ owner' = owner
      /\ profile' = profile /\ previous' = previous /\ moveTo' = moveTo
      /\ rendezvous' = rendezvous /\ vpt' = vpt /\ wood' = wood /\ woodBot' = woodBot
      /\ active' = active /\ born' = born
  BY <1>1 DEF handler, control, woodRun, game
<1>3. /\ py' \in [Commands -> {"idle", "connect", "wait"} \cup Reported]
      /\ attempt' \in [Commands -> 0..MaxRetries]
      /\ wire' \in [Commands -> Nat]
      /\ Delivered'
  <2>1. CASE Dispatch(c)
    BY <2>1, <1>2, Names DEF Dispatch, Become, TypeOK, Delivered
  <2>2. CASE ConnectFails(c)
    <3>1. CASE attempt[c] < MaxRetries
      BY <2>2, <3>1, <1>2, Names DEF ConnectFails, TypeOK, Delivered
    <3>2. CASE ~(attempt[c] < MaxRetries)
      <4>1. /\ py[c] = "connect" /\ py' = [py EXCEPT ![c] = "unsent"]
            /\ attempt' = attempt /\ wire' = wire
        BY <2>2, <3>2, <1>2 DEF ConnectFails, Become
      <4>2. \A d \in Commands : py'[d] = (IF d = c THEN "unsent" ELSE py[d])
        BY <4>1 DEF TypeOK
      <4>3. Delivered'
        BY <4>1, <4>2, <1>2 DEF Delivered
      <4> QED BY <4>1, <4>3 DEF TypeOK, Reported
    <3> QED BY <3>1, <3>2
  <2>3. CASE SendMessage(c)
    BY <2>3, <1>2 DEF SendMessage, Become, TypeOK, Delivered
  <2>4. CASE SendOrRecvFails(c)
    <3>1. attempt' = attempt /\ py[c] = "wait" /\ py' = [py EXCEPT ![c] = "unknown"]
      BY <2>4 DEF SendOrRecvFails, AfterSendFailure, Become
    <3>2. wire' = wire \/ wire' = [wire EXCEPT ![c] = 0]
      BY <2>4 DEF SendOrRecvFails
    <3>3. \A d \in Commands : wire'[d] \in Nat /\ wire'[d] <= wire[d]
      BY <3>2 DEF TypeOK
    <3>4. Delivered'
      BY <3>1, <3>3, <1>2 DEF TypeOK, Delivered
    <3> QED BY <3>1, <3>2, <3>4 DEF TypeOK, Reported
  <2>5. CASE RecvAnswer(c)
    <3>1. /\ py[c] = "wait" /\ answer[c] # "none" /\ py' = [py EXCEPT ![c] = answer[c]]
          /\ attempt' = attempt /\ wire' = wire
      BY <2>5 DEF RecvAnswer, Become
    <3>2. answer[c] \in {"ok", "no"}
      BY <3>1 DEF TypeOK
    <3>3. py' \in [Commands -> {"idle", "connect", "wait"} \cup Reported]
      BY <3>1, <3>2 DEF TypeOK, Reported
    <3>4. \A d \in Commands : py'[d] = (IF d = c THEN answer[c] ELSE py[d])
      BY <3>1 DEF TypeOK
    <3>5. Delivered'
      BY <3>1, <3>2, <3>4, <1>2 DEF Delivered
    <3> QED BY <3>1, <3>3, <3>5 DEF TypeOK
  <2>6. CASE Cancel(c)
    BY <2>6, <1>2 DEF Cancel, Become, TypeOK, Reported, Delivered
  <2> QED BY <2>1, <2>2, <2>3, <2>4, <2>5, <2>6 DEF Agent
<1>4. TypeOK'
  BY <1>2, <1>3 DEF TypeOK
<1>5. OwnersDrive' /\ Cautious' /\ WoodGuarded'
  BY <1>2 DEF OwnersDrive, Cautious, ProfileBack, Free, WoodGuarded, WoodUndisturbed
<1> QED BY <1>3, <1>4, <1>5

-----------------------------------------------------------------------------
(* A message is received: the command answers at once, begins to drive, or *)
(* equips.                                                                 *)

Flight == [cmd : Commands \cup {"nobody"}, bot : 0..BotObjects]

LEMMA AnsweredAtOnce ==
  ASSUME CommandsInv, NEW c \in Commands, Receive(c),
         NEW result \in {"ok", "no", "throw"}, Ends(c, result),
         UNCHANGED <<owner, profile, previous, vpt>>,
         moveTo' \in {moveTo, NoFlight}, rendezvous' \in {rendezvous, NoFlight}
  PROVE  CommandsInv'
<1> USE DEF CommandsInv
<1>1. /\ pc[c] \in {"none", "ended"} /\ wire[c] > 0
      /\ wire' = [wire EXCEPT ![c] = @ - 1] /\ runs' = [runs EXCEPT ![c] = @ + 1]
      /\ kind' = kind /\ py' = py /\ attempt' = attempt /\ wood' = wood /\ woodBot' = woodBot
      /\ active' = active /\ born' = born
  BY DEF Receive, agent, woodRun, game
<1>2. pc' = [pc EXCEPT ![c] = "ended"] /\ on' = [on EXCEPT ![c] = 0]
  BY DEF Ends
<1>3. TypeOK'
  <2>1. wire' \in [Commands -> Nat] /\ runs' \in [Commands -> Nat]
    BY <1>1 DEF TypeOK
  <2>2. moveTo' \in Flight /\ rendezvous' \in Flight
    BY Names DEF TypeOK, NoFlight, Flight
  <2> QED BY <1>1, <2>1, <2>2, EndsTyped DEF TypeOK, Flight
<1>4. OwnersDrive'
  BY <1>1, <1>2, StaysAside DEF Driving, woodRun
<1>5. Cautious'
  BY DEF Cautious, ProfileBack, Free
<1>6. Delivered'
  BY <1>2, ReceivedDelivered DEF Ends
<1>7. WoodGuarded'
  <2>1. pc'[c] = "ended" /\ \A d \in Commands : d # c => pc'[d] = pc[d] /\ on'[d] = on[d]
    BY <1>2 DEF TypeOK
  <2> QED BY <1>1, <2>1 DEF WoodGuarded, WoodUndisturbed, Driving
<1> QED BY <1>3, <1>4, <1>5, <1>6, <1>7

LEMMA BeginsToDrive ==
  ASSUME CommandsInv, NEW c \in Commands, Receive(c), Served(c), kind[c] # "say",
         NEW where \in Driving, NEW n \in 0..Tries, NEW how \in {"walk", "dig"},
         Begin(c, where, n, how), Free(active),
         Take(active, c, how) \/ Take(active, c, profile[active]),
         moveTo' \in Flight, rendezvous' \in Flight, vpt' \in BOOLEAN
  PROVE  CommandsInv'
<1> USE DEF CommandsInv
<1>1. /\ pc[c] \in {"none", "ended"} /\ wire[c] > 0
      /\ wire' = [wire EXCEPT ![c] = @ - 1] /\ runs' = [runs EXCEPT ![c] = @ + 1]
      /\ kind' = kind /\ py' = py /\ attempt' = attempt /\ wood' = wood /\ woodBot' = woodBot
      /\ active' = active /\ born' = born
  BY DEF Receive, agent, woodRun, game
<1>2. pc' = [pc EXCEPT ![c] = where] /\ on' = [on EXCEPT ![c] = active]
  BY DEF Begin
<1>3. active \in Bot /\ wood = "idle"
  BY DEF Served, Gate, TypeOK, Bot
<1>4. TypeOK'
  <2>1. wire' \in [Commands -> Nat] /\ runs' \in [Commands -> Nat]
    BY <1>1 DEF TypeOK
  <2>2. /\ owner' \in [Bot -> Commands \cup {"wood", "nobody"}]
        /\ profile' \in [Bot -> {"walk", "dig"}]
        /\ previous' \in [Bot -> {"walk", "dig"}]
    BY <1>3, LockTyped
  <2> QED BY <1>1, <2>1, <2>2, BeginTyped DEF TypeOK, Flight
<1>5. OwnersDrive'
  BY <1>1, <1>2, <1>3, TakesBot DEF Driving, woodRun
<1>6. Cautious'
  BY <1>3, Names, TakenCautious
<1>7. Delivered'
  BY <1>2, ReceivedDelivered DEF Begin, Driving
<1>8. WoodGuarded'
  <2>1. pc'[c] = where /\ \A d \in Commands : d # c => pc'[d] = pc[d] /\ on'[d] = on[d]
    BY <1>2 DEF TypeOK
  <2> QED BY <1>1, <1>3, <2>1 DEF WoodGuarded, WoodUndisturbed, Driving
<1> QED BY <1>4, <1>5, <1>6, <1>7, <1>8

LEMMA BeginsToEquip ==
  ASSUME CommandsInv, NEW c \in Commands, EquipStart(c)
  PROVE  CommandsInv'
<1> USE DEF CommandsInv
<1>1. Receive(c) /\ Begin(c, "equip", 0, "walk") /\ UNCHANGED control
  BY DEF EquipStart
<1>2. /\ pc[c] \in {"none", "ended"} /\ wire[c] > 0
      /\ wire' = [wire EXCEPT ![c] = @ - 1] /\ runs' = [runs EXCEPT ![c] = @ + 1]
      /\ kind' = kind /\ py' = py /\ attempt' = attempt /\ wood' = wood /\ woodBot' = woodBot
      /\ active' = active /\ born' = born
  BY <1>1 DEF Receive, agent, woodRun, game
<1>3. pc' = [pc EXCEPT ![c] = "equip"] /\ on' = [on EXCEPT ![c] = active]
  BY <1>1 DEF Begin
<1>4. /\ owner' = owner /\ profile' = profile /\ previous' = previous
      /\ moveTo' = moveTo /\ rendezvous' = rendezvous /\ vpt' = vpt
  BY <1>1 DEF control
<1>5. TypeOK'
  <2>1. wire' \in [Commands -> Nat] /\ runs' \in [Commands -> Nat]
    BY <1>2 DEF TypeOK
  <2>2. "equip" \in Driving \cup {"equip"} /\ 0 \in 0..Tries
    BY Names
  <2>3. /\ pc' \in [Commands -> Driving \cup {"none", "aim", "dig", "equip", "ended"}]
        /\ on' \in [Commands -> 0..BotObjects]
        /\ left' \in [Commands -> 0..Tries]
        /\ style' \in [Commands -> {"walk", "dig"}]
        /\ mined' \in [Commands -> BOOLEAN]
        /\ answer' \in [Commands -> {"none", "ok", "no"}]
    BY <1>1, <2>2, BeginTyped
  <2> QED BY <1>2, <1>4, <2>1, <2>3 DEF TypeOK
<1>6. OwnersDrive'
  BY <1>2, <1>3, <1>4, StaysAside DEF Driving, woodRun
<1>7. Cautious'
  BY <1>4 DEF Cautious, ProfileBack, Free
<1>8. Delivered'
  BY <1>1, <1>3, ReceivedDelivered DEF Begin
<1>9. WoodGuarded'
  <2>1. pc'[c] = "equip" /\ \A d \in Commands : d # c => pc'[d] = pc[d] /\ on'[d] = on[d]
    BY <1>3 DEF TypeOK
  <2> QED BY <1>2, <2>1 DEF WoodGuarded, WoodUndisturbed, Driving
<1> QED BY <1>5, <1>6, <1>7, <1>8, <1>9

LEMMA ReceivingStep ==
  ASSUME CommandsInv, NEW c \in Commands,
         \/ Refused(c) \/ Say(c) \/ MoveInvalid(c) \/ FollowInvalid(c)
         \/ NothingToMine(c) \/ VptInvalid(c) \/ NothingToEquip(c)
         \/ MoveToStart(c) \/ FollowStart(c) \/ MineStart(c) \/ VptStart(c) \/ EquipStart(c)
  PROVE  CommandsInv'
<1>1. ASSUME Receive(c), Refuse(c) PROVE CommandsInv'
  BY <1>1, AnsweredAtOnce DEF Refuse, control
<1>2. ASSUME NEW what, NEW results \in SUBSET {"ok", "no", "throw"}, AtOnce(c, what, results)
      PROVE  CommandsInv'
  BY <1>2, AnsweredAtOnce DEF AtOnce, control
<1>3. CASE Refused(c)
  BY <1>1, <1>3 DEF Refused
<1>4. CASE Say(c) \/ MoveInvalid(c) \/ FollowInvalid(c)
             \/ NothingToMine(c) \/ VptInvalid(c) \/ NothingToEquip(c)
  BY <1>2, <1>4 DEF Say, MoveInvalid, FollowInvalid, NothingToMine, VptInvalid, NothingToEquip
<1>5. Tries \in 0..Tries /\ 0 \in 0..Tries
  BY Names
<1>6. /\ moveTo \in Flight /\ rendezvous \in Flight /\ vpt \in BOOLEAN
      /\ active \in 0..BotObjects
  BY DEF CommandsInv, TypeOK, Flight
<1>7. [cmd |-> c, bot |-> active] \in Flight
  BY <1>6 DEF Flight
<1>8. CASE MoveToStart(c)
  <2> USE <1>8 DEF MoveToStart
  <2>1. CASE Navigating(active)
    BY <2>1, <1>1
  <2>2. CASE ~Navigating(active) /\ ~Free(active)
    BY <2>2, AnsweredAtOnce
  <2>3. CASE ~Navigating(active) /\ Free(active)
    BY <2>3, <1>5, <1>6, <1>7, BeginsToDrive DEF Driving
  <2> QED BY <2>1, <2>2, <2>3
<1>9. CASE FollowStart(c)
  <2> USE <1>9 DEF FollowStart
  <2>1. CASE Navigating(active)
    BY <2>1, <1>1
  <2>2. CASE ~Navigating(active) /\ (IsMoving(active) \/ IsDigging(active) \/ ~Free(active))
    BY <2>2, AnsweredAtOnce
  <2>3. CASE ~Navigating(active) /\ ~(IsMoving(active) \/ IsDigging(active) \/ ~Free(active))
    BY <2>3, <1>5, <1>6, <1>7, BeginsToDrive DEF Driving
  <2> QED BY <2>1, <2>2, <2>3
<1>10. CASE MineStart(c)
  <2>1. CASE Free(active)
    BY <1>10, <2>1, <1>5, <1>6, BeginsToDrive DEF MineStart, Driving
  <2>2. CASE ~Free(active)
    BY <1>10, <2>2, AnsweredAtOnce DEF MineStart
  <2> QED BY <2>1, <2>2
<1>11. CASE VptStart(c)
  <2>1. CASE vpt \/ ~Free(active)
    BY <1>11, <2>1, <1>1 DEF VptStart
  <2>2. CASE ~(vpt \/ ~Free(active))
    BY <1>11, <2>2, <1>5, <1>6, BeginsToDrive DEF VptStart, Driving
  <2> QED BY <2>1, <2>2
<1>12. CASE EquipStart(c)
  BY <1>12, BeginsToEquip
<1> QED BY <1>3, <1>4, <1>8, <1>9, <1>10, <1>11, <1>12

-----------------------------------------------------------------------------
(* A handler at work: it drives on, stops driving and ends, or digs.       *)

LEMMA OverTyped ==
  ASSUME TypeOK, NEW c \in Commands, UNCHANGED <<agent, wire, runs, woodRun, game>>,
         /\ pc' \in [Commands -> Driving \cup {"none", "aim", "dig", "equip", "ended"}]
         /\ on' \in [Commands -> 0..BotObjects]
         /\ left' \in [Commands -> 0..Tries]
         /\ style' \in [Commands -> {"walk", "dig"}]
         /\ mined' \in [Commands -> BOOLEAN]
         /\ answer' \in [Commands -> {"none", "ok", "no"}],
         /\ owner' \in [Bot -> Commands \cup {"wood", "nobody"}]
         /\ profile' \in [Bot -> {"walk", "dig"}]
         /\ previous' \in [Bot -> {"walk", "dig"}],
         moveTo' \in Flight, rendezvous' \in Flight, vpt' \in BOOLEAN
  PROVE  TypeOK'
BY DEF TypeOK, Flight, agent, woodRun, game

LEMMA WorkStays ==
  ASSUME TypeOK, WoodGuarded, NEW c \in Commands, UNCHANGED <<agent, woodRun>>,
         NEW q, pc' = [pc EXCEPT ![c] = q],
         \/ q \in {"ended", "equip"} /\ \E b : on' = [on EXCEPT ![c] = b]
         \/ on' = on /\ q \in Driving /\ (pc[c] \in Driving \/ kind[c] = "mineOre")
         \/ on' = on /\ q \in {"aim", "dig"} /\ kind[c] = "mineOre" /\ on[c] \in Bot
  PROVE  WoodGuarded'
<1>1. kind' = kind /\ wood' = wood /\ woodBot' = woodBot
  BY DEF agent, woodRun
<1>2. pc'[c] = q /\ \A d \in Commands : d # c => pc'[d] = pc[d] /\ on'[d] = on[d]
  BY DEF TypeOK
<1>3. CASE q \in {"ended", "equip"}
  BY <1>1, <1>2, <1>3 DEF WoodGuarded, WoodUndisturbed, Driving
<1>4. CASE on' = on /\ q \in Driving /\ (pc[c] \in Driving \/ kind[c] = "mineOre")
  BY <1>1, <1>2, <1>4 DEF WoodGuarded, WoodUndisturbed, Driving
<1>5. CASE on' = on /\ q \in {"aim", "dig"} /\ kind[c] = "mineOre" /\ on[c] \in Bot
  BY <1>1, <1>2, <1>5 DEF WoodGuarded, WoodUndisturbed, Driving
<1> QED BY <1>3, <1>4, <1>5

LEMMA Flies ==
  ASSUME TypeOK, NEW c \in Commands
  PROVE  /\ moveTo \in Flight /\ rendezvous \in Flight
         /\ FlightEnds(moveTo, c) \in Flight /\ FlightEnds(rendezvous, c) \in Flight
BY Names DEF TypeOK, Flight, FlightEnds, NoFlight

LEMMA StopsDriving ==
  ASSUME CommandsInv, NEW c \in Commands, pc[c] \in Driving,
         NEW result \in {"ok", "no", "throw"}, Ends(c, result), Release(on[c]),
         UNCHANGED <<agent, wire, runs, woodRun, game>>,
         moveTo' \in Flight, rendezvous' \in Flight, vpt' \in BOOLEAN
  PROVE  CommandsInv'
<1> USE DEF CommandsInv
<1>1. on[c] \in Bot
  BY DEF OwnersDrive
<1>2. pc' = [pc EXCEPT ![c] = "ended"] /\ on' = [on EXCEPT ![c] = 0]
  BY DEF Ends
<1>3. TypeOK'
  <2>1. /\ owner' \in [Bot -> Commands \cup {"wood", "nobody"}]
        /\ profile' \in [Bot -> {"walk", "dig"}]
        /\ previous' \in [Bot -> {"walk", "dig"}]
    BY LockTyped
  <2> QED BY <2>1, EndsTyped, OverTyped
<1>4. OwnersDrive'
  BY <1>2, GivesBack DEF Driving
<1>5. Cautious'
  BY <1>1, ReleasedCautious
<1>6. Delivered'
  BY <1>2, WorkedDelivered DEF Ends, Driving
<1>7. WoodGuarded'
  BY <1>2, WorkStays
<1> QED BY <1>3, <1>4, <1>5, <1>6, <1>7

LEMMA KeepsDriving ==
  ASSUME CommandsInv, NEW c \in Commands, pc[c] \in Driving,
         NEW q \in Driving, pc' = [pc EXCEPT ![c] = q],
         left' \in [Commands -> 0..Tries], style' \in [Commands -> {"walk", "dig"}],
         mined' \in [Commands -> BOOLEAN],
         profile' \in {profile, [profile EXCEPT ![on[c]] = "dig"]},
         UNCHANGED <<agent, wire, answer, on, runs, owner, previous, moveTo, rendezvous, vpt,
                     woodRun, game>>
  PROVE  CommandsInv'
<1> USE DEF CommandsInv
<1>1. on[c] \in Bot /\ owner[on[c]] = c
  BY DEF OwnersDrive
<1>2. TypeOK'
  <2>1. /\ owner' \in [Bot -> Commands \cup {"wood", "nobody"}]
        /\ profile' \in [Bot -> {"walk", "dig"}]
        /\ previous' \in [Bot -> {"walk", "dig"}]
    BY DEF TypeOK
  <2>2. pc' \in [Commands -> Driving \cup {"none", "aim", "dig", "equip", "ended"}]
    BY DEF TypeOK
  <2>3. /\ moveTo' \in Flight /\ rendezvous' \in Flight /\ vpt' \in BOOLEAN
        /\ on' \in [Commands -> 0..BotObjects] /\ answer' \in [Commands -> {"none", "ok", "no"}]
    BY DEF TypeOK, Flight
  <2> QED BY <2>1, <2>2, <2>3, OverTyped
<1>3. OwnersDrive'
  BY DrivesOn
<1>4. Cautious'
  <2>1. previous' = previous /\ owner' = owner
    OBVIOUS
  <2>2. \A b \in Bot : Free(b)' => Free(b) /\ b # on[c]
    BY <1>1, <2>1, Names DEF Free
  <2>3. \A b \in Bot : b # on[c] => profile'[b] = profile[b]
    BY DEF TypeOK
  <2> QED BY <2>1, <2>2, <2>3 DEF Cautious, ProfileBack
<1>5. Delivered'
  BY WorkedDelivered DEF Driving
<1>6. WoodGuarded'
  BY WorkStays
<1> QED BY <1>2, <1>3, <1>4, <1>5, <1>6

LEMMA DrivingStep ==
  ASSUME CommandsInv, NEW c \in Commands,
         \/ ForcedMove(c) \/ Resume(c) \/ MoveToEnds(c) \/ Fallback(c)
         \/ TargetUnknown(c) \/ NoRoute(c) \/ Arrived(c)
         \/ FollowStep(c) \/ StepDone(c) \/ StepFails(c) \/ MineMissed(c) \/ VptEnds(c)
  PROVE  CommandsInv'
<1>1. /\ left \in [Commands -> 0..Tries] /\ style \in [Commands -> {"walk", "dig"}]
      /\ mined \in [Commands -> BOOLEAN] /\ vpt \in BOOLEAN
      /\ moveTo \in Flight /\ rendezvous \in Flight
      /\ FlightEnds(moveTo, c) \in Flight /\ FlightEnds(rendezvous, c) \in Flight
  BY Flies DEF CommandsInv, TypeOK
<1>2. left[c] > 0 => left[c] - 1 \in 0..Tries
  BY <1>1, Names
<1>3. ASSUME NEW result \in {"ok", "no"}, pc[c] \in Driving, FollowOver(c, result)
      PROVE  CommandsInv'
  BY <1>1, <1>3, StopsDriving DEF FollowOver
<1>4. CASE ForcedMove(c)
  <2>1. left' \in [Commands -> 0..Tries]
    BY <1>1, <1>2, <1>4 DEF ForcedMove
  <2> QED BY <1>1, <1>4, <2>1, KeepsDriving DEF ForcedMove, Driving, control
<1>5. CASE Resume(c)
  BY <1>1, <1>5, KeepsDriving DEF Resume, Driving, control
<1>6. CASE MoveToEnds(c)
  BY <1>1, <1>6, StopsDriving DEF MoveToEnds, Driving
<1>7. CASE Fallback(c)
  <2>1. left' \in [Commands -> 0..Tries] /\ style' \in [Commands -> {"walk", "dig"}]
    BY <1>1, <1>7, Names DEF Fallback
  <2>2. pc' = [pc EXCEPT ![c] = "goto"]
    BY <1>7 DEF Fallback, CommandsInv, TypeOK
  <2> QED BY <1>1, <1>7, <2>1, <2>2, KeepsDriving DEF Fallback, Driving
<1>8. CASE TargetUnknown(c) \/ NoRoute(c) \/ Arrived(c) \/ StepFails(c)
  BY <1>3, <1>8 DEF TargetUnknown, NoRoute, Arrived, StepFails, Driving
<1>9. CASE FollowStep(c)
  <2>1. CASE left[c] = 0
    BY <1>3, <1>9, <2>1 DEF FollowStep, Driving
  <2>2. CASE left[c] # 0
    <3>1. left' \in [Commands -> 0..Tries]
      <4>1. left[c] > 0
        BY <1>1, <2>2, Names
      <4> QED BY <1>1, <1>2, <1>9, <2>2, <4>1 DEF FollowStep
    <3> QED BY <1>1, <1>9, <2>2, <3>1, KeepsDriving DEF FollowStep, Driving, control
  <2> QED BY <2>1, <2>2
<1>10. CASE StepDone(c)
  BY <1>1, <1>10, KeepsDriving DEF StepDone, Driving, control
<1>11. CASE MineMissed(c)
  <2>1. pc[c] \in Driving /\ NextOre(c, TRUE, mined[c])
    BY <1>11 DEF MineMissed, Driving
  <2>2. UNCHANGED <<agent, wire, runs, moveTo, rendezvous, vpt, woodRun, game>>
    BY <2>1 DEF NextOre
  <2>3. CASE /\ left[c] > 0
             /\ left' = [left EXCEPT ![c] = @ - 1]
             /\ pc' = [pc EXCEPT ![c] = "goto"]
             /\ mined' = [mined EXCEPT ![c] = mined[c]]
             /\ UNCHANGED <<owner, profile, previous, answer, on, style>>
    <3>1. left' \in [Commands -> 0..Tries] /\ mined' \in [Commands -> BOOLEAN]
      BY <1>1, <1>2, <2>3
    <3> QED BY <1>1, <2>1, <2>2, <2>3, <3>1, KeepsDriving DEF Driving
  <2>4. CASE /\ Ends(c, IF mined[c] THEN "ok" ELSE "no")
             /\ Release(on[c])
    BY <1>1, <2>1, <2>2, <2>4, StopsDriving
  <2> QED BY <2>1, <2>3, <2>4 DEF NextOre
<1>12. CASE VptEnds(c)
  BY <1>1, <1>12, StopsDriving DEF VptEnds, Driving
<1> QED BY <1>4, <1>5, <1>6, <1>7, <1>8, <1>9, <1>10, <1>11, <1>12

LEMMA DiggingStep ==
  ASSUME CommandsInv, NEW c \in Commands,
         MineReached(c) \/ MineDig(c) \/ MineDug(c) \/ EquipEnds(c)
  PROVE  CommandsInv'
<1> USE DEF CommandsInv
<1>1. /\ left \in [Commands -> 0..Tries] /\ style \in [Commands -> {"walk", "dig"}]
      /\ mined \in [Commands -> BOOLEAN] /\ vpt \in BOOLEAN /\ on \in [Commands -> 0..BotObjects]
      /\ answer \in [Commands -> {"none", "ok", "no"}]
      /\ moveTo \in Flight /\ rendezvous \in Flight
      /\ pc \in [Commands -> Driving \cup {"none", "aim", "dig", "equip", "ended"}]
  BY Flies DEF TypeOK
<1>2. ASSUME pc[c] \in {"aim", "dig", "equip"}, NEW result \in {"ok", "no"}, Ends(c, result),
             UNCHANGED <<agent, wire, runs, control, woodRun, game>>
      PROVE  CommandsInv'
  <2>1. UNCHANGED <<owner, profile, previous, moveTo, rendezvous, vpt>>
    BY <1>2 DEF control
  <2>2. TypeOK'
    <3>1. /\ owner' \in [Bot -> Commands \cup {"wood", "nobody"}]
          /\ profile' \in [Bot -> {"walk", "dig"}]
          /\ previous' \in [Bot -> {"walk", "dig"}]
      BY <2>1 DEF TypeOK
    <3> QED BY <1>1, <1>2, <2>1, <3>1, EndsTyped, OverTyped
  <2>3. pc' = [pc EXCEPT ![c] = "ended"] /\ on' = [on EXCEPT ![c] = 0]
    BY <1>2 DEF Ends
  <2>4. OwnersDrive'
    BY <1>2, <2>1, <2>3, StaysAside DEF Driving
  <2>5. Cautious'
    BY <2>1 DEF Cautious, ProfileBack, Free
  <2>6. Delivered'
    BY <1>2, <2>3, WorkedDelivered DEF Ends
  <2>7. WoodGuarded'
    BY <1>2, <2>3, WorkStays
  <2> QED BY <2>2, <2>4, <2>5, <2>6, <2>7
<1>3. CASE MineReached(c)
  <2>1. /\ pc[c] = "goto" /\ kind[c] = "mineOre" /\ pc' = [pc EXCEPT ![c] = "aim"]
        /\ Release(on[c])
        /\ UNCHANGED <<agent, wire, answer, on, left, style, mined, runs, moveTo, rendezvous,
                       vpt, woodRun, game>>
    BY <1>3 DEF MineReached
  <2>2. pc[c] \in Driving /\ on[c] \in Bot
    BY <2>1 DEF OwnersDrive, Driving
  <2>3. TypeOK'
    <3>1. /\ owner' \in [Bot -> Commands \cup {"wood", "nobody"}]
          /\ profile' \in [Bot -> {"walk", "dig"}]
          /\ previous' \in [Bot -> {"walk", "dig"}]
      BY <2>1, LockTyped
    <3>2. pc' \in [Commands -> Driving \cup {"none", "aim", "dig", "equip", "ended"}]
      BY <1>1, <2>1
    <3> QED BY <1>1, <2>1, <3>1, <3>2, OverTyped
  <2>4. OwnersDrive'
    BY <2>1, <2>2, GivesBack DEF Driving
  <2>5. Cautious'
    BY <2>1, <2>2, ReleasedCautious
  <2>6. Delivered'
    BY <2>1, WorkedDelivered
  <2>7. WoodGuarded'
    BY <2>1, <2>2, WorkStays
  <2> QED BY <2>3, <2>4, <2>5, <2>6, <2>7
<1>4. CASE MineDig(c)
  <2>1. /\ pc[c] = "aim" /\ pc' = [pc EXCEPT ![c] = "dig"]
        /\ UNCHANGED <<agent, wire, answer, on, left, style, mined, runs, owner, profile,
                       previous, moveTo, rendezvous, vpt, woodRun, game>>
    BY <1>4 DEF MineDig, control
  <2>2. kind[c] = "mineOre" /\ on[c] \in Bot
    BY <2>1 DEF WoodGuarded
  <2>3. TypeOK'
    <3>1. pc' \in [Commands -> Driving \cup {"none", "aim", "dig", "equip", "ended"}]
      BY <1>1, <2>1
    <3>2. /\ owner' \in [Bot -> Commands \cup {"wood", "nobody"}]
          /\ profile' \in [Bot -> {"walk", "dig"}]
          /\ previous' \in [Bot -> {"walk", "dig"}]
      BY <2>1 DEF TypeOK
    <3> QED BY <1>1, <2>1, <3>1, <3>2, OverTyped
  <2>4. OwnersDrive'
    BY <2>1, StaysAside DEF Driving
  <2>5. Cautious'
    BY <2>1 DEF Cautious, ProfileBack, Free
  <2>6. Delivered'
    BY <2>1, WorkedDelivered
  <2>7. WoodGuarded'
    BY <2>1, <2>2, WorkStays
  <2> QED BY <2>3, <2>4, <2>5, <2>6, <2>7
<1>5. CASE MineDug(c)
  <2>1. PICK dug \in BOOLEAN : NextOre(c, FALSE, mined[c] \/ dug)
    BY <1>5 DEF MineDug
  <2>2. pc[c] \in {"aim", "dig"} /\ kind[c] = "mineOre" /\ on[c] \in Bot
    BY <1>5 DEF MineDug, WoodGuarded
  <2>3. UNCHANGED <<agent, wire, runs, moveTo, rendezvous, vpt, woodRun, game>>
    BY <2>1 DEF NextOre
  <2>4. CASE /\ left[c] > 0 /\ Free(on[c])
             /\ left' = [left EXCEPT ![c] = @ - 1]
             /\ pc' = [pc EXCEPT ![c] = "goto"]
             /\ mined' = [mined EXCEPT ![c] = mined[c] \/ dug]
             /\ Take(on[c], c, "dig")
             /\ UNCHANGED <<answer, on, style>>
    <3>1. TypeOK'
      <4>1. /\ owner' \in [Bot -> Commands \cup {"wood", "nobody"}]
            /\ profile' \in [Bot -> {"walk", "dig"}]
            /\ previous' \in [Bot -> {"walk", "dig"}]
        BY <2>4, LockTyped
      <4>2. pc' \in [Commands -> Driving \cup {"none", "aim", "dig", "equip", "ended"}]
        BY <1>1, <2>4 DEF Driving
      <4>3. left' \in [Commands -> 0..Tries]
        BY <1>1, <2>4, Names
      <4>4. mined' \in [Commands -> BOOLEAN]
        BY <1>1, <2>4, Zenon
      <4> QED BY <1>1, <2>3, <2>4, <4>1, <4>2, <4>3, <4>4, OverTyped
    <3>2. on' = [on EXCEPT ![c] = on[c]]
      BY <1>1, <2>4
    <3>3. OwnersDrive'
      BY <2>2, <2>3, <2>4, <3>2, TakesBot DEF Driving
    <3>4. Cautious'
      BY <2>2, <2>4, Names, TakenCautious
    <3>5. Delivered'
      BY <2>2, <2>3, <2>4, WorkedDelivered
    <3>6. WoodGuarded'
      BY <2>2, <2>3, <2>4, WorkStays DEF Driving
    <3> QED BY <3>1, <3>3, <3>4, <3>5, <3>6
  <2>5. CASE /\ Ends(c, IF mined[c] \/ dug THEN "ok" ELSE "no")
             /\ UNCHANGED <<owner, profile, previous>>
    <3>1. (IF mined[c] \/ dug THEN "ok" ELSE "no") \in {"ok", "no"}
      OBVIOUS
    <3> QED BY <1>2, <2>2, <2>3, <2>5, <3>1 DEF control
  <2> QED BY <2>1, <2>4, <2>5 DEF NextOre
<1>6. CASE EquipEnds(c)
  BY <1>2, <1>6 DEF EquipEnds
<1> QED BY <1>3, <1>4, <1>5, <1>6

-----------------------------------------------------------------------------
(* The wood run and the game. *)

LEMMA WoodStep ==
  ASSUME CommandsInv, WoodStart \/ WoodLeg \/ WoodLegEnds \/ WoodEnds
  PROVE  CommandsInv'
<1> USE DEF CommandsInv
<1>1. UNCHANGED <<agent, wire, answer, handler, moveTo, rendezvous, vpt, game>>
  BY DEF WoodStart, WoodLeg, WoodLegEnds, WoodEnds, control
<1>2. /\ kind' = kind /\ py' = py /\ attempt' = attempt /\ wire' = wire /\ answer' = answer
      /\ pc' = pc /\ on' = on /\ left' = left /\ style' = style /\ mined' = mined /\ runs' = runs
      /\ moveTo' = moveTo /\ rendezvous' = rendezvous /\ vpt' = vpt
      /\ active' = active /\ born' = born
  BY <1>1 DEF agent, handler, game
<1>3. Delivered'
  BY <1>2 DEF Delivered
<1>4. CASE WoodStart
  <2>1. /\ wood' = "between" /\ woodBot' = active /\ active \in Bot /\ wood = "idle"
        /\ Free(active) /\ owner' = owner /\ profile' = profile /\ previous' = previous
    BY <1>4 DEF WoodStart, control, TypeOK, Bot
  <2>2. TypeOK'
    BY <1>2, <2>1 DEF TypeOK
  <2>3. OwnersDrive' /\ Cautious'
    BY <1>2, <2>1 DEF OwnersDrive, Cautious, ProfileBack, Free
  <2>4. \A c \in Commands : on[c] = active => pc[c] \notin Driving
    BY <2>1, Names DEF OwnersDrive, Free
  <2>5. WoodGuarded'
    BY <1>2, <2>1, <2>4 DEF WoodGuarded, WoodUndisturbed
  <2> QED BY <1>3, <2>2, <2>3, <2>5
<1>5. CASE WoodLeg
  <2>1. /\ wood = "between" /\ Free(woodBot) /\ wood' = "leg" /\ woodBot' = woodBot
        /\ Take(woodBot, "wood", profile[woodBot])
    BY <1>5 DEF WoodLeg
  <2>2. woodBot \in Bot
    BY <2>1 DEF WoodGuarded
  <2>3. owner' = [owner EXCEPT ![woodBot] = "wood"] /\ owner[woodBot] = "nobody"
    BY <2>1 DEF Take, Free
  <2>4. TypeOK'
    <3>1. /\ owner' \in [Bot -> Commands \cup {"wood", "nobody"}]
          /\ profile' \in [Bot -> {"walk", "dig"}]
          /\ previous' \in [Bot -> {"walk", "dig"}]
      BY <2>1, <2>2, LockTyped
    <3> QED BY <1>2, <2>1, <3>1 DEF TypeOK
  <2>5. OwnersDrive'
    BY <1>2, <2>1, <2>2, <2>3, Names DEF TypeOK, OwnersDrive
  <2>6. Cautious'
    BY <2>1, <2>2, TakenCautious
  <2>7. WoodGuarded'
    BY <1>2, <2>1 DEF WoodGuarded, WoodUndisturbed
  <2> QED BY <1>3, <2>4, <2>5, <2>6, <2>7
<1>6. CASE WoodLegEnds
  <2>1. wood = "leg" /\ wood' = "between" /\ woodBot' = woodBot /\ Release(woodBot)
    BY <1>6 DEF WoodLegEnds
  <2>2. woodBot \in Bot /\ owner[woodBot] = "wood" /\ owner' = [owner EXCEPT ![woodBot] = "nobody"]
    BY <2>1 DEF OwnersDrive, Release
  <2>3. TypeOK'
    <3>1. /\ owner' \in [Bot -> Commands \cup {"wood", "nobody"}]
          /\ profile' \in [Bot -> {"walk", "dig"}]
          /\ previous' \in [Bot -> {"walk", "dig"}]
      BY <2>1, LockTyped
    <3> QED BY <1>2, <2>1, <3>1 DEF TypeOK
  <2>4. OwnersDrive'
    BY <1>2, <2>1, <2>2, Names DEF TypeOK, OwnersDrive
  <2>5. Cautious'
    BY <2>1, <2>2, ReleasedCautious
  <2>6. WoodGuarded'
    BY <1>2, <2>1 DEF WoodGuarded, WoodUndisturbed
  <2> QED BY <1>3, <2>3, <2>4, <2>5, <2>6
<1>7. CASE WoodEnds
  <2>1. /\ wood = "between" /\ wood' = "idle" /\ woodBot' = 0
        /\ owner' = owner /\ profile' = profile /\ previous' = previous
    BY <1>7 DEF WoodEnds, control
  <2>2. TypeOK'
    BY <1>2, <2>1, Names DEF TypeOK
  <2>3. OwnersDrive' /\ Cautious'
    BY <1>2, <2>1 DEF OwnersDrive, Cautious, ProfileBack, Free
  <2>4. WoodGuarded'
    BY <1>2, <2>1 DEF WoodGuarded, WoodUndisturbed
  <2> QED BY <1>3, <2>2, <2>3, <2>4
<1> QED BY <1>4, <1>5, <1>6, <1>7

LEMMA GameStep ==
  ASSUME CommandsInv, BotLost \/ BotSpawns PROVE CommandsInv'
<1>1. /\ UNCHANGED <<agent, wire, answer, handler, control, woodRun>>
      /\ active' \in 0..BotObjects /\ born' \in 1..BotObjects
  BY Names DEF BotLost, BotSpawns, CommandsInv, TypeOK
<1> QED BY <1>1 DEF CommandsInv, TypeOK, OwnersDrive, Cautious, ProfileBack, Free, Delivered,
                    WoodGuarded, WoodUndisturbed, agent, handler, control, woodRun

LEMMA CommandsStep == CommandsInv /\ [CommandsNext]_commandVars => CommandsInv'
<1> SUFFICES ASSUME CommandsInv, [CommandsNext]_commandVars PROVE CommandsInv'
  OBVIOUS
<1>1. ASSUME NEW c \in Commands, Agent(c) \/ Handler(c) PROVE CommandsInv'
  BY <1>1, AgentStep, ReceivingStep, DrivingStep, DiggingStep DEF Handler
<1>2. CASE UNCHANGED commandVars
  BY <1>2 DEF commandVars, agent, handler, control, woodRun, game, CommandsInv, TypeOK,
              OwnersDrive, Cautious, ProfileBack, Free, Delivered, WoodGuarded, WoodUndisturbed
<1> QED BY <1>1, <1>2, WoodStep, GameStep DEF CommandsNext

-----------------------------------------------------------------------------
(* Theorems. *)

(* The invariant holds in every state that can be reached.                 *)
THEOREM CommandsInvariance == CommandsSpec => []CommandsInv
BY CommandsStart, CommandsStep, PTL DEF CommandsSpec

(* Whoever walks or plays back input on a bot is its one owner, and a bot  *)
(* that nobody moves is not held: movementControl.ts with every goto, walk *)
(* and playback, on every way they end.                                    *)
THEOREM LockAlwaysHeld == CommandsSpec => []LockIsHeld
<1>1. CommandsInv => LockIsHeld
  <2> SUFFICES ASSUME CommandsInv, NEW b \in Bot PROVE Drivers(b) = {owner[b]} \ {"nobody"}
    BY DEF LockIsHeld
  <2>1. owner[b] \in Commands \cup {"wood", "nobody"}
    BY DEF CommandsInv, TypeOK
  <2> QED BY <2>1, Names DEF CommandsInv, OwnersDrive, Drivers
<1> QED BY <1>1, CommandsInvariance, PTL

(* A bot that is given back walks with the cautious profile again: the     *)
(* finally blocks around pathfinder.movements.                             *)
THEOREM ProfileAlwaysBack == CommandsSpec => []ProfileBack
<1>1. CommandsInv => ProfileBack
  BY DEF CommandsInv, Cautious
<1> QED BY <1>1, CommandsInvariance, PTL

(* BotBridge.send and the Node handler together execute a command at most  *)
(* once; "not connected" means never, and an answer means that it ended.   *)
THEOREM AlwaysSentOnce == CommandsSpec => []SentOnce
<1>1. CommandsInv => SentOnce
  BY DEF CommandsInv, TypeOK, Delivered, SentOnce
<1> QED BY <1>1, CommandsInvariance, PTL

(* While the player's wood is collected, executeCommand lets nothing drive *)
(* the bot but a mineOre that was at work before.                          *)
THEOREM WoodNeverDisturbed == CommandsSpec => []WoodUndisturbed
<1>1. CommandsInv => WoodUndisturbed
  BY DEF CommandsInv, WoodGuarded
<1> QED BY <1>1, CommandsInvariance, PTL
=============================================================================
