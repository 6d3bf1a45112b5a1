---------------------------- MODULE BotLifecycle ----------------------------
(***************************************************************************)
(* services/lifecycleService.ts and botEvents.ts of the Node bot: which    *)
(* bot is the current one, and the timer that makes the next one.          *)
(*                                                                         *)
(* Bots are numbered as they are created.  The handlers of a bot stay      *)
(* registered for good, and every one of them acts on the one lifecycle    *)
(* service, so an old bot can still raise events, also after a newer one   *)
(* was started.                                                            *)
(***************************************************************************)
EXTENDS Naturals

CONSTANTS
  MaxBots,      \* bound on the bots created
  MaxTroubles   \* bound on kicks, ends, login errors and failed starts

ASSUME LifecycleAssumption ==
  /\ MaxBots \in Nat \ {0}
  /\ MaxTroubles \in Nat

Bots == 1..MaxBots

VARIABLES
  bot,             \* this.bot; 0: null
  reconnectTimer,  \* is set
  conn,            \* conn[b]: "none", "login", "play", "kicked" (the server has
                   \* ended it), "failing" (only 'end' is to come), "gone"
  threw,           \* createBot has thrown once
  overtaken,       \* the loss of an old bot has taken a newer one for lost
  troubles

lifeVars == <<bot, reconnectTimer, conn, threw, overtaken, troubles>>

LifeTypeOK ==
  /\ bot \in 0..MaxBots
  /\ reconnectTimer \in BOOLEAN
  /\ conn \in [Bots -> {"none", "login", "play", "kicked", "failing", "gone"}]
  /\ threw \in BOOLEAN
  /\ overtaken \in BOOLEAN
  /\ troubles \in 0..MaxTroubles

\* The bot that bootstrap starts is on its way.
LifeInit ==
  /\ bot = 1
  /\ reconnectTimer = FALSE
  /\ conn = [b \in Bots |-> IF b = 1 THEN "login" ELSE "none"]
  /\ threw = FALSE
  /\ overtaken = FALSE
  /\ troubles = 0

Trouble ==
  /\ troubles < MaxTroubles
  /\ troubles' = troubles + 1

-----------------------------------------------------------------------------
\* Mutant of HandleConnectionLoss: the bot is only forgotten.
ForgetOnly(b) ==
  /\ bot' = 0
  /\ overtaken' = (overtaken \/ bot \notin {0, b})
  /\ UNCHANGED reconnectTimer

\* handleConnectionLoss and scheduleReconnect, whichever bot b raised the event.
HandleConnectionLoss(b) ==
  /\ bot' = 0
  /\ overtaken' = (overtaken \/ bot \notin {0, b})
  /\ reconnectTimer' = TRUE

\* reconnectTimer fires: startBotLifecycle.
Start(b) ==
  /\ reconnectTimer
  /\ conn[b] = "none"
  /\ \A a \in Bots : a < b => conn[a] # "none"
  /\ reconnectTimer' = FALSE
  /\ bot' = b
  /\ conn' = [conn EXCEPT ![b] = "login"]
  /\ UNCHANGED <<threw, overtaken, troubles>>

\* createBot throws: the error is logged, and nothing else is tried.
StartFails ==
  /\ reconnectTimer
  /\ Trouble
  /\ reconnectTimer' = FALSE
  /\ threw' = TRUE
  /\ UNCHANGED <<bot, conn, overtaken>>

\* once 'spawn'.  The server ends an older session of the same name.
Spawn(b) ==
  /\ conn[b] = "login"
  /\ conn' = [a \in Bots |-> IF a = b THEN "play" ELSE IF conn[a] = "play" THEN "kicked" ELSE conn[a]]
  /\ UNCHANGED <<bot, reconnectTimer, threw, overtaken, troubles>>

\* The server ends the session of b.
ServerKicks(b) ==
  /\ conn[b] = "play"
  /\ Trouble
  /\ conn' = [conn EXCEPT ![b] = "kicked"]
  /\ UNCHANGED <<bot, reconnectTimer, threw, overtaken>>

\* once 'kicked'; 'end' is to follow.
Kicked(b) ==
  /\ conn[b] = "kicked"
  /\ conn' = [conn EXCEPT ![b] = "failing"]
  /\ HandleConnectionLoss(b)
  /\ UNCHANGED <<threw, troubles>>

\* 'error' without an entity.  The connection is over, or the login goes on.
\* With an entity the handler only logs.
LoginError(b) ==
  /\ conn[b] = "login"
  /\ Trouble
  /\ \/ conn' = [conn EXCEPT ![b] = "failing"]
     \/ UNCHANGED conn
  /\ HandleConnectionLoss(b)
  /\ UNCHANGED threw

\* Mutant of End: the reconnect is left to 'kicked' and 'error'.
EndUnheard(b) ==
  /\ \/ conn[b] = "failing" /\ UNCHANGED troubles
     \/ conn[b] \in {"login", "play"} /\ Trouble
  /\ conn' = [conn EXCEPT ![b] = "gone"]
  /\ UNCHANGED <<bot, reconnectTimer, threw, overtaken>>

\* once 'end'.
End(b) ==
  /\ \/ conn[b] = "failing" /\ UNCHANGED troubles
     \/ conn[b] \in {"login", "play"} /\ Trouble
  /\ conn' = [conn EXCEPT ![b] = "gone"]
  /\ HandleConnectionLoss(b)
  /\ UNCHANGED threw

LifeNext ==
  \/ StartFails
  \/ \E b \in Bots :
       \/ Start(b) \/ Spawn(b) \/ ServerKicks(b)
       \/ Kicked(b) \/ LoginError(b) \/ End(b)

\* The timer fires, a login comes to an end, and a lost connection is reported.
LifeFair ==
  \A b \in Bots :
    /\ WF_lifeVars(Start(b))
    /\ WF_lifeVars(Spawn(b))
    /\ WF_lifeVars(Kicked(b))
    /\ WF_lifeVars(conn[b] = "failing" /\ End(b))

LifeSpec == LifeInit /\ [][LifeNext]_lifeVars

-----------------------------------------------------------------------------
\* There is a bot, or a timer that will make one, never both; only a start that
\* threw leaves neither.
BotOrTimer ==
  /\ bot # 0 => ~reconnectTimer
  /\ bot = 0 => reconnectTimer \/ threw

\* After the troubles the bot is back and stays, unless the loss of an old bot was
\* heard when a newer one was current already: it then takes that one for lost,
\* the next start makes the server kick it, and so on, without end.
Settles == <>[](threw \/ overtaken \/ (bot # 0 /\ conn[bot] = "play"))

=============================================================================
