----------------------------- MODULE ChatBridge -----------------------------
(***************************************************************************)
(* services/chatBridge.ts of the Node bot: the socket on which the chats   *)
(* that one bot hears are passed on to the agent.                          *)
(*                                                                         *)
(* An attempt is one connectionPromise and the one socket it makes; both   *)
(* have the same number.  reconnectAttempts is kept as whether it is zero, *)
(* which is what decides on a delay.  An error before 'open', and the      *)
(* terminate() of the ten seconds' timeout, emit 'error' and 'close' in    *)
(* one go; after 'open' they are two events.                               *)
(***************************************************************************)
EXTENDS Naturals, FiniteSets

CONSTANTS
  MaxAttempts,  \* bound on the attempts
  MaxChats,     \* bound on the chats
  MaxCuts       \* bound on the sockets that fail or close

ASSUME BridgeAssumption ==
  /\ MaxAttempts \in Nat
  /\ MaxChats \in Nat
  /\ MaxCuts \in Nat

Attempts == 1..MaxAttempts

VARIABLES
  socket,             \* this.socket; 0: null
  connectionPromise,  \* 0: null
  reconnecting,       \* reconnectAttempts > 0
  heartbeatTimer,     \* is set
  ws,                 \* ws[a]: "none", "backoff", "connecting", "open", "closing"
                      \* (before 'close'), "erred" (after 'error', before 'close'),
                      \* "closed"
  waiting,            \* waiting[a]: chats that await attempt a
  chats, cuts, erred  \* erred: an open socket has reported an error

bridgeVars == <<socket, connectionPromise, reconnecting, heartbeatTimer, ws, waiting, chats, cuts, erred>>

BridgeTypeOK ==
  /\ socket \in 0..MaxAttempts
  /\ connectionPromise \in 0..MaxAttempts
  /\ reconnecting \in BOOLEAN
  /\ heartbeatTimer \in BOOLEAN
  /\ ws \in [Attempts -> {"none", "backoff", "connecting", "open", "closing", "erred", "closed"}]
  /\ waiting \in [Attempts -> 0..MaxChats]
  /\ chats \in 0..MaxChats
  /\ cuts \in 0..MaxCuts
  /\ erred \in BOOLEAN

BridgeInit ==
  /\ socket = 0
  /\ connectionPromise = 0
  /\ reconnecting = FALSE
  /\ heartbeatTimer = FALSE
  /\ ws = [a \in Attempts |-> "none"]
  /\ waiting = [a \in Attempts |-> 0]
  /\ chats = 0
  /\ cuts = 0
  /\ erred = FALSE

Cut ==
  /\ cuts < MaxCuts
  /\ cuts' = cuts + 1

-----------------------------------------------------------------------------
\* Mutant of Connecting: who comes second does not share the first's attempt.
NeverConnecting == FALSE

Connecting == connectionPromise # 0

\* The chat awaits the attempt that is under way.
Join ==
  /\ Connecting
  /\ waiting' = [waiting EXCEPT ![connectionPromise] = @ + 1]
  /\ UNCHANGED <<connectionPromise, ws>>

\* The chat makes an attempt, which waits first if the last one failed.
Attempt(a) ==
  /\ ~Connecting
  /\ ws[a] = "none"
  /\ \A b \in Attempts : b < a => ws[b] # "none"
  /\ connectionPromise' = a
  /\ ws' = [ws EXCEPT ![a] = IF reconnecting THEN "backoff" ELSE "connecting"]
  /\ waiting' = [waiting EXCEPT ![a] = 1]

\* handleIncomingChat -> forwardChatToAgent -> ensureConnected.  A chat that
\* finds a socket is sent at once; a closing one swallows it.
ForwardChat ==
  /\ chats < MaxChats
  /\ chats' = chats + 1
  /\ \/ socket # 0 /\ UNCHANGED <<connectionPromise, ws, waiting>>
     \/ socket = 0 /\ (Join \/ \E a \in Attempts : Attempt(a))
  /\ UNCHANGED <<socket, reconnecting, heartbeatTimer, cuts, erred>>

\* setTimeout(connect, delayMs).
BackoffOver(a) ==
  /\ ws[a] = "backoff"
  /\ ws' = [ws EXCEPT ![a] = "connecting"]
  /\ UNCHANGED <<socket, connectionPromise, reconnecting, heartbeatTimer, waiting, chats, cuts, erred>>

\* once 'open'; those who waited send.
Opened(a) ==
  /\ ws[a] = "connecting"
  /\ ws' = [ws EXCEPT ![a] = "open"]
  /\ socket' = a
  /\ connectionPromise' = 0
  /\ reconnecting' = FALSE
  /\ heartbeatTimer' = TRUE
  /\ waiting' = [waiting EXCEPT ![a] = 0]
  /\ UNCHANGED <<chats, cuts, erred>>

\* markDisconnected: takes the promise and the heartbeat away whichever socket
\* they belong to.
MarkDisconnected(a) ==
  /\ socket' = IF socket = a THEN 0 ELSE socket
  /\ connectionPromise' = 0
  /\ reconnecting' = TRUE
  /\ heartbeatTimer' = FALSE

\* Mutant of Rejected: those who waited are not told.
Unheard(a) == UNCHANGED waiting

\* reject(error): those who waited log that their chat is lost.
Rejected(a) == waiting' = [waiting EXCEPT ![a] = 0]

\* 'error' and 'close' of a socket that has not opened, or its timeout.
FailsToOpen(a) ==
  /\ ws[a] = "connecting"
  /\ Cut
  /\ ws' = [ws EXCEPT ![a] = "closed"]
  /\ MarkDisconnected(a)
  /\ Rejected(a)
  /\ UNCHANGED <<chats, erred>>

\* An open socket reports an error; its 'close' comes later.
SocketError(a) ==
  /\ ws[a] = "open"
  /\ Cut
  /\ ws' = [ws EXCEPT ![a] = "erred"]
  /\ MarkDisconnected(a)
  /\ erred' = TRUE
  /\ UNCHANGED <<waiting, chats>>

\* An open socket begins to close; nobody is told yet.
CloseBegins(a) ==
  /\ ws[a] = "open"
  /\ Cut
  /\ ws' = [ws EXCEPT ![a] = "closing"]
  /\ UNCHANGED <<socket, connectionPromise, reconnecting, heartbeatTimer, waiting, chats, erred>>

\* once 'close'.
Closes(a) ==
  /\ ws[a] \in {"closing", "erred"}
  /\ ws' = [ws EXCEPT ![a] = "closed"]
  /\ MarkDisconnected(a)
  /\ UNCHANGED <<waiting, chats, cuts, erred>>

BridgeNext ==
  \E a \in Attempts :
    BackoffOver(a) \/ Opened(a) \/ FailsToOpen(a) \/ SocketError(a) \/ CloseBegins(a) \/ Closes(a)

\* Delays end, a connection is made or fails within ten seconds, and a socket
\* that is closing closes.
BridgeFair ==
  \A a \in Attempts :
    WF_bridgeVars(BackoffOver(a)) /\ WF_bridgeVars(Opened(a)) /\ WF_bridgeVars(Closes(a))

-----------------------------------------------------------------------------
\* As long as no open socket has reported an error, chats share one attempt, at
\* most one socket is alive, and the heartbeat beats exactly while there is a
\* socket.  (After an error, the close of the old socket ends the attempt and
\* the heartbeat of the new one.)
OneSocket ==
  ~erred =>
    /\ Cardinality({a \in Attempts : ws[a] \in {"backoff", "connecting", "open", "closing"}}) <= 1
    /\ heartbeatTimer <=> socket # 0

\* A chat that waits for a connection is sent or given up, whatever becomes of
\* the other attempts and sockets.
ChatsSettle == \A a \in Attempts : waiting[a] > 0 ~> waiting[a] = 0

=============================================================================
