----------------------------- MODULE AgentBridge -----------------------------
(***************************************************************************)
(* node-bot/runtime/agentBridge.ts: the queue of events of the Node bot,   *)
(* the batches in which it is sent, and the WebSocket session to the       *)
(* agent.  One thread; the actions are its timers and callbacks.           *)
(*                                                                         *)
(* An event is the number under which it was emitted.  Time is left out: a *)
(* timer that is set may fire.  Faults (a lost connection, a send that     *)
(* times out, a silent peer) happen at most MaxFaults times.               *)
(*                                                                         *)
(* The protocol has no acknowledgement: that a send was answered without   *)
(* an error says that the local socket took the batch.  What a peer that   *)
(* is gone, but not yet known to be, loses after that is outside the       *)
(* bridge, and so is a failed send that reached the agent all the same.    *)
(***************************************************************************)
EXTENDS Naturals, Sequences, FiniteSets

CONSTANTS
  MaxEvents,   \* bound on the events emitted
  QueueMax,    \* config.queueMaxSize
  BatchMax,    \* config.batchMaxSize
  MaxRetries,  \* config.maxRetries
  MaxFaults    \* bound on the faults

ASSUME SizesAssumption ==
  /\ MaxEvents \in Nat
  /\ QueueMax \in Nat \ {0}
  /\ BatchMax \in Nat \ {0}
  /\ MaxRetries \in Nat
  /\ MaxFaults \in Nat

VARIABLES
  \* the session
  state,      \* "disconnected", "connecting", "connected"
  ready,      \* readyState of this.socket; "none" when it is null
  reconnect,  \* reconnectTimer is set
  health,     \* healthcheckTimer is set, for the current socket
  quiet,      \* health checks since the last pong
  \* the events
  queue,      \* eventQueue
  timer,      \* batchTimer is set
  flight,     \* the batch of flushInFlight; <<>>: none
  phase,      \* "idle"; "sending": a send is unanswered; "waiting": for a retry
  attempt,    \* of sendBatch
  same,       \* the unanswered send went through the current socket
  \* what is outside the bot, and history
  emitted,
  accepted,   \* the events of the batches whose send had no error
  faults

session == <<state, ready, reconnect, health, quiet>>
sending == <<flight, phase, attempt, same>>
vars == <<session, queue, timer, sending, emitted, accepted, faults>>

Elements(s) == {s[i] : i \in 1..Len(s)}

Smaller(m, n) == IF m < n THEN m ELSE n

TypeOK ==
  /\ state \in {"disconnected", "connecting", "connected"}
  /\ ready \in {"none", "connecting", "open", "closing"}
  /\ reconnect \in BOOLEAN
  /\ health \in BOOLEAN
  /\ quiet \in 0..2
  /\ queue \in Seq(1..MaxEvents)
  /\ timer \in BOOLEAN
  /\ flight \in Seq(1..MaxEvents)
  /\ phase \in {"idle", "sending", "waiting"}
  /\ attempt \in 1..MaxRetries + 1
  /\ same \in BOOLEAN
  /\ emitted \in 0..MaxEvents
  /\ accepted \subseteq 1..MaxEvents
  /\ faults \in 0..MaxFaults

Init ==
  /\ state = "disconnected"
  /\ ready = "none"
  /\ reconnect = FALSE
  /\ health = FALSE
  /\ quiet = 0
  /\ queue = <<>>
  /\ timer = FALSE
  /\ flight = <<>>
  /\ phase = "idle"
  /\ attempt = 1
  /\ same = FALSE
  /\ emitted = 0
  /\ accepted = {}
  /\ faults = 0

Fault ==
  /\ faults < MaxFaults
  /\ faults' = faults + 1

-----------------------------------------------------------------------------
(* The session *)

\* ensureSession: nothing unless disconnected; else the timer of a planned
\* reconnect is cleared and a socket is made.
EnsureSession ==
  IF state = "disconnected"
  THEN /\ state' = "connecting"
       /\ ready' = "connecting"
       /\ reconnect' = FALSE
       /\ UNCHANGED <<health, quiet>>
  ELSE UNCHANGED session

\* 'open' of the socket.
Open ==
  /\ ready = "connecting"
  /\ state' = "connected"
  /\ ready' = "open"
  /\ quiet' = 0
  /\ health' = TRUE
  /\ UNCHANGED <<reconnect, queue, timer, sending, emitted, accepted, faults>>

\* Loss: the peer or the network ends the connection, the attempt fails or its
\* connectTimeout terminates it.  'error' and 'close' do the same: the session
\* is cleaned up (its listeners go, so that the one that comes second is not
\* heard) and a reconnect is planned.
CloseEvent ==
  /\ state' = "disconnected"
  /\ ready' = "none"
  /\ health' = FALSE
  /\ reconnect' = TRUE
  /\ same' = FALSE
  /\ UNCHANGED <<quiet, queue, timer, flight, phase, attempt, emitted, accepted>>

Lost ==
  /\ ready \in {"connecting", "open"}
  /\ Fault
  /\ CloseEvent

\* The 'close' that follows a terminate().
Closed ==
  /\ ready = "closing"
  /\ CloseEvent
  /\ UNCHANGED faults

\* connectTimeout: terminate(), whose close event comes later.
ConnectTimeout ==
  /\ ready = "connecting"
  /\ Fault
  /\ ready' = "closing"
  /\ UNCHANGED <<state, reconnect, health, quiet, queue, timer, sending, emitted, accepted>>

\* reconnectTimer fires.
ReconnectTimer ==
  /\ reconnect
  /\ IF state = "disconnected"
     THEN EnsureSession
     ELSE reconnect' = FALSE /\ UNCHANGED <<state, ready, health, quiet>>
  /\ UNCHANGED <<queue, timer, sending, emitted, accepted, faults>>

\* A health check of an open socket whose peer has answered lately: a ping.
Ping ==
  /\ health
  /\ ready = "open"
  /\ quiet < 2
  /\ Fault          \* this ping is not answered before the next check
  /\ quiet' = quiet + 1
  /\ UNCHANGED <<state, ready, reconnect, health, queue, timer, sending, emitted, accepted>>

Pong ==
  /\ quiet > 0
  /\ ready = "open"
  /\ quiet' = 0
  /\ UNCHANGED <<state, ready, reconnect, health, queue, timer, sending, emitted, accepted, faults>>

\* No pong for more than two intervals, measured a little early or late; or the
\* ping throws.
HealthTerminate ==
  /\ health
  /\ ready = "open"
  /\ \/ quiet > 0 /\ UNCHANGED faults
     \/ Fault
  /\ ready' = "closing"
  /\ UNCHANGED <<state, reconnect, health, quiet, queue, timer, sending, emitted, accepted>>

-----------------------------------------------------------------------------
(* The events *)

\* emit -> enqueue: a full queue loses its oldest event.
Emit ==
  /\ emitted < MaxEvents
  /\ emitted' = emitted + 1
  /\ queue' = Append(IF Len(queue) >= QueueMax THEN Tail(queue) ELSE queue, emitted + 1)
  /\ timer' = TRUE
  /\ EnsureSession
  /\ UNCHANGED <<sending, accepted, faults>>

\* sendThroughActiveSession: refused at once unless the session is up.  The
\* refusal is a failed attempt.
Send(batch, n) ==
  /\ flight' = batch
  /\ phase' = "sending"
  /\ attempt' = n
  /\ same' = TRUE

Up == state = "connected" /\ ready = "open"

\* batchTimer fires -> flushQueue.
Flush ==
  /\ timer
  /\ IF flight # <<>> \/ queue = <<>>
     THEN timer' = FALSE /\ UNCHANGED <<session, queue, sending>>
     ELSE IF ~Up
          THEN EnsureSession /\ UNCHANGED <<timer, queue, sending>>
          ELSE LET n == Smaller(BatchMax, Len(queue)) IN
               /\ timer' = FALSE
               /\ Send(SubSeq(queue, 1, n), 1)
               /\ queue' = SubSeq(queue, n + 1, Len(queue))
               /\ UNCHANGED session
  /\ UNCHANGED <<emitted, accepted, faults>>

\* Mutants of FlightOver: the timer is not set again; flushInFlight is kept.
FlightOverQuiet ==
  /\ flight' = <<>>
  /\ phase' = "idle"
  /\ attempt' = 1
  /\ same' = FALSE
  /\ timer' = timer

FlightKept ==
  /\ flight' = flight
  /\ phase' = "idle"
  /\ attempt' = 1
  /\ same' = FALSE
  /\ timer' = (timer \/ queue' # <<>>)

\* finally of flushQueue.
FlightOver ==
  /\ flight' = <<>>
  /\ phase' = "idle"
  /\ attempt' = 1
  /\ same' = FALSE
  /\ timer' = (timer \/ queue' # <<>>)

\* The callback of send() without an error: the socket took the batch.
SendOk ==
  /\ phase = "sending"
  /\ accepted' = accepted \cup Elements(flight)
  /\ UNCHANGED <<session, queue, emitted, faults>>
  /\ FlightOver

\* Mutant of Requeue: behind what came meanwhile.
RequeueBehind ==
  queue' = queue \o SubSeq(flight, 1, Smaller(Len(flight), QueueMax - Len(queue)))

\* catch of flushQueue: as much of the batch as there is room for goes back to
\* the front, the rest is gone.
Requeue ==
  queue' = SubSeq(flight, 1, Smaller(Len(flight), QueueMax - Len(queue))) \o queue

\* An attempt failed: plan a reconnect and wait, or give up.  scheduleReconnect
\* leaves a timer that is set.
AttemptFailed ==
  IF attempt = MaxRetries + 1
  THEN Requeue /\ FlightOver /\ UNCHANGED reconnect
  ELSE /\ reconnect' = TRUE
       /\ phase' = "waiting"
       /\ same' = FALSE
            /\ UNCHANGED <<queue, timer, flight, attempt>>

\* send() calls back with an error: at once, or when its socket is gone.
SendError ==
  /\ phase = "sending"
  /\ IF same THEN Fault ELSE UNCHANGED faults
  /\ AttemptFailed
  /\ UNCHANGED <<state, ready, health, quiet, emitted, accepted>>

\* sendTimeoutMs is over: terminate() the socket of the send, which may no longer
\* be the current one.
SendTimeout ==
  /\ phase = "sending"
  /\ IF same THEN Fault ELSE UNCHANGED faults
  /\ ready' = IF same /\ ready = "open" THEN "closing" ELSE ready
  /\ AttemptFailed
  /\ UNCHANGED <<state, health, quiet, emitted, accepted>>

\* wait(reconnectDelayMs) is over: the next attempt, on whatever socket is there.
RetryUp ==
  /\ phase = "waiting"
  /\ Up
  /\ Send(flight, attempt + 1)
  /\ UNCHANGED <<session, queue, timer, emitted, accepted, faults>>

\* The next attempt is refused: it counts as failed.
RetryDown ==
  /\ phase = "waiting"
  /\ ~Up
  /\ IF attempt + 1 = MaxRetries + 1
     THEN Requeue /\ FlightOver /\ UNCHANGED reconnect
     ELSE /\ attempt' = attempt + 1
          /\ reconnect' = TRUE
          /\ UNCHANGED <<queue, timer, flight, phase, same>>
  /\ UNCHANGED <<state, ready, health, quiet, emitted, accepted, faults>>

-----------------------------------------------------------------------------
Next ==
  \/ Open \/ Lost \/ Closed \/ ConnectTimeout \/ ReconnectTimer
  \/ Ping \/ Pong \/ HealthTerminate
  \/ Emit \/ Flush \/ SendOk \/ SendError \/ SendTimeout
  \/ RetryUp \/ RetryDown

Spec == Init /\ [][Next]_vars

\* Timers fire, a connection attempt that is not a fault ends, and a send is
\* answered or times out.
FairSpec ==
  /\ Spec
  /\ WF_vars(Open) /\ WF_vars(Closed) /\ WF_vars(ReconnectTimer)
  /\ WF_vars(Pong) /\ WF_vars(Flush) /\ WF_vars(SendOk)
  /\ WF_vars(SendError) /\ WF_vars(RetryUp) /\ WF_vars(RetryDown)

-----------------------------------------------------------------------------
(* Properties *)

\* Events that wait are not forgotten: while the queue is not empty, the batch
\* timer is set or a batch is in flight, whose end sets it.  A timer that fires
\* during a flight is lost (agentBridge.ts:191), so this rests on finally.
NeverStranded == queue # <<>> => timer \/ flight # <<>>

\* Once a session was wanted, the bridge is connected, connecting, or a timer
\* will make it: no order of close, error, retry and timers leaves it idle.
NeverIdle == emitted > 0 /\ state = "disconnected" => reconnect

\* The queue keeps its bound also when a failed batch is put back.
QueueBounded == Len(queue) <= QueueMax

\* What the bridge promises: sockets take the events in order and each of them
\* once, it is tried again until one did, and given up only while a full queue of
\* others waits.  Whether the agent got what a socket took is not promised.
Stream == INSTANCE EventStream WITH pending <- Elements(queue) \cup Elements(flight)

ImplementsStream == Stream!Spec

\* When the faults end, everything that was emitted and not given up is handed
\* to a socket.
Drains == <>[](queue = <<>> /\ flight = <<>>)

=============================================================================
