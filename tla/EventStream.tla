----------------------------- MODULE EventStream -----------------------------
(***************************************************************************)
(* What AgentBridge (node-bot/runtime/agentBridge.ts) promises to the      *)
(* callers of emit(): events are numbered as they are emitted; sockets     *)
(* accept them in that order, each once; and one is given up only while a  *)
(* full queue of others waits.  Nothing is said of what the agent gets: it *)
(* does not acknowledge.                                                   *)
(***************************************************************************)
EXTENDS Naturals, FiniteSets

CONSTANTS
  MaxEvents,  \* bound on the events emitted
  QueueMax    \* AgentBridgeConfig.queueMaxSize

VARIABLES
  emitted,    \* how many events were emitted
  pending,    \* those that the bridge still means to send
  accepted    \* those a socket has taken without an error

vars == <<emitted, pending, accepted>>

Init ==
  /\ emitted = 0
  /\ pending = {}
  /\ accepted = {}

\* Some pending events are given up: a full queue remains.
GiveUp(kept) == kept = pending \/ Cardinality(kept) >= QueueMax

\* emit(): the new event is pending, an older one may have to go for it.
Emit ==
  /\ emitted < MaxEvents
  /\ emitted' = emitted + 1
  /\ \E kept \in SUBSET pending :
       /\ pending' = kept \cup {emitted + 1}
       /\ kept = pending \/ Cardinality(kept) + 1 >= QueueMax
  /\ UNCHANGED accepted

\* A socket takes a run of the oldest pending events, and they are done with.
Accept ==
  \E batch \in SUBSET pending :
    /\ batch # {}
    /\ \A sent \in batch, waiting \in pending \ batch : sent < waiting
    /\ accepted' = accepted \cup batch
    /\ pending' = pending \ batch
    /\ UNCHANGED emitted

\* A batch could not be sent and what came meanwhile has taken its room.
Forget ==
  /\ pending' \in SUBSET pending
  /\ GiveUp(pending')
  /\ UNCHANGED <<emitted, accepted>>

Next == Emit \/ Accept \/ Forget

Spec == Init /\ [][Next]_vars

=============================================================================
