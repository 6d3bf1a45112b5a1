-------------------------- MODULE AgentBridgeProofs --------------------------
(***************************************************************************)
(* What AgentBridge promises of its queue and its session, for every size  *)
(* of the queue and of a batch and for every number of events, retries and *)
(* faults.  The three parts of IInv do not need each other; all of them    *)
(* need that queue and flight are sequences.                               *)
(*                                                                         *)
(* That the bridge implements EventStream needs more: the batch in flight  *)
(* and the queue are in the order of emission (Ordered), and an unanswered *)
(* send has a batch (FlightIs).                                            *)
(***************************************************************************)
EXTENDS AgentBridge, FiniteSetTheorems, SequenceTheorems, TLAPS

Shape ==
  /\ queue \in Seq(Nat)
  /\ flight \in Seq(Nat)
  /\ emitted \in Nat
  /\ timer \in BOOLEAN
  /\ reconnect \in BOOLEAN

IInv == Shape /\ NeverStranded /\ NeverIdle /\ QueueBounded

(* A prefix and the rest of a sequence: their elements and lengths.        *)
LEMMA SplitAt ==
  ASSUME NEW s \in Seq(Nat), NEW n \in 0..Len(s)
  PROVE  /\ SubSeq(s, 1, n) \in Seq(Nat) /\ Len(SubSeq(s, 1, n)) = n
         /\ SubSeq(s, n + 1, Len(s)) \in Seq(Nat) /\ Len(SubSeq(s, n + 1, Len(s))) = Len(s) - n
<1>1. Len(s) \in Nat /\ \A i \in 1..Len(s) : s[i] \in Nat
  OBVIOUS
<1>2. SubSeq(s, 1, n) \in Seq(Nat) /\ Len(SubSeq(s, 1, n)) = n
  BY <1>1
<1>3. SubSeq(s, n + 1, Len(s)) \in Seq(Nat) /\ Len(SubSeq(s, n + 1, Len(s))) = Len(s) - n
  BY <1>1
<1> QED BY <1>2, <1>3

(* A batch that goes back fills the queue at most, and is not empty-handed *)
(* unless the queue is full.                                               *)
LEMMA RequeueFits ==
  ASSUME Shape, QueueBounded, Requeue
  PROVE  queue' \in Seq(Nat) /\ Len(queue') <= QueueMax
<1> DEFINE n == Smaller(Len(flight), QueueMax - Len(queue))
<1>1. Len(flight) \in Nat /\ Len(queue) \in Nat /\ QueueMax \in Nat
  BY SizesAssumption DEF Shape, SizesAssumption
<1>2. n \in 0..Len(flight) /\ n <= QueueMax - Len(queue)
  BY <1>1 DEF QueueBounded, Smaller
<1>3. SubSeq(flight, 1, n) \in Seq(Nat) /\ Len(SubSeq(flight, 1, n)) = n
  BY <1>2, SplitAt DEF Shape
<1>4. queue' = SubSeq(flight, 1, n) \o queue
  BY DEF Requeue
<1> HIDE DEF n
<1>5. queue' \in Seq(Nat) /\ Len(queue') = n + Len(queue)
  BY <1>3, <1>4 DEF Shape
<1> QED BY <1>1, <1>2, <1>5

(* Whatever the queue has become, the end of a flight leaves no event      *)
(* without a timer.                                                        *)
LEMMA FlightOverHolds ==
  ASSUME Shape, NeverIdle, FlightOver,
         queue' \in Seq(Nat), Len(queue') <= QueueMax,
         emitted' = emitted, state' = state, reconnect' \in BOOLEAN, reconnect => reconnect'
  PROVE  IInv'
<1>1. flight' = <<>> /\ flight' \in Seq(Nat) /\ timer' \in BOOLEAN
  BY DEF FlightOver, Shape
<1>2. queue' # <<>> => timer'
  BY DEF FlightOver
<1> QED BY <1>1, <1>2 DEF IInv, Shape, NeverStranded, NeverIdle, QueueBounded

(* A failed attempt, the last one or not.                                  *)
LEMMA AttemptFailedHolds ==
  ASSUME IInv, AttemptFailed, emitted' = emitted, state' = state
  PROVE  IInv'
<1>1. CASE attempt = MaxRetries + 1
  <2>1. queue' \in Seq(Nat) /\ Len(queue') <= QueueMax
    BY <1>1, RequeueFits DEF IInv, AttemptFailed
  <2> QED BY <1>1, <2>1, FlightOverHolds DEF IInv, Shape, AttemptFailed
<1>2. CASE attempt # MaxRetries + 1
  BY <1>2 DEF AttemptFailed, IInv, Shape, NeverStranded, NeverIdle, QueueBounded
<1> QED BY <1>1, <1>2

LEMMA InitHolds == Init => IInv
<1> SUFFICES ASSUME Init PROVE IInv
  OBVIOUS
<1>1. Shape
  <2>1. queue \in Seq(Nat) /\ flight \in Seq(Nat)
    BY DEF Init
  <2>2. emitted \in Nat /\ timer \in BOOLEAN /\ reconnect \in BOOLEAN
    BY DEF Init
  <2> QED BY <2>1, <2>2 DEF Shape
<1>2. QueueBounded
  <2>1. Len(queue) = 0
    BY DEF Init
  <2> QED BY <2>1, SizesAssumption DEF QueueBounded, SizesAssumption
<1>3. NeverStranded /\ NeverIdle
  BY DEF Init, NeverStranded, NeverIdle
<1> QED BY <1>1, <1>2, <1>3 DEF IInv

(* Every action keeps the invariant.                                       *)
LEMMA StepHolds == IInv /\ [Next]_vars => IInv'
<1> SUFFICES ASSUME IInv, [Next]_vars PROVE IInv'
  OBVIOUS
<1> USE DEF IInv
<1>1. CASE Open \/ ConnectTimeout \/ Ping \/ Pong \/ HealthTerminate
  BY <1>1 DEF Open, ConnectTimeout, Ping, Pong, HealthTerminate, sending,
     Shape, NeverStranded, NeverIdle, QueueBounded
<1>2. CASE Lost \/ Closed
  BY <1>2 DEF Lost, Closed, CloseEvent, Shape, NeverStranded, NeverIdle, QueueBounded
<1>3. CASE ReconnectTimer
  BY <1>3 DEF ReconnectTimer, EnsureSession, sending, Shape, NeverStranded, NeverIdle, QueueBounded
<1>4. CASE Emit
  <2>0. /\ timer' = TRUE /\ flight' = flight /\ emitted' \in Nat
        /\ state' # "disconnected" /\ reconnect' \in BOOLEAN
    <3>1. timer' = TRUE /\ flight' = flight /\ emitted' = emitted + 1 /\ EnsureSession
      BY <1>4 DEF Emit, sending
    <3>2. state' # "disconnected"
      BY <3>1 DEF EnsureSession, session
    <3>3. reconnect' = FALSE \/ reconnect' = reconnect
      BY <3>1 DEF EnsureSession, session
    <3>4. reconnect' \in BOOLEAN
      BY <3>3 DEF Shape
    <3>5. emitted' \in Nat
      BY <3>1 DEF Shape
    <3> QED BY <3>1, <3>2, <3>4, <3>5
  <2>1. Len(queue) \in Nat /\ QueueMax \in Nat \ {0}
    BY SizesAssumption DEF Shape, SizesAssumption
  <2>2. CASE Len(queue) >= QueueMax
    <3>1. Tail(queue) \in Seq(Nat) /\ Len(Tail(queue)) = Len(queue) - 1
      BY <2>1, <2>2 DEF Shape
    <3>2. queue' = Append(Tail(queue), emitted + 1)
      BY <1>4, <2>2 DEF Emit
    <3>3. queue' \in Seq(Nat) /\ Len(queue') = Len(queue)
      BY <2>1, <3>1, <3>2 DEF Shape
    <3> QED BY <2>0, <2>1, <3>3 DEF Shape, NeverStranded, NeverIdle, QueueBounded
  <2>3. CASE ~(Len(queue) >= QueueMax)
    <3>1. queue' \in Seq(Nat) /\ Len(queue') = Len(queue) + 1
      BY <1>4, <2>1, <2>3 DEF Emit, Shape
    <3> QED BY <2>0, <2>1, <2>3, <3>1 DEF Shape, NeverStranded, NeverIdle, QueueBounded
  <2> QED BY <2>2, <2>3
<1>5. CASE Flush
  <2>1. CASE flight # <<>> \/ queue = <<>>
    BY <1>5, <2>1 DEF Flush, session, sending, Shape, NeverStranded, NeverIdle, QueueBounded
  <2>2. CASE ~(flight # <<>> \/ queue = <<>>) /\ ~Up
    BY <1>5, <2>2 DEF Flush, EnsureSession, session, sending, Shape, NeverStranded, NeverIdle, QueueBounded
  <2>3. CASE ~(flight # <<>> \/ queue = <<>>) /\ Up
    <3> DEFINE n == Smaller(BatchMax, Len(queue))
    <3>1. Len(queue) \in Nat \ {0} /\ BatchMax \in Nat \ {0}
      BY <2>3, SizesAssumption DEF Shape, SizesAssumption
    <3>2. n \in 0..Len(queue) /\ n > 0
      BY <3>1 DEF Smaller
    <3>3. flight' = SubSeq(queue, 1, n) /\ queue' = SubSeq(queue, n + 1, Len(queue))
      BY <1>5, <2>3 DEF Flush, Send
    <3>4. /\ timer' \in BOOLEAN /\ UNCHANGED <<emitted, state, reconnect>>
      BY <1>5, <2>3 DEF Flush, session
    <3> HIDE DEF n
    <3>5. flight' \in Seq(Nat) /\ Len(flight') = n /\ queue' \in Seq(Nat) /\ Len(queue') = Len(queue) - n
      BY <3>2, <3>3, SplitAt DEF Shape
    <3>6. flight' # <<>>
      BY <3>2, <3>5
    <3>7. QueueMax \in Nat /\ Len(queue') <= QueueMax
      BY <3>1, <3>2, <3>5, SizesAssumption DEF QueueBounded, SizesAssumption
    <3> QED BY <3>4, <3>5, <3>6, <3>7 DEF Shape, NeverStranded, NeverIdle, QueueBounded
  <2> QED BY <2>1, <2>2, <2>3
<1>7. CASE SendOk
  <2>1. queue' = queue /\ emitted' = emitted /\ state' = state /\ reconnect' = reconnect
    BY <1>7 DEF SendOk, session
  <2> QED BY <1>7, <2>1, FlightOverHolds DEF SendOk, Shape, QueueBounded
<1>8. CASE SendError \/ SendTimeout
  <2>1. AttemptFailed /\ emitted' = emitted /\ state' = state
    BY <1>8 DEF SendError, SendTimeout
  <2> QED BY <2>1, AttemptFailedHolds
<1>9. CASE RetryUp
  BY <1>9 DEF RetryUp, Send, session, Shape, NeverStranded, NeverIdle, QueueBounded
<1>10. CASE RetryDown
  <2>1. CASE attempt + 1 = MaxRetries + 1
    <3>1. queue' \in Seq(Nat) /\ Len(queue') <= QueueMax
      BY <1>10, <2>1, RequeueFits DEF RetryDown
    <3> QED BY <1>10, <2>1, <3>1, FlightOverHolds DEF RetryDown, Shape
  <2>2. CASE attempt + 1 # MaxRetries + 1
    BY <1>10, <2>2 DEF RetryDown, Shape, NeverStranded, NeverIdle, QueueBounded
  <2> QED BY <2>1, <2>2
<1>11. CASE UNCHANGED vars
  BY <1>11 DEF vars, session, sending, Shape, NeverStranded, NeverIdle, QueueBounded
<1> QED BY <1>1, <1>2, <1>3, <1>4, <1>5, <1>7, <1>8, <1>9, <1>10, <1>11 DEF Next

LEMMA Inductive == Spec => []IInv
<1>1. Init => IInv
  BY InitHolds
<1>2. IInv /\ [Next]_vars => IInv'
  BY StepHolds
<1> QED BY <1>1, <1>2, PTL DEF Spec

(* While an event waits in the queue, the batch timer is set or a batch is *)
(* in flight: flushQueue may drop a timer that fires during a flight only  *)
(* because its finally sets it again.                                      *)
THEOREM StrandedNever == Spec => []NeverStranded
<1>1. IInv => NeverStranded
  BY DEF IInv
<1> QED BY <1>1, Inductive, PTL

(* Once an event was emitted, a bridge without a session has a timer that  *)
(* will make one.                                                          *)
THEOREM IdleNever == Spec => []NeverIdle
<1>1. IInv => NeverIdle
  BY DEF IInv
<1> QED BY <1>1, Inductive, PTL

(* queueMaxSize holds, also when a failed batch is put back.               *)
THEOREM BoundKept == Spec => []QueueBounded
<1>1. IInv => QueueBounded
  BY DEF IInv
<1> QED BY <1>1, Inductive, PTL

-----------------------------------------------------------------------------
(* The order of the events. *)

Rising(s)    == \A i, j \in 1..Len(s) : i < j => s[i] < s[j]
Before(s, t) == \A i \in 1..Len(s), j \in 1..Len(t) : s[i] < t[j]
UpTo(s, n)   == \A i \in 1..Len(s) : s[i] <= n

Ordered ==
  /\ Rising(flight) /\ Rising(queue) /\ Before(flight, queue)
  /\ UpTo(flight, emitted) /\ UpTo(queue, emitted)

FlightIs == phase # "idle" => flight # <<>>

OInv == IInv /\ Ordered /\ FlightIs

(* The two parts of a sequence, entry by entry.                            *)
LEMMA SplitElements ==
  ASSUME NEW s \in Seq(Nat), NEW n \in 0..Len(s)
  PROVE  /\ \A i \in 1..n : SubSeq(s, 1, n)[i] = s[i]
         /\ \A i \in 1..(Len(s) - n) : SubSeq(s, n + 1, Len(s))[i] = s[n + i]
OBVIOUS

(* Cutting a rising sequence in two.                                       *)
LEMMA RisingParts ==
  ASSUME NEW s \in Seq(Nat), NEW n \in 0..Len(s), Rising(s)
  PROVE  LET a == SubSeq(s, 1, n)
             b == SubSeq(s, n + 1, Len(s))
         IN  /\ Rising(a) /\ Rising(b) /\ Before(a, b)
             /\ Elements(a) \cup Elements(b) = Elements(s)
             /\ Elements(a) \subseteq Elements(s)
<1> DEFINE a == SubSeq(s, 1, n)
           b == SubSeq(s, n + 1, Len(s))
<1>1. Len(s) \in Nat /\ Len(a) = n /\ Len(b) = Len(s) - n /\ a \in Seq(Nat) /\ b \in Seq(Nat)
  BY SplitAt
<1>2. /\ \A i \in 1..n : a[i] = s[i]
      /\ \A i \in 1..(Len(s) - n) : b[i] = s[n + i]
  BY SplitElements
<1> HIDE DEF a, b
<1>3. Rising(a)
  <2> SUFFICES ASSUME NEW i \in 1..Len(a), NEW j \in 1..Len(a), i < j PROVE a[i] < a[j]
    BY DEF Rising
  <2>1. i \in 1..n /\ j \in 1..n /\ i \in 1..Len(s) /\ j \in 1..Len(s)
    BY <1>1
  <2>2. s[i] < s[j]
    BY <2>1 DEF Rising
  <2> QED BY <1>2, <2>1, <2>2
<1>8. Before(a, b)
  <2> SUFFICES ASSUME NEW i \in 1..Len(a), NEW j \in 1..Len(b) PROVE a[i] < b[j]
    BY DEF Before
  <2>1. i \in 1..n /\ j \in 1..(Len(s) - n) /\ i \in 1..Len(s) /\ n + j \in 1..Len(s) /\ i < n + j
    BY <1>1
  <2>2. s[i] < s[n + j]
    BY <2>1 DEF Rising
  <2> QED BY <1>2, <2>1, <2>2
<1>4. Rising(b)
  <2> SUFFICES ASSUME NEW i \in 1..Len(b), NEW j \in 1..Len(b), i < j PROVE b[i] < b[j]
    BY DEF Rising
  <2>1. n + i \in 1..Len(s) /\ n + j \in 1..Len(s) /\ n + i < n + j
    BY <1>1
  <2> QED BY <1>1, <1>2, <2>1 DEF Rising
<1>5. Elements(a) \subseteq Elements(s)
  <2> SUFFICES ASSUME NEW i \in 1..Len(a) PROVE a[i] \in Elements(s)
    BY DEF Elements
  <2>1. i \in 1..Len(s) /\ a[i] = s[i]
    BY <1>1, <1>2
  <2> QED BY <2>1 DEF Elements
<1>6. Elements(b) \subseteq Elements(s)
  <2> SUFFICES ASSUME NEW i \in 1..Len(b) PROVE b[i] \in Elements(s)
    BY DEF Elements
  <2>1. n + i \in 1..Len(s) /\ b[i] = s[n + i]
    BY <1>1, <1>2
  <2> QED BY <2>1 DEF Elements
<1>7. Elements(s) \subseteq Elements(a) \cup Elements(b)
  <2> SUFFICES ASSUME NEW i \in 1..Len(s) PROVE s[i] \in Elements(a) \cup Elements(b)
    BY DEF Elements
  <2>1. CASE i <= n
    BY <1>1, <1>2, <2>1 DEF Elements
  <2>2. CASE i > n
    <3>1. i - n \in 1..Len(b) /\ b[i - n] = s[i]
      BY <1>1, <1>2, <2>2
    <3> QED BY <3>1 DEF Elements
  <2> QED BY <1>1, <2>1, <2>2
<1> QED BY <1>3, <1>4, <1>5, <1>6, <1>7, <1>8 DEF a, b

(* Joining two of them.                                                    *)
LEMMA RisingJoined ==
  ASSUME NEW s \in Seq(Nat), NEW t \in Seq(Nat), Rising(s), Rising(t), Before(s, t)
  PROVE  Rising(s \o t) /\ Elements(s \o t) = Elements(s) \cup Elements(t)
<1>1. /\ Len(s) \in Nat /\ Len(t) \in Nat /\ Len(s \o t) = Len(s) + Len(t)
      /\ \A i \in 1..Len(s) : (s \o t)[i] = s[i]
      /\ \A i \in 1..Len(t) : (s \o t)[Len(s) + i] = t[i]
  OBVIOUS
<1> DEFINE u == s \o t
<1>2. /\ Len(u) = Len(s) + Len(t)
      /\ \A i \in 1..Len(s) : u[i] = s[i]
      /\ \A i \in 1..Len(t) : u[Len(s) + i] = t[i]
  BY <1>1
<1> HIDE DEF u
<1>3. \A i \in 1..Len(u) : i > Len(s) => i - Len(s) \in 1..Len(t) /\ u[i] = t[i - Len(s)]
  <2> SUFFICES ASSUME NEW i \in 1..Len(u), i > Len(s)
               PROVE  i - Len(s) \in 1..Len(t) /\ u[i] = t[i - Len(s)]
    OBVIOUS
  <2>1. i - Len(s) \in 1..Len(t) /\ Len(s) + (i - Len(s)) = i
    BY <1>1, <1>2
  <2> QED BY <1>2, <2>1
<1>4. Rising(u)
  <2> SUFFICES ASSUME NEW i \in 1..Len(u), NEW j \in 1..Len(u), i < j PROVE u[i] < u[j]
    BY DEF Rising
  <2>1. CASE j <= Len(s)
    <3>1. i \in 1..Len(s) /\ j \in 1..Len(s)
      BY <1>1, <1>2, <2>1
    <3>2. s[i] < s[j]
      BY <3>1 DEF Rising
    <3> QED BY <1>2, <3>1, <3>2
  <2>2. CASE i > Len(s)
    <3>1. j > Len(s) /\ i - Len(s) < j - Len(s)
      BY <1>1, <1>2, <2>2
    <3>2. i - Len(s) \in 1..Len(t) /\ j - Len(s) \in 1..Len(t)
      BY <1>3, <2>2, <3>1
    <3>3. t[i - Len(s)] < t[j - Len(s)]
      BY <3>1, <3>2 DEF Rising
    <3> QED BY <1>3, <2>2, <3>1, <3>3
  <2>3. CASE i <= Len(s) /\ j > Len(s)
    <3>1. i \in 1..Len(s) /\ u[i] = s[i]
      BY <1>1, <1>2, <2>3
    <3>2. j - Len(s) \in 1..Len(t) /\ u[j] = t[j - Len(s)]
      BY <1>3, <2>3
    <3> QED BY <3>1, <3>2 DEF Before
  <2> QED BY <1>1, <2>1, <2>2, <2>3
<1>5. Elements(u) \subseteq Elements(s) \cup Elements(t)
  <2> SUFFICES ASSUME NEW i \in 1..Len(u) PROVE u[i] \in Elements(s) \cup Elements(t)
    BY DEF Elements
  <2>1. CASE i <= Len(s)
    BY <1>1, <1>2, <2>1 DEF Elements
  <2>2. CASE i > Len(s)
    BY <1>3, <2>2 DEF Elements
  <2> QED BY <1>1, <2>1, <2>2
<1>6. Elements(s) \cup Elements(t) \subseteq Elements(u)
  <2>1. \A i \in 1..Len(s) : i \in 1..Len(u)
    BY <1>1, <1>2
  <2>2. \A i \in 1..Len(t) : Len(s) + i \in 1..Len(u)
    BY <1>1, <1>2
  <2> QED BY <1>2, <2>1, <2>2 DEF Elements
<1> QED BY <1>4, <1>5, <1>6 DEF u

(* A rising sequence has as many elements as entries.                      *)
LEMMA RisingCount ==
  ASSUME NEW s \in Seq(Nat), Rising(s)
  PROVE  IsFiniteSet(Elements(s)) /\ Cardinality(Elements(s)) = Len(s)
<1> DEFINE S == Elements(s)
<1>1. Len(s) \in Nat /\ s \in [1..Len(s) -> Nat]
  OBVIOUS
<1>2. s \in [1..Len(s) -> S]
  BY <1>1 DEF Elements
<1>3. \A i, j \in 1..Len(s) : s[i] = s[j] => i = j
  <2> SUFFICES ASSUME NEW i \in 1..Len(s), NEW j \in 1..Len(s), i # j PROVE s[i] # s[j]
    OBVIOUS
  <2>1. s[i] \in Nat /\ s[j] \in Nat /\ (i < j \/ j < i)
    BY <1>1
  <2> QED BY <2>1 DEF Rising
<1>4. s \in Bijection(1..Len(s), S)
  <2>1. s \in Injection(1..Len(s), S)
    <3>1. \A i, j \in 1..Len(s) : (s[i] = s[j]) => (i = j)
      BY <1>3
    <3> HIDE DEF S
    <3> QED BY <1>2, <3>1 DEF Injection, IsInjective
  <2>2. s \in Surjection(1..Len(s), S)
    BY <1>2 DEF Surjection, Elements
  <2> QED BY <2>1, <2>2 DEF Bijection
<1>5. ExistsBijection(1..Len(s), S)
  BY <1>4 DEF ExistsBijection
<1> HIDE DEF S
<1>6. Cardinality(S) = Len(s)
  BY <1>1, <1>5, FS_CountingElements
<1>7. IsFiniteSet(S)
  BY <1>1, <1>5, FS_NatBijection
<1> QED BY <1>6, <1>7 DEF S

-----------------------------------------------------------------------------
(* The refinement.  Each action is a move of the stream, or none at all.   *)

Pending == Elements(queue) \cup Elements(flight)

(* EventStream counts as everybody does.                                   *)
LEMMA StreamCounts ==
  ASSUME NEW S PROVE Stream!Cardinality(S) = Cardinality(S)
BY DEF Stream!Cardinality, Cardinality

(* A batch that goes back keeps the order; what it leaves behind has no    *)
(* room.                                                                   *)
LEMMA RequeueForgets ==
  ASSUME OInv, Requeue, flight' = <<>>, emitted' = emitted, accepted' = accepted
  PROVE  Ordered' /\ Stream!Forget
<1> USE DEF OInv, IInv
<1> DEFINE n == Smaller(Len(flight), QueueMax - Len(queue))
           back == SubSeq(flight, 1, n)
           gone == SubSeq(flight, n + 1, Len(flight))
<1>1. Len(flight) \in Nat /\ Len(queue) \in Nat /\ QueueMax \in Nat
  BY SizesAssumption DEF Shape, SizesAssumption
<1>2. n \in 0..Len(flight) /\ (n = Len(flight) \/ n = QueueMax - Len(queue))
  BY <1>1 DEF QueueBounded, Smaller
<1>3. /\ back \in Seq(Nat) /\ Len(back) = n
      /\ \A i \in 1..n : back[i] = flight[i]
      /\ Rising(back) /\ Elements(back) \subseteq Elements(flight)
      /\ Elements(back) \cup Elements(gone) = Elements(flight)
  BY <1>2, SplitAt, SplitElements, RisingParts DEF Shape, Ordered
<1>4. queue' = back \o queue
  BY DEF Requeue
<1>5. Before(back, queue)
  <2> HIDE DEF n, back, gone
  <2> SUFFICES ASSUME NEW i \in 1..Len(back), NEW j \in 1..Len(queue) PROVE back[i] < queue[j]
    BY DEF Before
  <2>1. i \in 1..Len(flight) /\ back[i] = flight[i]
    BY <1>1, <1>2, <1>3
  <2> QED BY <2>1 DEF Ordered, Before
<1>6. n = Len(flight) => back = flight
  BY SubSeqFull DEF Shape
<1> HIDE DEF n, back, gone
<1>7. /\ Rising(queue') /\ Elements(queue') = Elements(back) \cup Elements(queue)
      /\ queue' \in Seq(Nat) /\ Len(queue') = n + Len(queue)
  <2>1. back \in Seq(Nat) /\ queue \in Seq(Nat) /\ Rising(back) /\ Rising(queue)
    BY <1>3 DEF Shape, Ordered
  <2>2. Rising(queue') /\ Elements(queue') = Elements(back) \cup Elements(queue)
    BY <1>4, <1>5, <2>1, RisingJoined
  <2>3. queue' \in Seq(Nat) /\ Len(queue') = Len(back) + Len(queue)
    BY <1>4, <2>1
  <2>4. Len(back) = n
    BY <1>3
  <2> QED BY <2>2, <2>3, <2>4
<1>8. UpTo(queue', emitted)
  <2>1. \A x \in Elements(queue) \cup Elements(flight) : x <= emitted
    BY DEF Elements, Ordered, UpTo
  <2>2. \A x \in Elements(queue') : x <= emitted
    BY <1>3, <1>7, <2>1
  <2> QED BY <2>2 DEF Elements, UpTo
<1>9. Ordered'
  <2>1. Len(flight') = 0 /\ Rising(flight') /\ UpTo(flight', emitted') /\ Before(flight', queue')
    BY DEF Rising, UpTo, Before
  <2>2. UpTo(queue', emitted')
    BY <1>8
  <2> QED BY <1>7, <2>1, <2>2 DEF Ordered
<1>10. Pending' = Elements(queue') /\ Pending' \subseteq Pending
  <2>1. Elements(flight') = {}
    BY DEF Elements
  <2> QED BY <1>3, <1>7, <2>1 DEF Pending
<1>11. Pending' = Pending \/ Cardinality(Pending') >= QueueMax
  <2>1. CASE n = Len(flight)
    BY <1>6, <1>7, <1>10, <2>1 DEF Pending
  <2>2. CASE n = QueueMax - Len(queue)
    <3>1. Len(queue') = QueueMax
      BY <1>1, <1>7, <2>2
    <3>2. Cardinality(Elements(queue')) = QueueMax
      BY <1>7, <3>1, RisingCount
    <3> QED BY <1>1, <1>10, <3>2
  <2> QED BY <1>2, <2>1, <2>2
<1>12. Stream!Forget
  BY <1>10, <1>11, StreamCounts DEF Stream!Forget, Stream!GiveUp, Pending
<1> QED BY <1>9, <1>12

(* Appending the event just numbered.                                      *)
LEMMA AppendRises ==
  ASSUME NEW s \in Seq(Nat), NEW n \in Nat, Rising(s), UpTo(s, n)
  PROVE  /\ Rising(Append(s, n + 1)) /\ UpTo(Append(s, n + 1), n + 1)
         /\ Elements(Append(s, n + 1)) = Elements(s) \cup {n + 1}
<1> DEFINE u == Append(s, n + 1)
<1>1. /\ Len(s) \in Nat /\ Len(u) = Len(s) + 1 /\ u[Len(s) + 1] = n + 1
      /\ \A i \in 1..Len(s) : u[i] = s[i] /\ s[i] \in Nat
  OBVIOUS
<1> HIDE DEF u
<1>2. \A i \in 1..Len(u) : i \in 1..Len(s) \/ i = Len(s) + 1
  BY <1>1
<1>3. UpTo(u, n + 1)
  <2> SUFFICES ASSUME NEW i \in 1..Len(u) PROVE u[i] <= n + 1
    BY DEF UpTo
  <2>1. CASE i \in 1..Len(s)
    <3>1. s[i] <= n /\ u[i] = s[i] /\ s[i] \in Nat
      BY <1>1, <2>1 DEF UpTo
    <3> QED BY <3>1
  <2>2. CASE i = Len(s) + 1
    BY <1>1, <2>2
  <2> QED BY <1>2, <2>1, <2>2
<1>4. Rising(u)
  <2> SUFFICES ASSUME NEW i \in 1..Len(u), NEW j \in 1..Len(u), i < j PROVE u[i] < u[j]
    BY DEF Rising
  <2>1. i \in 1..Len(s)
    BY <1>1, <1>2
  <2>2. CASE j \in 1..Len(s)
    BY <1>1, <2>1, <2>2 DEF Rising
  <2>3. CASE j = Len(s) + 1
    <3>1. s[i] <= n /\ u[i] = s[i] /\ s[i] \in Nat
      BY <1>1, <2>1 DEF UpTo
    <3> QED BY <1>1, <2>3, <3>1
  <2> QED BY <1>2, <2>2, <2>3
<1>5. Elements(u) \subseteq Elements(s) \cup {n + 1}
  BY <1>1, <1>2 DEF Elements
<1>6. Elements(s) \cup {n + 1} \subseteq Elements(u)
  <2>1. Len(s) + 1 \in 1..Len(u) /\ \A i \in 1..Len(s) : i \in 1..Len(u)
    BY <1>1
  <2> QED BY <1>1, <2>1 DEF Elements
<1> QED BY <1>3, <1>4, <1>5, <1>6 DEF u

(* Dropping the oldest.                                                    *)
LEMMA TailRises ==
  ASSUME NEW s \in Seq(Nat), s # <<>>, Rising(s)
  PROVE  /\ Tail(s) \in Seq(Nat) /\ Len(Tail(s)) = Len(s) - 1
         /\ Rising(Tail(s)) /\ Elements(Tail(s)) \subseteq Elements(s)
<1> DEFINE u == Tail(s)
<1>1. /\ Len(s) \in Nat /\ u \in Seq(Nat) /\ Len(u) = Len(s) - 1
      /\ \A i \in 1..Len(u) : u[i] = s[i + 1] /\ i + 1 \in 1..Len(s)
  OBVIOUS
<1> HIDE DEF u
<1>2. Rising(u)
  <2> SUFFICES ASSUME NEW i \in 1..Len(u), NEW j \in 1..Len(u), i < j PROVE u[i] < u[j]
    BY DEF Rising
  <2>1. /\ i + 1 \in 1..Len(s) /\ j + 1 \in 1..Len(s) /\ i + 1 < j + 1
        /\ u[i] = s[i + 1] /\ u[j] = s[j + 1]
    BY <1>1
  <2> QED BY <2>1 DEF Rising
<1>3. Elements(u) \subseteq Elements(s)
  BY <1>1 DEF Elements
<1> QED BY <1>1, <1>2, <1>3 DEF u

OrderInv == Ordered /\ FlightIs

StreamStep == Stream!Next \/ UNCHANGED Stream!vars

(* Steps that leave the events alone.                                      *)
LEMMA EventsKept ==
  ASSUME OInv, UNCHANGED <<queue, flight, phase, emitted, accepted>>
  PROVE  OrderInv' /\ StreamStep
<1>1. OrderInv'
  BY DEF OInv, OrderInv, Ordered, FlightIs, Rising, Before, UpTo, Elements
<1>2. UNCHANGED Stream!vars
  BY DEF Stream!vars
<1> QED BY <1>1, <1>2 DEF StreamStep

(* A batch that goes back for good.                                        *)
LEMMA GivenUp ==
  ASSUME OInv, Requeue, FlightOver, emitted' = emitted, accepted' = accepted
  PROVE  OrderInv' /\ StreamStep
<1>1. flight' = <<>> /\ phase' = "idle"
  BY DEF FlightOver
<1>2. Ordered' /\ Stream!Forget
  BY <1>1, RequeueForgets
<1>3. FlightIs'
  BY <1>1 DEF FlightIs
<1> QED BY <1>2, <1>3 DEF OrderInv, StreamStep, Stream!Next

(* A failed attempt that is not the last one: the events stay.             *)
LEMMA AttemptKeeps ==
  ASSUME OInv, phase # "idle", phase' # "idle",
         UNCHANGED <<queue, flight, emitted, accepted>>
  PROVE  OrderInv' /\ StreamStep
<1>1. OrderInv'
  BY DEF OInv, OrderInv, Ordered, FlightIs, Rising, Before, UpTo, Elements
<1>2. UNCHANGED Stream!vars
  BY DEF Stream!vars
<1> QED BY <1>1, <1>2 DEF StreamStep

LEMMA EmitStreams ==
  ASSUME OInv, Emit PROVE OrderInv' /\ StreamStep
<1> USE DEF OInv, IInv
<1> DEFINE kept == IF Len(queue) >= QueueMax THEN Tail(queue) ELSE queue
<1>1. /\ queue' = Append(kept, emitted + 1) /\ emitted' = emitted + 1
      /\ emitted < MaxEvents /\ accepted' = accepted
      /\ flight' = flight /\ phase' = phase
  BY DEF Emit, sending
<1>2. Len(queue) \in Nat /\ QueueMax \in Nat \ {0} /\ emitted \in Nat
  BY SizesAssumption DEF Shape, SizesAssumption
<1>3. /\ kept \in Seq(Nat) /\ Rising(kept) /\ Elements(kept) \subseteq Elements(queue)
      /\ kept = queue \/ Len(kept) + 1 >= QueueMax
  <2>1. CASE Len(queue) >= QueueMax
    <3>1. queue # <<>>
      BY <1>2, <2>1
    <3>2. /\ Tail(queue) \in Seq(Nat) /\ Len(Tail(queue)) = Len(queue) - 1
          /\ Rising(Tail(queue)) /\ Elements(Tail(queue)) \subseteq Elements(queue)
      BY <3>1, TailRises DEF Shape, Ordered
    <3>3. kept = Tail(queue)
      BY <2>1
    <3>4. Len(kept) + 1 >= QueueMax
      BY ONLY <1>2, <2>1, <3>2, <3>3
    <3> QED BY <3>2, <3>3, <3>4
  <2>2. CASE ~(Len(queue) >= QueueMax)
    BY <2>2 DEF Shape, Ordered
  <2> QED BY <2>1, <2>2
<1> HIDE DEF kept
<1>4. \A x \in Elements(queue) \cup Elements(flight) : x <= emitted
  BY DEF Ordered, UpTo, Elements
<1>5. UpTo(kept, emitted)
  <2>1. \A i \in 1..Len(kept) : kept[i] \in Elements(kept)
    BY DEF Elements
  <2> QED BY <1>3, <1>4, <2>1 DEF UpTo
<1>6. /\ Rising(queue') /\ UpTo(queue', emitted')
      /\ Elements(queue') = Elements(kept) \cup {emitted + 1}
  BY <1>1, <1>2, <1>3, <1>5, AppendRises
<1>7. Before(flight, queue')
  <2> SUFFICES ASSUME NEW i \in 1..Len(flight), NEW j \in 1..Len(queue')
               PROVE  flight[i] < queue'[j]
    BY DEF Before
  <2>1. queue'[j] \in Elements(kept) \cup {emitted + 1}
    BY <1>6 DEF Elements
  <2>2. CASE queue'[j] = emitted + 1
    <3>1. flight[i] \in Nat /\ flight[i] <= emitted
      BY DEF Shape, Ordered, UpTo
    <3> QED BY <1>2, <2>2, <3>1
  <2>3. CASE queue'[j] \in Elements(queue)
    BY <2>3 DEF Ordered, Before, Elements
  <2> QED BY <1>3, <2>1, <2>2, <2>3
<1>8. UpTo(flight, emitted')
  <2> SUFFICES ASSUME NEW i \in 1..Len(flight) PROVE flight[i] <= emitted + 1
    BY <1>1 DEF UpTo
  <2>1. flight[i] \in Nat /\ flight[i] <= emitted
    BY DEF Shape, Ordered, UpTo
  <2> QED BY <1>2, <2>1
<1>9. Ordered'
  BY <1>1, <1>6, <1>7, <1>8 DEF Ordered
<1>10. FlightIs'
  BY <1>1 DEF FlightIs
<1> DEFINE left == Elements(kept) \cup Elements(flight)
<1>11. left \in SUBSET Pending /\ Pending' = left \cup {emitted + 1}
  BY <1>1, <1>3, <1>6 DEF Pending
<1>12. left = Pending \/ Cardinality(left) + 1 >= QueueMax
  <2>1. CASE kept = queue
    BY <2>1 DEF Pending
  <2>2. CASE Len(kept) + 1 >= QueueMax
    <3>1. /\ IsFiniteSet(Elements(kept)) /\ Cardinality(Elements(kept)) = Len(kept)
          /\ IsFiniteSet(Elements(flight))
      BY <1>3, RisingCount DEF Shape, Ordered
    <3>2. IsFiniteSet(left)
      BY <3>1, FS_Union
    <3>3. Cardinality(Elements(kept)) <= Cardinality(left)
      BY <3>2, FS_Subset
    <3>4. Cardinality(left) \in Nat /\ Len(kept) \in Nat
      BY <1>3, <3>2, FS_CardinalityType
    <3> QED BY <1>2, <2>2, <3>1, <3>3, <3>4
  <2> QED BY <1>3, <2>1, <2>2
<1> HIDE DEF left
<1>13. Stream!Emit
  BY <1>1, <1>11, <1>12, StreamCounts DEF Stream!Emit, Pending
<1> QED BY <1>9, <1>10, <1>13 DEF OrderInv, StreamStep, Stream!Next

LEMMA FlushStreams ==
  ASSUME OInv, Flush PROVE OrderInv' /\ StreamStep
<1> USE DEF OInv, IInv
<1>1. CASE flight # <<>> \/ queue = <<>>
  BY <1>1, EventsKept DEF Flush, sending
<1>2. CASE ~(flight # <<>> \/ queue = <<>>) /\ ~Up
  BY <1>2, EventsKept DEF Flush, sending
<1>3. CASE ~(flight # <<>> \/ queue = <<>>) /\ Up
  <2> DEFINE n == Smaller(BatchMax, Len(queue))
  <2>1. Len(queue) \in Nat \ {0} /\ BatchMax \in Nat \ {0}
    BY <1>3, SizesAssumption DEF Shape, SizesAssumption
  <2>2. n \in 0..Len(queue) /\ n > 0
    BY <2>1 DEF Smaller
  <2>3. /\ flight' = SubSeq(queue, 1, n) /\ queue' = SubSeq(queue, n + 1, Len(queue))
        /\ phase' = "sending" /\ emitted' = emitted /\ accepted' = accepted
    BY <1>3 DEF Flush, Send
  <2> HIDE DEF n
  <2>4. /\ Rising(flight') /\ Rising(queue') /\ Before(flight', queue')
        /\ Elements(flight') \cup Elements(queue') = Elements(queue)
    BY <2>2, <2>3, RisingParts DEF Shape, Ordered
  <2>5. flight' # <<>>
    <3>1. Len(flight') = n
      BY <2>2, <2>3, SplitAt DEF Shape
    <3> QED BY <2>2, <3>1
  <2>6. UpTo(flight', emitted) /\ UpTo(queue', emitted)
    <3>1. \A x \in Elements(queue) : x <= emitted
      BY DEF Ordered, UpTo, Elements
    <3>2. \A x \in Elements(flight') \cup Elements(queue') : x <= emitted
      BY <2>4, <3>1
    <3> QED BY <3>2 DEF UpTo, Elements
  <2>7. OrderInv'
    BY <2>3, <2>4, <2>5, <2>6 DEF OrderInv, Ordered, FlightIs
  <2>8. Elements(flight) = {}
    BY <1>3 DEF Elements
  <2>9. UNCHANGED Stream!vars
    BY <2>3, <2>4, <2>8 DEF Stream!vars
  <2> QED BY <2>7, <2>9 DEF StreamStep
<1> QED BY <1>1, <1>2, <1>3

(* The events of a batch are the oldest ones that are pending.             *)
LEMMA SendOkStreams ==
  ASSUME OInv, SendOk PROVE OrderInv' /\ StreamStep
<1> USE DEF OInv, IInv
<1>1. /\ phase = "sending" /\ flight' = <<>> /\ phase' = "idle"
      /\ accepted' = accepted \cup Elements(flight) /\ UNCHANGED <<queue, emitted>>
  BY DEF SendOk, FlightOver
<1>2. Elements(flight') = {} /\ Len(flight') = 0
  BY <1>1 DEF Elements
<1>3. Ordered'
  <2>1. Rising(flight') /\ Before(flight', queue') /\ UpTo(flight', emitted')
    BY <1>2 DEF Rising, Before, UpTo
  <2>2. Rising(queue') /\ UpTo(queue', emitted')
    BY <1>1 DEF Ordered, Rising, UpTo
  <2> QED BY <2>1, <2>2 DEF Ordered
<1>4. FlightIs'
  BY <1>1 DEF FlightIs
<1> DEFINE batch == Elements(flight)
<1>5. batch \in SUBSET Pending /\ batch # {}
  <2>1. flight # <<>>
    BY <1>1 DEF FlightIs
  <2>2. Len(flight) \in Nat \ {0}
    BY <2>1 DEF Shape
  <2>3. 1 \in 1..Len(flight)
    BY <2>2
  <2> QED BY <2>3 DEF Pending, Elements
<1>6. \A sent \in batch, waiting \in Pending \ batch : sent < waiting
  BY DEF Pending, Ordered, Before, Elements
<1>7. Pending' = Pending \ batch
  <2>1. Pending' = Elements(queue)
    BY <1>1, <1>2 DEF Pending, Elements
  <2>2. batch \cap Elements(queue) = {}
    <3> SUFFICES ASSUME NEW i \in 1..Len(flight), NEW j \in 1..Len(queue)
                 PROVE  flight[i] # queue[j]
      BY DEF Elements
    <3>1. flight[i] \in Nat /\ queue[j] \in Nat /\ flight[i] < queue[j]
      BY DEF Shape, Ordered, Before
    <3> QED BY <3>1
  <2> QED BY <2>1, <2>2 DEF Pending
<1> HIDE DEF batch
<1>8. accepted' = accepted \cup batch
  BY <1>1 DEF batch
<1>9. Stream!Accept
  BY <1>1, <1>5, <1>6, <1>7, <1>8 DEF Stream!Accept, Pending
<1> QED BY <1>3, <1>4, <1>9 DEF OrderInv, StreamStep, Stream!Next

LEMMA StepStreams ==
  ASSUME OInv, [Next]_vars PROVE OrderInv' /\ StreamStep
<1>1. CASE Open \/ Lost \/ Closed \/ ConnectTimeout \/ ReconnectTimer \/ Ping \/ Pong \/ HealthTerminate
  BY <1>1, EventsKept DEF Open, Lost, Closed, CloseEvent, ConnectTimeout, ReconnectTimer, Ping, Pong,
     HealthTerminate, sending
<1>2. CASE SendError \/ SendTimeout
  <2>1. AttemptFailed /\ phase = "sending" /\ UNCHANGED <<emitted, accepted>>
    BY <1>2 DEF SendError, SendTimeout
  <2>2. CASE attempt = MaxRetries + 1
    BY <2>1, <2>2, GivenUp DEF AttemptFailed
  <2>3. CASE attempt # MaxRetries + 1
    BY <2>1, <2>3, AttemptKeeps DEF AttemptFailed
  <2> QED BY <2>2, <2>3
<1>3. CASE RetryUp
  BY <1>3, AttemptKeeps DEF RetryUp, Send
<1>4. CASE RetryDown
  <2>1. CASE attempt + 1 = MaxRetries + 1
    BY <1>4, <2>1, GivenUp DEF RetryDown
  <2>2. CASE attempt + 1 # MaxRetries + 1
    BY <1>4, <2>2, AttemptKeeps DEF RetryDown
  <2> QED BY <2>1, <2>2
<1>5. CASE UNCHANGED vars
  BY <1>5, EventsKept DEF vars, sending
<1> QED BY <1>1, <1>2, <1>3, <1>4, <1>5, EmitStreams, FlushStreams, SendOkStreams
       DEF Next

LEMMA InitStreams == Init => OInv /\ Stream!Init
<1> SUFFICES ASSUME Init PROVE OInv /\ Stream!Init
  OBVIOUS
<1>1. queue = <<>> /\ flight = <<>> /\ Len(queue) = 0 /\ Len(flight) = 0 /\ emitted = 0
  BY DEF Init
<1>2. Ordered /\ FlightIs
  <2>1. Ordered
    BY <1>1 DEF Ordered, Rising, Before, UpTo
  <2>2. FlightIs
    BY DEF Init, FlightIs
  <2> QED BY <2>1, <2>2
<1>3. Stream!Init
  BY <1>1 DEF Init, Stream!Init, Elements
<1> QED BY <1>2, <1>3, InitHolds DEF OInv

(* The bridge implements the stream: whatever fails, sockets accept the    *)
(* events in the order of emission, each once, and one is given up only    *)
(* while a full queue of others waits (agentBridge.ts 165, 214, 276).      *)
THEOREM BridgeStreams == Spec => ImplementsStream
<1>1. Init => OInv /\ Stream!Init
  BY InitStreams
<1>2. OInv /\ [Next]_vars => OInv' /\ [Stream!Next]_(Stream!vars)
  BY StepStreams, StepHolds DEF OInv, OrderInv, StreamStep
<1> QED BY <1>1, <1>2, PTL DEF Spec, ImplementsStream, Stream!Spec

=============================================================================
