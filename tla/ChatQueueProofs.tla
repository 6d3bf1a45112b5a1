-------------------------- MODULE ChatQueueProofs --------------------------
(***************************************************************************)
(* The safety invariants of ChatQueue, and that it implements              *)
(* ChatDelivery, for every number of chats and connections, every queue    *)
(* size and every retry limit.                                             *)
(***************************************************************************)
EXTENDS ChatQueue, SequenceTheorems, TLAPS

Distinct == \A i, j \in 1..Len(queue) : queue[i] = queue[j] => i = j

(* Accounted, for one chat. *)
OnePlace(c) ==
  /\ c > received \/ fate[c] # "open" => ~AtDoor(c) /\ ~Queued(c) /\ ~Held(c)
  /\ c <= received /\ fate[c] = "open" =>
       /\ AtDoor(c) \/ Queued(c) \/ Held(c)
       /\ ~(AtDoor(c) /\ Queued(c))
       /\ ~(AtDoor(c) /\ Held(c))
       /\ ~(Queued(c) /\ Held(c))

(* What the five invariants need to be inductive: where the retry count and
   the number of starts agree while a chat is not waiting. *)
Links ==
  /\ worker.step = "getting" <=> worker.task = NoTask
  /\ \A c \in Chats : caller[c] = "unsent" <=> c > received
  /\ \A c \in Chats : c > received =>
       runs[c] = 0 /\ retryCount[c] = 0 /\ fate[c] = "open"
  /\ worker.step = "processing" =>
       runs[worker.task] = retryCount[worker.task] + 1

IInv ==
  TypeOK /\ UnfinishedMatches /\ Accounted /\ Bounded /\ RunsBounded /\ Links

-----------------------------------------------------------------------------
(* Putting a chat that is not queued adds exactly that chat. *)
LEMMA PutAdds ==
  ASSUME TypeOK, Distinct, NEW x \in Chats, ~Queued(x),
         queue' = Append(queue, x)
  PROVE  /\ queue' \in Seq(Chats)
         /\ Len(queue') = Len(queue) + 1
         /\ \A c \in Chats : Queued(c)' <=> Queued(c) \/ c = x
         /\ Distinct'
<1>1. queue \in Seq(Chats)
  BY DEF TypeOK
<1>2. /\ queue' \in Seq(Chats)
      /\ Len(queue') = Len(queue) + 1
      /\ \A i \in 1..Len(queue) : queue'[i] = queue[i]
      /\ queue'[Len(queue) + 1] = x
  BY <1>1, AppendProperties
<1>3. Len(queue) \in Nat
  BY <1>1, LenProperties
<1>4. ASSUME NEW c \in Chats PROVE Queued(c)' <=> Queued(c) \/ c = x
  BY <1>2, <1>3 DEF Queued
<1>5. Distinct'
  BY <1>2, <1>3 DEF Distinct, Queued
<1>. QED
  BY <1>2, <1>4, <1>5

(* Taking the head of the queue removes exactly that chat. *)
LEMMA TakeRemoves ==
  ASSUME TypeOK, Distinct, queue # <<>>, queue' = Tail(queue)
  PROVE  /\ Head(queue) \in Chats
         /\ Queued(Head(queue))
         /\ queue' \in Seq(Chats)
         /\ Len(queue') = Len(queue) - 1
         /\ \A c \in Chats : Queued(c)' <=> Queued(c) /\ c # Head(queue)
         /\ Distinct'
<1>1. queue \in Seq(Chats)
  BY DEF TypeOK
<1>2. /\ Head(queue) \in Chats
      /\ queue' \in Seq(Chats)
      /\ Len(queue') = Len(queue) - 1
      /\ \A i \in 1..Len(queue') : queue'[i] = queue[i + 1]
  BY <1>1, HeadTailProperties
<1>3. Len(queue) \in Nat \ {0} /\ Head(queue) = queue[1]
  BY <1>1, EmptySeq
<1>4. Queued(Head(queue))
  BY <1>3 DEF Queued
<1>5. ASSUME NEW c \in Chats
      PROVE  Queued(c)' <=> Queued(c) /\ c # Head(queue)
  <2>1. ASSUME Queued(c)' PROVE Queued(c) /\ c # Head(queue)
    <3>1. PICK i \in 1..Len(queue') : queue'[i] = c
      BY <2>1 DEF Queued
    <3>2. i + 1 \in 1..Len(queue) /\ queue[i + 1] = c /\ i + 1 # 1
      BY <3>1, <1>2, <1>3
    <3>. QED
      BY <3>2, <1>3 DEF Queued, Distinct
  <2>2. ASSUME Queued(c), c # Head(queue) PROVE Queued(c)'
    <3>1. PICK i \in 1..Len(queue) : queue[i] = c
      BY <2>2 DEF Queued
    <3>2. i - 1 \in 1..Len(queue') /\ queue'[i - 1] = c
      BY <3>1, <2>2, <1>2, <1>3
    <3>. QED
      BY <3>2 DEF Queued
  <2>. QED
    BY <2>1, <2>2
<1>6. Distinct'
  BY <1>2, <1>3 DEF Distinct
<1>. QED
  BY <1>2, <1>3, <1>4, <1>5, <1>6

-----------------------------------------------------------------------------
(* Accounted is Distinct and OnePlace of every chat, before and after a step. *)
LEMMA PlacesSuffice ==
  /\ Accounted <=> Distinct /\ \A c \in Chats : OnePlace(c)
  /\ Accounted' <=> Distinct' /\ \A c \in Chats : OnePlace(c)'
BY DEF Accounted, Distinct, OnePlace, Chats

(* The empty queue and the callers that have not come yet satisfy the invariant. *)
LEMMA InitIInv == Init => IInv
<1>. SUFFICES ASSUME Init PROVE IInv
  OBVIOUS
<1>. USE ChatQueueAssumption DEF Init, Chats, NoTask
<1>1. TypeOK
  BY EmptySeq DEF TypeOK, CallerStep, WorkerStep, Fate
<1>2. UnfinishedMatches /\ Bounded
  BY DEF UnfinishedMatches, Bounded
<1>3. Accounted
  BY DEF Accounted, AtDoor, Queued, Held
<1>4. RunsBounded /\ Links
  BY DEF RunsBounded, Waiting, AtDoor, Queued, Held, Links
<1>. QED
  BY <1>1, <1>2, <1>3, <1>4 DEF IInv

(* Every action of callers, queue and worker keeps the invariant: one step per
   action, under it one per conjunct the action can disturb. *)
LEMMA NextIInv == IInv /\ [Next]_vars => IInv'
<1>. SUFFICES ASSUME IInv, [Next]_vars PROVE IInv'
  OBVIOUS
<1>. USE ChatQueueAssumption DEF IInv, Chats, NoTask
<1>d. Distinct
  BY DEF Accounted, Distinct
<1>p. \A d \in Chats : OnePlace(d)
  BY DEF Accounted, OnePlace
<1>q. queue \in Seq(Chats) /\ Len(queue) \in Nat
  BY LenProperties DEF TypeOK
<1>1. CASE EnqueueChat
  <2>. DEFINE c == received + 1
  <2>1. c \in Chats /\ queue' = Append(queue, c) /\ ~Queued(c) /\ ~Full
    BY <1>1, <1>p DEF EnqueueChat, Arrives, Put, OnePlace, TypeOK
  <2>2. /\ queue' \in Seq(Chats) /\ Len(queue') = Len(queue) + 1 /\ Distinct'
        /\ \A d \in Chats : Queued(d)' <=> Queued(d) \/ d = c
    BY <2>1, <1>d, PutAdds
  <2>3. TypeOK'
    BY <2>1, <2>2, <1>1 DEF TypeOK, EnqueueChat, Arrives, CallerStep
  <2>4. UnfinishedMatches' /\ Bounded'
    BY <2>1, <2>2, <1>q, <1>1
    DEF UnfinishedMatches, Bounded, EnqueueChat, Full, TypeOK
  <2>5. \A d \in Chats : OnePlace(d)'
    BY <2>1, <2>2, <1>1, <1>p
    DEF OnePlace, Links, AtDoor, Held, EnqueueChat, Arrives, TypeOK
  <2>6. RunsBounded' /\ Links'
    BY <2>1, <2>2, <1>1
    DEF RunsBounded, Links, Waiting, AtDoor, Held, EnqueueChat, Arrives, TypeOK
  <2>. QED
    BY <2>2, <2>3, <2>4, <2>5, <2>6, PlacesSuffice
<1>2. CASE EnqueueOverflow
  <2>c. PICK c : c = received + 1
    OBVIOUS
  <2>h. PICK h : h = Head(queue)
    OBVIOUS
  <2>1. queue # <<>> /\ queue' = Tail(queue)
    BY <1>2, <1>q, EmptySeq DEF EnqueueOverflow, DropOldest, Full
  <2>e. /\ c \in Chats /\ received' = c /\ c > received
        /\ \A d \in Chats : d > received /\ d # c <=> d > received'
        /\ unfinished' = unfinished - 1
        /\ fate' = [fate EXCEPT ![h] = "dropped"]
        /\ caller' = [caller EXCEPT ![c] = "notifying"]
        /\ UNCHANGED <<worker, retryCount, runs>>
    BY <2>c, <2>h, <1>2 DEF EnqueueOverflow, Arrives, DropOldest, TypeOK
  <2>2. /\ h \in Chats /\ Queued(h)
        /\ queue' \in Seq(Chats) /\ Len(queue') = Len(queue) - 1 /\ Distinct'
        /\ \A d \in Chats : Queued(d)' <=> Queued(d) /\ d # h
    BY <2>h, <2>1, <1>d, TakeRemoves
  <2>3. TypeOK'
    <3>1. caller' \in [Chats -> CallerStep] /\ fate' \in [Chats -> Fate]
      BY <2>e, <2>2 DEF TypeOK, CallerStep, Fate
    <3>2. received' \in 0..MaxChats /\ unfinished' \in Int
      BY <2>e DEF TypeOK
    <3>. QED
      BY <2>e, <2>2, <3>1, <3>2 DEF TypeOK
  <2>4. UnfinishedMatches' /\ Bounded'
    BY <2>e, <2>2, <1>q DEF UnfinishedMatches, Bounded, TypeOK
  <2>5. \A d \in Chats : OnePlace(d)'
    <3>. SUFFICES ASSUME NEW d \in Chats PROVE OnePlace(d)'
      OBVIOUS
    <3>a. caller[c] = "unsent" /\ fate[c] = "open" /\ fate[h] = "open"
      BY <2>e, <2>2, <1>p DEF OnePlace, Links, TypeOK
    <3>1. CASE d = c
      BY <2>e, <2>2, <1>p, <3>a, <3>1 DEF OnePlace, AtDoor, Held, TypeOK
    <3>2. CASE d = h /\ d # c
      BY <2>e, <2>2, <1>p, <3>a, <3>2 DEF OnePlace, AtDoor, Held, TypeOK
    <3>3. CASE d # h /\ d # c
      <4>1. /\ caller'[d] = caller[d] /\ fate'[d] = fate[d]
            /\ d > received' <=> d > received
            /\ d <= received' <=> d <= received
            /\ Queued(d)' <=> Queued(d)
        <5>1. caller'[d] = caller[d] /\ fate'[d] = fate[d]
          BY <2>e, <2>2, <3>3 DEF TypeOK
        <5>2. /\ d > received' <=> d > received
              /\ d <= received' <=> d <= received
          BY <2>c, <2>e, <3>3 DEF TypeOK
        <5>. QED
          BY <5>1, <5>2, <2>2, <3>3
      <4>. QED
        BY <4>1, <2>e, <1>p DEF OnePlace, AtDoor, Held
    <3>. QED
      BY <3>1, <3>2, <3>3
  <2>6. RunsBounded' /\ Links'
    <3>1. RunsBounded'
      <4>. SUFFICES ASSUME NEW d \in Chats
                    PROVE  /\ runs[d] <= RetryLimit + 1
                           /\ Waiting(d)' => runs[d] = retryCount[d]
        BY <2>e DEF RunsBounded
      <4>1. Waiting(d)' => Waiting(d) \/ d = c
        BY <2>e, <2>2 DEF Waiting, AtDoor, Held, TypeOK
      <4>2. runs[c] = 0 /\ retryCount[c] = 0
        BY <2>e DEF Links
      <4>. QED
        BY <4>1, <4>2 DEF RunsBounded
    <3>2. Links'
      BY <2>e, <2>2, <1>p DEF Links, OnePlace, TypeOK
    <3>. QED
      BY <3>1, <3>2
  <2>. QED
    BY <2>2, <2>3, <2>4, <2>5, <2>6, PlacesSuffice
<1>3. ASSUME NEW c \in Chats, EnqueueBlocks(c) PROVE IInv'
  <2>1. TypeOK'
    BY <1>3 DEF TypeOK, EnqueueBlocks, CallerStep
  <2>2. UnfinishedMatches' /\ Bounded' /\ Distinct'
    BY <1>3, <1>d DEF UnfinishedMatches, Bounded, Distinct, EnqueueBlocks
  <2>3. \A d \in Chats : OnePlace(d)'
    BY <1>3, <1>p DEF OnePlace, AtDoor, Queued, Held, EnqueueBlocks, TypeOK
  <2>4. RunsBounded' /\ Links'
    BY <1>3 DEF RunsBounded, Links, Waiting, AtDoor, Queued, Held,
                EnqueueBlocks, TypeOK
  <2>. QED
    BY <2>1, <2>2, <2>3, <2>4, PlacesSuffice
<1>4. ASSUME NEW c \in Chats, EnqueuePuts(c) PROVE IInv'
  <2>1. queue' = Append(queue, c) /\ ~Queued(c) /\ ~Full
    BY <1>4, <1>p DEF EnqueuePuts, Put, OnePlace, AtDoor, TypeOK
  <2>2. /\ queue' \in Seq(Chats) /\ Len(queue') = Len(queue) + 1 /\ Distinct'
        /\ \A d \in Chats : Queued(d)' <=> Queued(d) \/ d = c
    BY <2>1, <1>d, PutAdds
  <2>3. TypeOK'
    BY <2>2, <1>4 DEF TypeOK, EnqueuePuts, CallerStep
  <2>4. UnfinishedMatches' /\ Bounded'
    BY <2>1, <2>2, <1>q, <1>4
    DEF UnfinishedMatches, Bounded, EnqueuePuts, Full, TypeOK
  <2>5. \A d \in Chats : OnePlace(d)'
    BY <2>2, <1>4, <1>p DEF OnePlace, AtDoor, Held, EnqueuePuts, TypeOK
  <2>6. RunsBounded' /\ Links'
    BY <2>2, <1>4
    DEF RunsBounded, Links, Waiting, AtDoor, Held, EnqueuePuts, TypeOK
  <2>. QED
    BY <2>2, <2>3, <2>4, <2>5, <2>6, PlacesSuffice
<1>5. CASE WorkerGet
  <2>h. PICK h : h = Head(queue)
    OBVIOUS
  <2>1. queue # <<>> /\ queue' = Tail(queue)
    BY <1>5 DEF WorkerGet
  <2>e. /\ worker.step = "getting"
        /\ worker' = [step |-> "processing", task |-> h]
        /\ runs' = [runs EXCEPT ![h] = @ + 1]
        /\ UNCHANGED <<unfinished, received, caller, retryCount, fate>>
    BY <2>h, <1>5 DEF WorkerGet
  <2>2. /\ h \in Chats /\ Queued(h)
        /\ queue' \in Seq(Chats) /\ Len(queue') = Len(queue) - 1 /\ Distinct'
        /\ \A d \in Chats : Queued(d)' <=> Queued(d) /\ d # h
    BY <2>h, <2>1, <1>d, TakeRemoves
  <2>3. TypeOK'
    BY <2>2, <2>e DEF TypeOK, WorkerStep
  <2>4. UnfinishedMatches' /\ Bounded'
    BY <2>2, <1>q, <2>e DEF UnfinishedMatches, Bounded, TypeOK
  <2>5. \A d \in Chats : OnePlace(d)'
    BY <2>2, <2>e, <1>p DEF OnePlace, Links, AtDoor, Held, TypeOK
  <2>6. RunsBounded' /\ Links'
    <3>1. runs[h] = retryCount[h] /\ retryCount[h] \in 0..RetryLimit
      BY <2>2 DEF RunsBounded, Waiting, TypeOK
    <3>2. /\ runs'[h] = runs[h] + 1
          /\ \A d \in Chats : d # h => runs'[d] = runs[d]
      BY <2>2, <2>e DEF TypeOK
    <3>3. h <= received /\ ~AtDoor(h)
      BY <2>2, <1>p DEF OnePlace, TypeOK
    <3>4. RunsBounded'
      <4>. SUFFICES ASSUME NEW d \in Chats
                    PROVE  /\ runs'[d] <= RetryLimit + 1
                           /\ Waiting(d)' => runs'[d] = retryCount[d]
        BY <2>e DEF RunsBounded
      <4>1. worker'.step = "processing"
        BY <2>e
      <4>2. CASE d = h
        BY <2>2, <2>e, <3>1, <3>2, <3>3, <4>1, <4>2
        DEF Waiting, AtDoor, Held
      <4>3. CASE d # h
        <5>1. Waiting(d)' => Waiting(d)
          BY <2>2, <2>e, <4>1, <4>3 DEF Waiting, AtDoor, Held
        <5>. QED
          BY <5>1, <3>2, <4>3 DEF RunsBounded
      <4>. QED
        BY <4>2, <4>3
    <3>5. Links'
      BY <2>2, <2>e, <3>1, <3>2, <3>3 DEF Links, TypeOK
    <3>. QED
      BY <3>4, <3>5
  <2>. QED
    BY <2>2, <2>3, <2>4, <2>5, <2>6, PlacesSuffice
<1>6. ASSUME NEW outcome \in {"done", "failed"}, WorkerFinish(outcome)
      PROVE  IInv'
  <2>1. worker.task \in Chats /\ outcome # "open"
    BY <1>6 DEF WorkerFinish, Links, TypeOK
  <2>2. TypeOK'
    BY <2>1, <1>6 DEF TypeOK, WorkerFinish, NextTask, WorkerStep, Fate
  <2>3. UnfinishedMatches' /\ Bounded' /\ Distinct'
    BY <1>6, <1>d, <1>q
    DEF UnfinishedMatches, Bounded, Distinct, WorkerFinish, NextTask, TypeOK
  <2>4. \A d \in Chats : OnePlace(d)'
    <3>. SUFFICES ASSUME NEW d \in Chats PROVE OnePlace(d)'
      OBVIOUS
    <3>1. /\ worker'.task = 0 /\ Held(worker.task)
          /\ fate'[d] = IF d = worker.task THEN outcome ELSE fate[d]
          /\ UNCHANGED <<queue, received, caller>>
      BY <2>1, <1>6 DEF WorkerFinish, NextTask, TypeOK, Held
    <3>2. (AtDoor(d)' <=> AtDoor(d)) /\ (Queued(d)' <=> Queued(d)) /\ ~Held(d)'
      BY <3>1 DEF AtDoor, Queued, Held
    <3>3. CASE d = worker.task
      <4>1. d > received \/ d <= received
        BY DEF TypeOK
      <4>2. ~AtDoor(d) /\ ~Queued(d)
        BY <4>1, <3>1, <3>3, <1>p DEF OnePlace
      <4>3. fate'[d] # "open"
        BY <2>1, <3>1, <3>3
      <4>. QED
        BY <4>2, <4>3, <3>2 DEF OnePlace
    <3>4. CASE d # worker.task
      BY <3>1, <3>2, <3>4, <1>p DEF OnePlace, Held
    <3>. QED
      BY <3>3, <3>4
  <2>5. RunsBounded' /\ Links'
    BY <2>1, <1>6, <1>p
    DEF RunsBounded, Links, Waiting, AtDoor, Queued, Held, OnePlace,
        WorkerFinish, NextTask, TypeOK
  <2>. QED
    BY <2>2, <2>3, <2>4, <2>5, PlacesSuffice
<1>7. CASE WorkerRequeue
  <2>. DEFINE t == worker.task
  <2>1. t \in Chats /\ queue' = Append(queue, t) /\ ~Queued(t) /\ ~Full
    BY <1>7, <1>p DEF WorkerRequeue, Put, OnePlace, Held, Links, TypeOK
  <2>2. /\ queue' \in Seq(Chats) /\ Len(queue') = Len(queue) + 1 /\ Distinct'
        /\ \A d \in Chats : Queued(d)' <=> Queued(d) \/ d = t
    BY <2>1, <1>d, PutAdds
  <2>3. TypeOK'
    <3>1. worker' \in [step : WorkerStep, task : Chats \cup {NoTask}]
      BY <1>7 DEF WorkerRequeue, NextTask, WorkerStep
    <3>2. retryCount' \in [Chats -> 0..RetryLimit]
      BY <2>1, <1>7 DEF TypeOK, WorkerRequeue, CanRetry
    <3>. QED
      BY <2>2, <3>1, <3>2, <1>7 DEF TypeOK, WorkerRequeue
  <2>4. UnfinishedMatches' /\ Bounded'
    BY <2>1, <2>2, <1>q, <1>7
    DEF UnfinishedMatches, Bounded, WorkerRequeue, NextTask, Full, TypeOK
  <2>5. \A d \in Chats : OnePlace(d)'
    BY <2>1, <2>2, <1>7, <1>p
    DEF OnePlace, AtDoor, Held, WorkerRequeue, NextTask, TypeOK
  <2>6. RunsBounded' /\ Links'
    BY <2>1, <2>2, <1>7, <1>p
    DEF RunsBounded, Links, Waiting, AtDoor, Held, OnePlace,
        WorkerRequeue, NextTask, TypeOK
  <2>. QED
    BY <2>2, <2>3, <2>4, <2>5, <2>6, PlacesSuffice
<1>8. CASE WorkerOverflow
  <2>t. PICK t : t = worker.task
    OBVIOUS
  <2>h. PICK h : h = Head(queue)
    OBVIOUS
  <2>1. queue # <<>> /\ queue' = Tail(queue)
    BY <1>8, <1>q, EmptySeq DEF WorkerOverflow, DropOldest, Full
  <2>e. /\ t \in Chats /\ ~Queued(t) /\ worker.task = t
        /\ worker.step = "processing" /\ unfinished' = unfinished - 1
        /\ fate[t] = "open" /\ fate' = [fate EXCEPT ![h] = "dropped"]
        /\ retryCount[t] < RetryLimit
        /\ retryCount' = [retryCount EXCEPT ![t] = @ + 1]
        /\ worker' = [worker EXCEPT !.step = "notifying"]
        /\ UNCHANGED <<received, caller, runs>>
    BY <2>t, <2>h, <1>8, <1>p
    DEF WorkerOverflow, CanRetry, DropOldest, OnePlace, Held, Links, TypeOK
  <2>2. /\ h \in Chats /\ Queued(h)
        /\ queue' \in Seq(Chats) /\ Len(queue') = Len(queue) - 1 /\ Distinct'
        /\ \A d \in Chats : Queued(d)' <=> Queued(d) /\ d # h
    BY <2>h, <2>1, <1>d, TakeRemoves
  <2>3. TypeOK'
    <3>1. worker' \in [step : WorkerStep, task : Chats \cup {NoTask}]
      BY <2>e DEF TypeOK, WorkerStep
    <3>2. retryCount' \in [Chats -> 0..RetryLimit]
      BY <2>e DEF TypeOK
    <3>3. fate' \in [Chats -> Fate]
      BY <2>e, <2>2 DEF TypeOK, Fate
    <3>4. unfinished' \in Int
      BY <2>e DEF TypeOK
    <3>. QED
      BY <2>e, <2>2, <3>1, <3>2, <3>3, <3>4 DEF TypeOK
  <2>w. worker'.step = "notifying" /\ worker'.task = t
    BY <2>e DEF TypeOK
  <2>4. UnfinishedMatches' /\ Bounded'
    <3>1. unfinished = Len(queue) + 1
      BY <2>e DEF UnfinishedMatches
    <3>2. UnfinishedMatches'
      BY <3>1, <2>e, <2>w, <2>2, <1>q DEF UnfinishedMatches
    <3>3. Bounded'
      BY <2>2, <1>q DEF Bounded
    <3>. QED
      BY <3>2, <3>3
  <2>5. \A d \in Chats : OnePlace(d)'
    <3>. SUFFICES ASSUME NEW d \in Chats PROVE OnePlace(d)'
      OBVIOUS
    <3>1. CASE d = h
      BY <2>e, <2>w, <2>2, <1>p, <3>1 DEF OnePlace, AtDoor, Held, TypeOK
    <3>2. CASE d # h
      BY <2>e, <2>w, <2>2, <1>p, <3>2 DEF OnePlace, AtDoor, Held, TypeOK
    <3>. QED
      BY <3>1, <3>2
  <2>6. RunsBounded' /\ Links'
    <3>1. RunsBounded'
      BY <2>e, <2>2, <1>p DEF RunsBounded, Links, Waiting, AtDoor, Held, TypeOK
    <3>2. Links'
      BY <2>e, <2>2, <1>p DEF Links, OnePlace, Held, TypeOK
    <3>. QED
      BY <3>1, <3>2
  <2>. QED
    BY <2>2, <2>3, <2>4, <2>5, <2>6, PlacesSuffice
<1>9. CASE WorkerBlocks
  <2>1. TypeOK'
    BY <1>9 DEF TypeOK, WorkerBlocks, WorkerStep
  <2>2. UnfinishedMatches' /\ Bounded' /\ Distinct'
    BY <1>9, <1>d DEF UnfinishedMatches, Bounded, Distinct, WorkerBlocks, TypeOK
  <2>3. \A d \in Chats : OnePlace(d)'
    BY <1>9, <1>p DEF OnePlace, AtDoor, Queued, Held, WorkerBlocks, TypeOK
  <2>4. RunsBounded' /\ Links'
    BY <1>9 DEF RunsBounded, Links, Waiting, AtDoor, Queued, Held,
                WorkerBlocks, TypeOK
  <2>. QED
    BY <2>1, <2>2, <2>3, <2>4, PlacesSuffice
<1>10. CASE WorkerPuts
  <2>. DEFINE t == worker.task
  <2>1. t \in Chats /\ queue' = Append(queue, t) /\ ~Queued(t) /\ ~Full
    BY <1>10, <1>p DEF WorkerPuts, Put, OnePlace, Held, Links, TypeOK
  <2>2. /\ queue' \in Seq(Chats) /\ Len(queue') = Len(queue) + 1 /\ Distinct'
        /\ \A d \in Chats : Queued(d)' <=> Queued(d) \/ d = t
    BY <2>1, <1>d, PutAdds
  <2>3. TypeOK'
    BY <2>2, <1>10 DEF TypeOK, WorkerPuts, NextTask, WorkerStep
  <2>4. UnfinishedMatches' /\ Bounded'
    BY <2>1, <2>2, <1>q, <1>10
    DEF UnfinishedMatches, Bounded, WorkerPuts, NextTask, Full, TypeOK
  <2>5. \A d \in Chats : OnePlace(d)'
    BY <2>1, <2>2, <1>10, <1>p
    DEF OnePlace, AtDoor, Held, WorkerPuts, NextTask, TypeOK
  <2>6. RunsBounded' /\ Links'
    BY <2>1, <2>2, <1>10, <1>p
    DEF RunsBounded, Links, Waiting, AtDoor, Held, OnePlace,
        WorkerPuts, NextTask, TypeOK
  <2>. QED
    BY <2>2, <2>3, <2>4, <2>5, <2>6, PlacesSuffice
<1>11. CASE WorkerSkip
  <2>1. worker.task \in Chats
    BY <1>11 DEF WorkerSkip, Links, TypeOK
  <2>2. TypeOK'
    BY <2>1, <1>11 DEF TypeOK, WorkerSkip, WorkerStep, Fate
  <2>3. UnfinishedMatches' /\ Bounded' /\ Distinct'
    BY <1>11, <1>d DEF UnfinishedMatches, Bounded, Distinct, WorkerSkip, TypeOK
  <2>4. \A d \in Chats : OnePlace(d)'
    BY <2>1, <1>11, <1>p
    DEF OnePlace, AtDoor, Queued, Held, WorkerSkip, TypeOK
  <2>5. RunsBounded' /\ Links'
    BY <2>1, <1>11, <1>p
    DEF RunsBounded, Links, Waiting, AtDoor, Queued, Held, OnePlace,
        WorkerSkip, TypeOK
  <2>. QED
    BY <2>2, <2>3, <2>4, <2>5, PlacesSuffice
<1>12. CASE WorkerSkipped
  <2>1. TypeOK'
    BY <1>12 DEF TypeOK, WorkerSkipped, NextTask, WorkerStep
  <2>2. UnfinishedMatches' /\ Bounded' /\ Distinct'
    BY <1>12, <1>d, <1>q
    DEF UnfinishedMatches, Bounded, Distinct, WorkerSkipped, NextTask, TypeOK
  <2>3. \A d \in Chats : OnePlace(d)'
    BY <1>12, <1>p
    DEF OnePlace, AtDoor, Queued, Held, WorkerSkipped, NextTask, TypeOK
  <2>4. RunsBounded' /\ Links'
    BY <1>12
    DEF RunsBounded, Links, Waiting, AtDoor, Queued, Held,
        WorkerSkipped, NextTask, TypeOK
  <2>. QED
    BY <2>1, <2>2, <2>3, <2>4, PlacesSuffice
<1>13. CASE UNCHANGED vars
  BY <1>13
  DEF vars, TypeOK, UnfinishedMatches, Accounted, Bounded, RunsBounded, Links,
      AtDoor, Queued, Held, Waiting
<1>. QED
  BY <1>1, <1>2, <1>3, <1>4, <1>5, <1>6, <1>7, <1>8, <1>9, <1>10, <1>11, <1>12,
     <1>13
  DEF Next, Enqueue, Worker, CallerResumes, ProcessingEnds

(* The invariant holds for ever; the properties below are its conjuncts. *)
THEOREM Invariance == Spec => []IInv
BY InitIInv, NextIInv, PTL DEF Spec

-----------------------------------------------------------------------------
(* Every variable keeps its type whatever order arrivals, timeouts, drops and
   resumed puts take: the worker never holds a task that is not a chat, and no
   retry count passes the limit. *)
THEOREM TypeCorrect == Spec => []TypeOK
BY Invariance, PTL DEF IInv

(* asyncio's unfinished-task counter never drifts from the chats that are in the
   queue or with the worker, for any queue size and any number of callers. *)
THEOREM UnfinishedNeverDrifts == Spec => []UnfinishedMatches
BY Invariance, PTL DEF IInv

(* No interleaving of enqueue_chat calls with the worker's requeues and drops
   loses a chat or duplicates it: an open chat has exactly one place. *)
THEOREM NoneLostNoneDuplicated == Spec => []Accounted
BY Invariance, PTL DEF IInv

(* A put resumed after its overflow notice never overfills the queue. *)
THEOREM NeverOverfull == Spec => []Bounded
BY Invariance, PTL DEF IInv

(* No chat is processed more than timeout_retry_limit + 1 times. *)
THEOREM RetriesBounded == Spec => []RunsBounded
BY Invariance, PTL DEF IInv

-----------------------------------------------------------------------------
(* What the stage of a chat says of the queue's state. *)
StageFacts(c) ==
  /\ c > received => Stage(c) = "unsent"
  /\ c <= received /\ fate[c] # "open" => Stage(c) = "closed"
  /\ worker.step = "processing" /\ worker.task = c =>
       Stage(c) = "running" /\ fate[c] = "open" /\ c <= received
  /\ c <= received /\ fate[c] = "open"
       /\ ~(worker.step = "processing" /\ worker.task = c) =>
       Stage(c) = "waiting"

(* What the refinement mapping makes of a chat, case by case. *)
LEMMA StageIs ==
  /\ IInv => \A c \in Chats : StageFacts(c)
  /\ IInv' => \A c \in Chats : StageFacts(c)'
<1>1. ASSUME IInv, NEW c \in Chats PROVE StageFacts(c)
  <2>1. worker = [step |-> "processing", task |-> c]
          <=> worker.step = "processing" /\ worker.task = c
    BY <1>1 DEF IInv, TypeOK
  <2>2. /\ c > received <=> ~(c <= received)
        /\ Held(c) => fate[c] = "open" /\ c <= received
        /\ c > received => fate[c] = "open"
    BY <1>1 DEF IInv, TypeOK, Accounted, Chats, Links
  <2>3. worker.step = "processing" /\ worker.task = c => Held(c)
    BY DEF Held
  <2>4. CASE c > received
    BY <2>1, <2>2, <2>3, <2>4 DEF StageFacts, Stage
  <2>5. CASE c <= received /\ fate[c] # "open"
    BY <2>1, <2>2, <2>3, <2>5 DEF StageFacts, Stage
  <2>6. CASE c <= received /\ fate[c] = "open"
    BY <2>1, <2>2, <2>3, <2>6 DEF StageFacts, Stage
  <2>. QED
    BY <2>2, <2>4, <2>5, <2>6
<1>2. ASSUME IInv', NEW c \in Chats PROVE StageFacts(c)'
  <2>1. worker' = [step |-> "processing", task |-> c]
          <=> worker'.step = "processing" /\ worker'.task = c
    BY <1>2 DEF IInv, TypeOK
  <2>2. /\ c > received' <=> ~(c <= received')
        /\ Held(c)' => fate'[c] = "open" /\ c <= received'
        /\ c > received' => fate'[c] = "open"
    BY <1>2 DEF IInv, TypeOK, Accounted, Chats, Links
  <2>3. worker'.step = "processing" /\ worker'.task = c => Held(c)'
    BY DEF Held
  <2>4. CASE c > received'
    BY <2>1, <2>2, <2>3, <2>4 DEF StageFacts, Stage
  <2>5. CASE c <= received' /\ fate'[c] # "open"
    BY <2>1, <2>2, <2>3, <2>5 DEF StageFacts, Stage
  <2>6. CASE c <= received' /\ fate'[c] = "open"
    BY <2>1, <2>2, <2>3, <2>6 DEF StageFacts, Stage
  <2>. QED
    BY <2>2, <2>4, <2>5, <2>6
<1>. QED
  BY <1>1, <1>2

(* When the stages change like this, the abstract chat c moves. *)
Moves(c, to, pushed) ==
  /\ pushed \subseteq Chats /\ c \notin pushed
  /\ \A d, e \in pushed : d = e
  /\ \A d \in pushed : Stage(d) = "waiting" /\ Stage(d)' = "closed"
  /\ Stage(c)' = to
  /\ \A d \in Chats : d # c /\ d \notin pushed => Stage(d)' = Stage(d)

(* The facts of Moves are a move of the abstract delivery. *)
LEMMA AbstractMove ==
  ASSUME NEW c \in Chats, NEW to, NEW pushed, Moves(c, to, pushed)
  PROVE  Delivery!Move(c, to, pushed) /\ Delivery!AtMostOneWaiting(pushed)
BY DEF Moves, Delivery!Move, Delivery!AtMostOneWaiting

(* A chat that arrives, pushing out at most one, is the step Receive. *)
LEMMA AbstractReceive ==
  ASSUME NEW c \in Chats, NEW pushed, Moves(c, "waiting", pushed),
         Stage(c) = "unsent", runs' = runs
  PROVE  Delivery!Next
<1>1. pushed \in SUBSET Chats
  BY DEF Moves
<1>2. Delivery!Receive(c, pushed)
  BY AbstractMove DEF Delivery!Receive
<1>. QED
  BY <1>1, <1>2 DEF Delivery!Next

(* A timed-out chat that waits again is the step Retry. *)
LEMMA AbstractRetry ==
  ASSUME NEW c \in Chats, NEW pushed, Moves(c, "waiting", pushed),
         Stage(c) = "running", runs[c] < RetryLimit + 1, runs' = runs
  PROVE  Delivery!Next
<1>1. pushed \in SUBSET Chats
  BY DEF Moves
<1>2. Delivery!Retry(c, pushed)
  BY AbstractMove DEF Delivery!Retry
<1>. QED
  BY <1>1, <1>2 DEF Delivery!Next

(* A chat that ends is the step Close. *)
LEMMA AbstractClose ==
  ASSUME NEW c \in Chats, Moves(c, "closed", {}), Stage(c) = "running",
         runs' = runs
  PROVE  Delivery!Next
<1>1. Delivery!Close(c)
  BY AbstractMove DEF Delivery!Close
<1>. QED
  BY <1>1 DEF Delivery!Next

(* A chat the worker takes is the step Start. *)
LEMMA AbstractStart ==
  ASSUME NEW c \in Chats, Moves(c, "running", {}), Stage(c) = "waiting",
         \A d \in Chats : Stage(d) # "running",
         runs[c] < RetryLimit + 1, runs' = [runs EXCEPT ![c] = @ + 1]
  PROVE  Delivery!Next
<1>1. Delivery!Start(c)
  BY AbstractMove DEF Delivery!Start
<1>. QED
  BY <1>1 DEF Delivery!Next

(* A step that moves no chat is a stutter. *)
LEMMA AbstractStutter ==
  ASSUME \A d \in Chats : Stage(d)' = Stage(d), runs' = runs
  PROVE  UNCHANGED Delivery!vars
BY DEF Delivery!vars

Running(c) == worker.step = "processing" /\ worker.task = c

(* A chat that none of these facts changed for stays in its stage. *)
LEMMA StageKept ==
  ASSUME IInv, IInv', NEW d \in Chats,
         d > received' <=> d > received, fate'[d] = fate[d],
         Running(d)' <=> Running(d)
  PROVE  Stage(d)' = Stage(d)
<1>1. StageFacts(d) /\ StageFacts(d)'
  BY StageIs
<1>2. (d > received <=> ~(d <= received)) /\ (d > received' <=> ~(d <= received'))
  BY DEF IInv, TypeOK, Chats
<1>3. CASE d > received
  BY <1>1, <1>2, <1>3 DEF StageFacts
<1>4. CASE ~(d > received) /\ fate[d] # "open"
  BY <1>1, <1>2, <1>4 DEF StageFacts
<1>5. CASE ~(d > received) /\ fate[d] = "open"
  BY <1>1, <1>2, <1>5 DEF StageFacts, Running
<1>. QED
  BY <1>3, <1>4, <1>5

(* Every step of the queue is a step of the delivery, or a stutter. *)
LEMMA StepImplements ==
  IInv /\ IInv' /\ [Next]_vars => [Delivery!Next]_(Delivery!vars)
<1>. SUFFICES ASSUME IInv, IInv', [Next]_vars
              PROVE  Delivery!Next \/ UNCHANGED Delivery!vars
  OBVIOUS
<1>f. \A d \in Chats : StageFacts(d) /\ StageFacts(d)'
  BY StageIs
<1>t. TypeOK /\ TypeOK' /\ Links /\ (\A d \in Chats : OnePlace(d)) /\ Distinct
  BY PlacesSuffice DEF IInv
<1>n. /\ \A d \in Chats : d > received <=> ~(d <= received)
      /\ \A d \in Chats : d > received' <=> ~(d <= received')
  BY <1>t DEF TypeOK, Chats
<1>q. queue \in Seq(Chats) /\ Len(queue) \in Nat
  BY <1>t, LenProperties DEF TypeOK
<1>h. ASSUME queue # <<>>
      PROVE  /\ Head(queue) \in Chats /\ Queued(Head(queue))
             /\ Head(queue) <= received /\ fate[Head(queue)] = "open"
             /\ ~Held(Head(queue)) /\ ~AtDoor(Head(queue))
  <2>1. Head(queue) \in Chats /\ Queued(Head(queue))
    BY <1>h, <1>q, HeadTailProperties, EmptySeq DEF Queued
  <2>. QED
    BY <2>1, <1>t, <1>n DEF OnePlace
<1>1. CASE EnqueueChat
  <2>c. PICK c : c = received + 1
    OBVIOUS
  <2>1. /\ c \in Chats /\ c > received /\ ~(c > received') /\ fate[c] = "open"
        /\ \A d \in Chats : d # c => (d > received' <=> d > received)
    BY <2>c, <1>1, <1>t DEF EnqueueChat, Arrives, TypeOK, Chats, Links
  <2>2. UNCHANGED <<worker, runs, fate>> /\ ~Running(c)
    BY <1>1, <1>t, <2>1, <1>n DEF EnqueueChat, OnePlace, Held, Running
  <2>3. Stage(c) = "unsent" /\ Stage(c)' = "waiting"
    BY <2>1, <2>2, <1>f, <1>n DEF StageFacts, Running
  <2>4. \A d \in Chats : d # c => Stage(d)' = Stage(d)
    BY <2>1, <2>2, StageKept DEF Running
  <2>5. Moves(c, "waiting", {})
    BY <2>3, <2>4 DEF Moves
  <2>. QED
    BY <2>1, <2>2, <2>3, <2>5, AbstractReceive
<1>2. CASE EnqueueOverflow
  <2>c. PICK c : c = received + 1
    OBVIOUS
  <2>h. PICK h : h = Head(queue)
    OBVIOUS
  <2>1. queue # <<>>
    BY <1>2, <1>q, ChatQueueAssumption DEF EnqueueOverflow, DropOldest, Full
  <2>2. /\ h \in Chats /\ h <= received /\ fate[h] = "open" /\ ~Held(h)
        /\ fate' = [fate EXCEPT ![h] = "dropped"]
        /\ UNCHANGED <<worker, runs>>
    BY <2>1, <2>h, <1>2, <1>h DEF EnqueueOverflow, DropOldest
  <2>3. /\ c \in Chats /\ c > received /\ ~(c > received') /\ h <= received'
        /\ \A d \in Chats : d # c => (d > received' <=> d > received)
    BY <2>2, <2>c, <1>2, <1>t DEF EnqueueOverflow, Arrives, TypeOK, Chats
  <2>4. c # h /\ fate[c] = "open" /\ ~Held(c)
    BY <2>2, <2>3, <1>t, <1>n DEF Links, OnePlace
  <2>5. /\ fate'[h] = "dropped" /\ fate'[c] = "open"
        /\ \A d \in Chats : d # h => fate'[d] = fate[d]
    BY <2>2, <2>3, <2>4, <1>t DEF TypeOK
  <2>6. Stage(c) = "unsent" /\ Stage(c)' = "waiting"
    BY <2>2, <2>3, <2>4, <2>5, <1>f, <1>n DEF StageFacts, Held
  <2>7. Stage(h) = "waiting" /\ Stage(h)' = "closed"
    BY <2>2, <2>3, <2>5, <1>f DEF StageFacts, Held
  <2>8. \A d \in Chats : d # c /\ d # h => Stage(d)' = Stage(d)
    BY <2>2, <2>3, <2>5, StageKept DEF Running
  <2>9. Moves(c, "waiting", {h})
    BY <2>2, <2>4, <2>6, <2>7, <2>8 DEF Moves
  <2>. QED
    BY <2>2, <2>3, <2>6, <2>9, AbstractReceive
<1>3. ASSUME NEW c \in Chats, CallerResumes(c) PROVE UNCHANGED Delivery!vars
  <2>1. UNCHANGED <<received, worker, runs, fate>>
    BY <1>3 DEF CallerResumes, EnqueueBlocks, EnqueuePuts
  <2>2. \A d \in Chats : Stage(d)' = Stage(d)
    BY <2>1, StageKept DEF Running
  <2>. QED
    BY <2>1, <2>2, AbstractStutter
<1>5. CASE WorkerGet
  <2>h. PICK h : h = Head(queue)
    OBVIOUS
  <2>1. /\ h \in Chats /\ h <= received /\ fate[h] = "open" /\ Queued(h)
        /\ worker.step = "getting" /\ ~AtDoor(h)
        /\ worker' = [step |-> "processing", task |-> h]
        /\ runs' = [runs EXCEPT ![h] = @ + 1]
        /\ UNCHANGED <<received, fate>>
    BY <1>5, <1>h, <2>h DEF WorkerGet
  <2>2. Stage(h) = "waiting" /\ Stage(h)' = "running"
    BY <2>1, <1>f DEF StageFacts
  <2>3. \A d \in Chats : d # h => Stage(d)' = Stage(d)
    BY <2>1, StageKept DEF Running
  <2>4. Moves(h, "running", {})
    BY <2>2, <2>3 DEF Moves
  <2>5. \A d \in Chats : Stage(d) # "running"
    BY <2>1, <1>f, <1>n DEF StageFacts
  <2>6. runs[h] < RetryLimit + 1
    <3>1. runs[h] = retryCount[h]
      BY <2>1 DEF IInv, RunsBounded, Waiting
    <3>. QED
      BY <3>1, <2>1, ChatQueueAssumption DEF IInv, TypeOK
  <2>. QED
    BY <2>1, <2>2, <2>4, <2>5, <2>6, AbstractStart
<1>p. ASSUME worker.step = "processing"
      PROVE  /\ worker.task \in Chats /\ worker.task <= received
             /\ fate[worker.task] = "open" /\ ~Queued(worker.task)
             /\ Stage(worker.task) = "running"
             /\ runs[worker.task] = retryCount[worker.task] + 1
  <2>1. worker.task \in Chats
    BY <1>p, <1>t DEF Links, TypeOK
  <2>. QED
    BY <2>1, <1>p, <1>t, <1>n, <1>f DEF Links, OnePlace, Held, StageFacts
<1>6. CASE WorkerSkip \/ \E outcome \in {"done", "failed"} : WorkerFinish(outcome)
  <2>t. PICK t : t = worker.task
    OBVIOUS
  <2>1. /\ worker.step = "processing" /\ worker'.step # "processing"
        /\ UNCHANGED <<received, runs>>
        /\ \E o \in {"skipped", "done", "failed"} : fate' = [fate EXCEPT ![t] = o]
    BY <1>6, <1>t, <2>t DEF WorkerSkip, WorkerFinish, NextTask, TypeOK
  <2>2. t \in Chats /\ t <= received /\ Stage(t) = "running"
    BY <2>1, <2>t, <1>p
  <2>3. fate'[t] # "open" /\ \A d \in Chats : d # t => fate'[d] = fate[d]
    BY <2>1, <2>2, <1>t DEF TypeOK
  <2>4. Stage(t)' = "closed"
    BY <2>1, <2>2, <2>3, <1>f DEF StageFacts
  <2>5. \A d \in Chats : d # t => Stage(d)' = Stage(d)
    BY <2>t, <2>1, <2>3, StageKept DEF Running
  <2>6. Moves(t, "closed", {})
    BY <2>4, <2>5 DEF Moves
  <2>. QED
    BY <2>1, <2>2, <2>6, AbstractClose
<1>7. CASE WorkerRequeue
  <2>t. PICK t : t = worker.task
    OBVIOUS
  <2>1. /\ worker.step = "processing" /\ worker'.step # "processing"
        /\ retryCount[t] < RetryLimit
        /\ UNCHANGED <<received, runs, fate>>
    BY <1>7, <2>t DEF WorkerRequeue, CanRetry, NextTask
  <2>2. /\ t \in Chats /\ t <= received /\ fate[t] = "open"
        /\ Stage(t) = "running" /\ runs[t] = retryCount[t] + 1
    BY <2>1, <2>t, <1>p
  <2>3. runs[t] < RetryLimit + 1
    BY <2>1, <2>2, <1>t, ChatQueueAssumption DEF TypeOK
  <2>4. Stage(t)' = "waiting"
    BY <2>1, <2>2, <1>f DEF StageFacts
  <2>5. \A d \in Chats : d # t => Stage(d)' = Stage(d)
    BY <2>t, <2>1, StageKept DEF Running
  <2>6. Moves(t, "waiting", {})
    BY <2>4, <2>5 DEF Moves
  <2>. QED
    BY <2>1, <2>2, <2>3, <2>6, AbstractRetry
<1>8. CASE WorkerOverflow
  <2>t. PICK t : t = worker.task
    OBVIOUS
  <2>h. PICK h : h = Head(queue)
    OBVIOUS
  <2>q. queue # <<>>
    BY <1>8, <1>q, ChatQueueAssumption DEF WorkerOverflow, DropOldest, Full
  <2>1. /\ worker.step = "processing" /\ worker'.step # "processing"
        /\ retryCount[t] < RetryLimit
        /\ fate' = [fate EXCEPT ![h] = "dropped"]
        /\ UNCHANGED <<received, runs>>
    BY <1>8, <2>t, <2>h, <1>t DEF WorkerOverflow, CanRetry, DropOldest, TypeOK
  <2>2. /\ t \in Chats /\ t <= received /\ fate[t] = "open" /\ ~Queued(t)
        /\ Stage(t) = "running" /\ runs[t] = retryCount[t] + 1
    BY <2>1, <2>t, <1>p
  <2>3. /\ h \in Chats /\ h <= received /\ fate[h] = "open" /\ Queued(h)
        /\ ~Held(h)
    BY <2>q, <2>h, <1>h
  <2>4. /\ h # t /\ fate'[h] = "dropped" /\ fate'[t] = "open"
        /\ \A d \in Chats : d # h => fate'[d] = fate[d]
    BY <2>1, <2>2, <2>3, <1>t DEF TypeOK
  <2>5. runs[t] < RetryLimit + 1
    BY <2>1, <2>2, <1>t, ChatQueueAssumption DEF TypeOK
  <2>6. Stage(t)' = "waiting" /\ Stage(h)' = "closed"
    BY <2>1, <2>2, <2>3, <2>4, <1>f DEF StageFacts
  <2>7. Stage(h) = "waiting"
    BY <2>t, <2>3, <2>4, <1>f DEF StageFacts
  <2>8. \A d \in Chats : d # t /\ d # h => Stage(d)' = Stage(d)
    BY <2>t, <2>1, <2>4, StageKept DEF Running
  <2>9. Moves(t, "waiting", {h})
    BY <2>3, <2>4, <2>6, <2>7, <2>8 DEF Moves
  <2>. QED
    BY <2>1, <2>2, <2>5, <2>9, AbstractRetry
<1>9. CASE WorkerBlocks \/ WorkerPuts \/ WorkerSkipped
  <2>1. UNCHANGED <<received, runs, fate>>
    BY <1>9 DEF WorkerBlocks, WorkerPuts, WorkerSkipped
  <2>2. worker.step # "processing" /\ worker'.step # "processing"
    BY <1>9, <1>t DEF WorkerBlocks, WorkerPuts, WorkerSkipped, NextTask, TypeOK
  <2>3. \A d \in Chats : Stage(d)' = Stage(d)
    BY <2>1, <2>2, StageKept DEF Running
  <2>. QED
    BY <2>1, <2>3, AbstractStutter
<1>13. CASE UNCHANGED vars
  <2>1. \A d \in Chats : Stage(d)' = Stage(d)
    BY <1>13, StageKept DEF vars, Running
  <2>. QED
    BY <1>13, <2>1, AbstractStutter DEF vars
<1>. QED
  BY <1>1, <1>2, <1>3, <1>5, <1>6, <1>7, <1>8, <1>9, <1>13
  DEF Next, Enqueue, Worker, ProcessingEnds

(* The queue starts where the delivery starts. *)
LEMMA InitImplements == Init => Delivery!Init
<1>. SUFFICES ASSUME Init PROVE Delivery!Init
  OBVIOUS
<1>1. \A c \in Chats : Stage(c) = "unsent"
  BY InitIInv, StageIs, ChatQueueAssumption DEF StageFacts, Init, Chats
<1>. QED
  BY <1>1 DEF Init, Delivery!Init

(* However arrivals, timeouts, drops and requeues interleave, what happens to
   the chats is what ChatDelivery allows: one is processed at a time, none more
   than timeout_retry_limit + 1 times, an arrival or a requeue pushes out at
   most one waiting chat, and a chat that has ended never comes back. *)
THEOREM QueueDelivers == Spec => ImplementsDelivery
<1>1. IInv /\ IInv' /\ [Next]_vars => [Delivery!Next]_(Delivery!vars)
  BY StepImplements
<1>2. Spec => []IInv
  BY Invariance
<1>. QED
  BY <1>1, <1>2, InitImplements, PTL DEF Spec, ImplementsDelivery, Delivery!Spec
=============================================================================
