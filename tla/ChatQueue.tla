----------------------------- MODULE ChatQueue -----------------------------
(***************************************************************************)
(* The chat queue of the Python agent (python/runtime/chat_queue.py).      *)
(*                                                                         *)
(* Every WebSocket connection calls enqueue_chat; one background task runs *)
(* worker().  Both run on one asyncio event loop, so the code between two  *)
(* awaits is atomic: an action below is one such stretch, and the          *)
(* suspension points are `await say`, `await queue.put` on a full queue,   *)
(* `await queue.get` on an empty one and the processing of a chat.         *)
(*                                                                         *)
(* A chat is the number of its arrival: chat 1 came before chat 2.         *)
(* MaxChats bounds how many arrive.  What a chat says, the wording of the  *)
(* notices, the logs and the clock are left out.                           *)
(***************************************************************************)
EXTENDS Integers, Sequences, FiniteSets

CONSTANTS MaxChats,    \* how many chats arrive (a bound of the model)
          Connections, \* how many WebSocket clients send chats
          MaxSize,     \* asyncio.Queue(maxsize); 0 is unbounded
          RetryLimit   \* timeout_retry_limit

ASSUME ChatQueueAssumption ==
  /\ MaxChats \in Nat
  /\ Connections \in Nat
  /\ MaxSize \in Nat
  /\ RetryLimit \in Nat

VARIABLES
  queue,       \* the chats in the asyncio.Queue, oldest put first
  unfinished,  \* the queue's counter of unfinished tasks: put adds 1, task_done takes 1
  received,    \* how many chats have called enqueue_chat
  caller,      \* where the enqueue_chat of each chat stands
  worker,      \* where worker() stands, and the task it holds
  retryCount,  \* ChatTask.retry_count
  runs,        \* how often process_task was started for the chat
  fate         \* how the chat ended

vars == <<queue, unfinished, received, caller, worker, retryCount, runs, fate>>

Chats  == 1..MaxChats
NoTask == 0

CallerStep == {"unsent", "notifying", "putting", "returned"}
WorkerStep == {"getting", "processing", "notifying", "putting", "skipping"}
Fate       == {"open", "done", "failed", "skipped", "dropped"}

TypeOK ==
  /\ queue \in Seq(Chats)
  /\ unfinished \in Int
  /\ received \in 0..MaxChats
  /\ caller \in [Chats -> CallerStep]
  /\ worker \in [step : WorkerStep, task : Chats \cup {NoTask}]
  /\ retryCount \in [Chats -> 0..RetryLimit]
  /\ runs \in [Chats -> Nat]
  /\ fate \in [Chats -> Fate]

Init ==
  /\ queue = <<>>
  /\ unfinished = 0
  /\ received = 0
  /\ caller = [c \in Chats |-> "unsent"]
  /\ worker = [step |-> "getting", task |-> NoTask]
  /\ retryCount = [c \in Chats |-> 0]
  /\ runs = [c \in Chats |-> 0]
  /\ fate = [c \in Chats |-> "open"]

Full == MaxSize > 0 /\ Len(queue) >= MaxSize

(* put on a queue that is not full completes without suspending. *)
Put(c) ==
  /\ ~Full
  /\ queue' = Append(queue, c)

(* Mutant of DropOldest: get_nowait without the task_done. *)
DropUncounted ==
  /\ Full
  /\ queue' = Tail(queue)
  /\ fate' = [fate EXCEPT ![Head(queue)] = "dropped"]
  /\ UNCHANGED unfinished

(* _handle_queue_overflow up to its await: the oldest task leaves the queue
   and is marked done, whoever the newcomer is. *)
DropOldest ==
  /\ Full
  /\ queue' = Tail(queue)
  /\ unfinished' = unfinished - 1
  /\ fate' = [fate EXCEPT ![Head(queue)] = "dropped"]

-----------------------------------------------------------------------------
(* enqueue_chat *)

AtDoor(c) == caller[c] \in {"notifying", "putting"}

(* AgentWebSocketServer.handler awaits the enqueue_chat of one message before
   it reads the connection's next one. *)
Arrives(c) ==
  /\ received < MaxChats
  /\ Cardinality({d \in Chats : AtDoor(d)}) < Connections
  /\ received' = c

EnqueueChat ==
  LET c == received + 1
  IN /\ Arrives(c)
     /\ Put(c)
     /\ unfinished' = unfinished + 1
     /\ caller' = [caller EXCEPT ![c] = "returned"]
     /\ UNCHANGED <<worker, retryCount, runs, fate>>

EnqueueOverflow ==
  LET c == received + 1
  IN /\ Arrives(c)
     /\ DropOldest
     /\ caller' = [caller EXCEPT ![c] = "notifying"]
     /\ UNCHANGED <<worker, retryCount, runs>>

(* The overflow notice is out; put finds the queue refilled and waits. *)
EnqueueBlocks(c) ==
  /\ caller[c] = "notifying"
  /\ Full
  /\ caller' = [caller EXCEPT ![c] = "putting"]
  /\ UNCHANGED <<queue, unfinished, received, worker, retryCount, runs, fate>>

(* The put after the notice, at once or when a get has freed a slot. *)
EnqueuePuts(c) ==
  /\ caller[c] \in {"notifying", "putting"}
  /\ Put(c)
  /\ unfinished' = unfinished + 1
  /\ caller' = [caller EXCEPT ![c] = "returned"]
  /\ UNCHANGED <<received, worker, retryCount, runs, fate>>

-----------------------------------------------------------------------------
(* worker *)

WorkerGet ==
  /\ worker.step = "getting"
  /\ queue # <<>>
  /\ queue' = Tail(queue)
  /\ worker' = [step |-> "processing", task |-> Head(queue)]
  /\ runs' = [runs EXCEPT ![Head(queue)] = @ + 1]
  /\ UNCHANGED <<unfinished, received, caller, retryCount, fate>>

(* The `finally` of the loop: task_done, then back to queue.get(). *)
NextTask == worker' = [step |-> "getting", task |-> NoTask]

(* process_task returns, or raises something else than a timeout. *)
WorkerFinish(outcome) ==
  /\ worker.step = "processing"
  /\ fate' = [fate EXCEPT ![worker.task] = outcome]
  /\ unfinished' = unfinished - 1
  /\ NextTask
  /\ UNCHANGED <<queue, received, caller, retryCount, runs>>

(* Mutant of CanRetry: one retry too many. *)
RetriesOnceMore == retryCount[worker.task] <= RetryLimit

CanRetry == retryCount[worker.task] < RetryLimit

(* TimeoutError with retries left and room in the queue: put adds one to the
   counter and the finally takes one. *)
WorkerRequeue ==
  /\ worker.step = "processing"
  /\ CanRetry
  /\ retryCount' = [retryCount EXCEPT ![worker.task] = @ + 1]
  /\ Put(worker.task)
  /\ NextTask
  /\ UNCHANGED <<unfinished, received, caller, runs, fate>>

(* TimeoutError with retries left and a full queue: the oldest waiting chat
   makes room for the timed-out one. *)
WorkerOverflow ==
  /\ worker.step = "processing"
  /\ CanRetry
  /\ retryCount' = [retryCount EXCEPT ![worker.task] = @ + 1]
  /\ DropOldest
  /\ worker' = [worker EXCEPT !.step = "notifying"]
  /\ UNCHANGED <<received, caller, runs>>

(* Mutant of WorkerBlocks: put_nowait, its QueueFull caught by the loop. *)
WorkerGivesUp ==
  /\ worker.step = "notifying"
  /\ Full
  /\ unfinished' = unfinished - 1
  /\ NextTask
  /\ UNCHANGED <<queue, received, caller, retryCount, runs, fate>>

WorkerBlocks ==
  /\ worker.step = "notifying"
  /\ Full
  /\ worker' = [worker EXCEPT !.step = "putting"]
  /\ UNCHANGED <<queue, unfinished, received, caller, retryCount, runs, fate>>

WorkerPuts ==
  /\ worker.step \in {"notifying", "putting"}
  /\ Put(worker.task)
  /\ NextTask
  /\ UNCHANGED <<unfinished, received, caller, retryCount, runs, fate>>

(* TimeoutError with no retry left: the chat is given up, then the notice. *)
WorkerSkip ==
  /\ worker.step = "processing"
  /\ ~CanRetry
  /\ fate' = [fate EXCEPT ![worker.task] = "skipped"]
  /\ worker' = [worker EXCEPT !.step = "skipping"]
  /\ UNCHANGED <<queue, unfinished, received, caller, retryCount, runs>>

(* Mutant of WorkerSkipped: the loop is left after a skipped chat. *)
WorkerReturns ==
  /\ worker.step = "skipping"
  /\ unfinished' = unfinished - 1
  /\ worker' = [step |-> "returned", task |-> NoTask]
  /\ UNCHANGED <<queue, received, caller, retryCount, runs, fate>>

WorkerSkipped ==
  /\ worker.step = "skipping"
  /\ unfinished' = unfinished - 1
  /\ NextTask
  /\ UNCHANGED <<queue, received, caller, retryCount, runs, fate>>

-----------------------------------------------------------------------------
Enqueue == EnqueueChat \/ EnqueueOverflow

CallerResumes(c) == EnqueueBlocks(c) \/ EnqueuePuts(c)

ProcessingEnds ==
  \/ \E outcome \in {"done", "failed"} : WorkerFinish(outcome)
  \/ WorkerRequeue
  \/ WorkerOverflow
  \/ WorkerSkip

Worker ==
  \/ WorkerGet
  \/ ProcessingEnds
  \/ WorkerBlocks
  \/ WorkerPuts
  \/ WorkerSkipped

Next == Enqueue \/ Worker \/ \E c \in Chats : CallerResumes(c)

(* The event loop runs every coroutine that can go on; wait_for ends every
   processing; say ends because bridge_ws.send bounds each of its stages.
   Nothing makes a player send another chat. *)
Fairness == WF_vars(Worker) /\ \A c \in Chats : WF_vars(CallerResumes(c))

Spec     == Init /\ [][Next]_vars
FairSpec == Spec /\ Fairness

-----------------------------------------------------------------------------
(* Properties *)

Queued(c)  == \E i \in 1..Len(queue) : queue[i] = c
Held(c)    == worker.task = c /\ worker.step # "skipping"
Waiting(c) == AtDoor(c) \/ Queued(c) \/ (Held(c) /\ worker.step # "processing")

(* The counter that queue.join() relies on never drifts: it is the chats in
   the queue plus the one the worker has taken and not marked done, through
   every drop, requeue, skip and failure ("未完了カウンタの不整合を防ぐ"). *)
UnfinishedMatches ==
  unfinished = Len(queue) + (IF worker.step = "getting" THEN 0 ELSE 1)

(* No chat is lost and none is duplicated: a chat that came and has not
   ended is at exactly one of the three places that can lead it on - its
   own enqueue_chat, one slot of the queue, the worker - and a chat that has
   ended, or has not come, is at none. *)
Accounted ==
  /\ \A c \in Chats :
       /\ c > received \/ fate[c] # "open" =>
            ~AtDoor(c) /\ ~Queued(c) /\ ~Held(c)
       /\ c <= received /\ fate[c] = "open" =>
            /\ AtDoor(c) \/ Queued(c) \/ Held(c)
            /\ ~(AtDoor(c) /\ Queued(c))
            /\ ~(AtDoor(c) /\ Held(c))
            /\ ~(Queued(c) /\ Held(c))
  /\ \A i, j \in 1..Len(queue) : queue[i] = queue[j] => i = j

(* The bound of the queue holds although callers and the worker put after
   they were suspended in a notice. *)
Bounded == MaxSize > 0 => Len(queue) <= MaxSize

(* A chat is processed at most once more than the retry limit, and the
   starts are the ones its retry count accounts for. *)
RunsBounded ==
  \A c \in Chats :
    /\ runs[c] <= RetryLimit + 1
    /\ Waiting(c) => runs[c] = retryCount[c]

(* worker() waits in its own put for a slot that only worker(), or the
   overflow of a later enqueue_chat, can free. *)
WorkerBlocked == worker.step = "putting" /\ Full

(* Every chat that came is processed, dropped or skipped in the end, unless
   the worker has blocked itself for good. *)
SettledOrBlocked ==
  \A c \in Chats : (c <= received) ~> (fate[c] # "open" \/ []WorkerBlocked)

(* Every chat that came ends.  The notices of the queue promise that the
   latest instruction is given priority (chat_queue.py:145), and yet, with a
   bounded queue, the worker may wait for ever in front of it. *)
Settled == \A c \in Chats : (c <= received) ~> (fate[c] # "open")

(* The abstract state of a chat: a chat held by its caller, by the queue or by
   the worker in front of its put is waiting. *)
Stage(c) ==
  CASE c > received            -> "unsent"
    [] fate[c] # "open"        -> "closed"
    [] worker = [step |-> "processing", task |-> c] -> "running"
    [] OTHER                   -> "waiting"

Delivery == INSTANCE ChatDelivery
              WITH MaxRuns <- RetryLimit + 1,
                   stage   <- [c \in Chats |-> Stage(c)],
                   starts  <- runs

(* The queue implements ChatDelivery: a chat is processed one at a time and
   at most RetryLimit + 1 times, however arrivals, timeouts, drops and
   requeues interleave, and a closed chat is never started again. *)
ImplementsDelivery == Delivery!Spec

=============================================================================
