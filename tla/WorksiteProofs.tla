--------------------------- MODULE WorksiteProofs ---------------------------
(***************************************************************************)
(* What the tunnel mode and the building checkpoint promise, for every     *)
(* size of tunnel, window, buffer, layout and batch, set of materials, and *)
(* number of retries, faults and rollbacks.                                *)
(*                                                                         *)
(* The tunnel.  Its invariant has two layers.  Base says who is under way: *)
(* what each request and each task of the main thread is about, that the   *)
(* numbers tell them apart, that each start makes a job of its own, and    *)
(* that there are no more starts than faults, but one.  The plugin's       *)
(* actions are shown to keep Base, and to have Effect on the rest, by      *)
(* three classes: a request is answered, it is handed over to the main     *)
(* thread, a task is over.  The second layer then speaks of the state as   *)
(* the miner sees it: AdvancesCounted, AfterLiquid, Reached, Covering and  *)
(* Tidy, each of which is shown for the miner, its timeouts and Effect.    *)
(*                                                                         *)
(* The building.  CountIsTrue needs that the count never passes the        *)
(* layout, and NoWayBack that a job which has come to its placement has    *)
(* reserved all that its last building step knew it needs: Secured.        *)
(* Nothing is placed before there is a layout: InLayout.                   *)
(***************************************************************************)
EXTENDS TunnelMining, BuildingPhases, FiniteSetTheorems, SequenceTheorems, TLAPS

(* TunnelMining *)

Under == late \cup {req}

Statuses == {"none", "sent", "waiting", "ran", "done"}
Answers == {"none", "ok", "unsafe", "liquid", "finished", "error"}
Reqs == [op : Ops, job : {0} \cup Jobs, step : 0..Length, n : Nat, st : Statuses, ans : Answers,
         mask : SUBSET Slices]
Tasks == [op : {"start", "advance", "stop"}, job : Jobs, n : Nat]

TunnelTyped ==
  /\ pc \in Ops \cup {"idle", "done"}
  /\ step \in Nat /\ step <= Length /\ job \in Nat /\ job <= issued
  /\ req \in Reqs /\ late \subseteq Reqs
  /\ tasks \in Seq(Tasks)
  /\ issued \in Nat /\ registry \subseteq 1..issued
  /\ progress \in [Jobs -> 0..Length] /\ blocked \in [Jobs -> BOOLEAN] /\ region \in [Jobs -> Int]
  /\ \A j \in Jobs : region[j] # NoRegion => j <= issued
  /\ allowed \subseteq Slices /\ offered \subseteq Slices
  /\ faults \in 0..MaxFaults
  /\ found \in BOOLEAN /\ after \in Nat

(* What the miner waits for.                                               *)
MinerSays ==
  /\ pc = "idle" => req.st = "none" /\ late = {} /\ tasks = <<>> /\ issued = 0
  /\ pc \in {"idle", "start"} => job = 0 /\ step = 0
  /\ pc \in Ops => req.op = pc /\ req.st # "none"
  /\ pc \in Ops \ {"start"} => job > 0 /\ req.step = step
  /\ pc \in {"eval", "coreprotect"} => step < Length
  /\ pc = "advance" => step > 0
  /\ pc = "done" => req.st = "done"

(* What the requests and the tasks are about.                              *)
RequestsSay ==
  /\ \A r \in late : r.st \in {"sent", "waiting", "ran"}
  /\ \A r \in Under :
       /\ r.op # "start" => r.job = job /\ job > 0
       /\ r.st \in {"waiting", "ran"} => r.op \in {"start", "advance", "stop"} /\ r.job \in 1..issued
       /\ r.op = "start" /\ r.st = "done" /\ r.ans = "ok" => r.job \in 1..issued
       /\ pc \in {"idle", "start"} => r.op = "start"

TasksSay ==
  \A i \in 1..Len(tasks) : tasks[i].job <= issued /\ (tasks[i].op # "start" => tasks[i].job = job)

(* Requests under way have numbers of their own, and a task has that of    *)
(* the request that waits for it.                                          *)
Numbered ==
  /\ req.n <= faults
  /\ \A r \in late : r.n < req.n
  /\ \A r, q \in late : r.n = q.n => r = q
  /\ \A i \in 1..Len(tasks) : tasks[i].n <= req.n
  /\ \A i, k \in 1..Len(tasks) : tasks[i].n = tasks[k].n => i = k
  /\ \A i \in 1..Len(tasks), r \in Under : tasks[i].n = r.n =>
       \/ r.st = "waiting" /\ tasks[i].op = r.op /\ tasks[i].job = r.job
       \/ r.st = "done" /\ r.n < faults

(* Each start makes a job of its own, and the miner has one of them.       *)
OwnJobs ==
  /\ \A i, k \in 1..Len(tasks) :
       tasks[i].op = "start" /\ tasks[k].op = "start" /\ tasks[i].job = tasks[k].job => i = k
  /\ \A i \in 1..Len(tasks), r \in Under :
       tasks[i].op = "start" /\ r.op = "start" /\ (r.st = "ran" \/ (r.st = "done" /\ r.ans = "ok"))
         => tasks[i].job # r.job
  /\ \A i \in 1..Len(tasks) : tasks[i].op = "start" => tasks[i].job # job

(* The starts that may still make a job.                                   *)
Starts == {n \in 0..MaxFaults : \E r \in Under : r.n = n /\ r.op = "start" /\ r.st = "sent"}
StartCount == issued + Cardinality(Starts)

StartsCounted == pc # "idle" => StartCount <= faults + 1

(* The advances that may still move a job.                                 *)
Advances ==
  {n \in 0..MaxFaults : \/ \E r \in Under : r.n = n /\ r.op = "advance" /\ r.st = "sent"
                        \/ \E i \in 1..Len(tasks) : tasks[i].n = n /\ tasks[i].op = "advance"}

(* Of what the miner gave up only starts are under way.                    *)
Settled ==
  /\ \A r \in late : r.op = "start"
  /\ \A i \in 1..Len(tasks) : tasks[i].op = "start" \/ (tasks[i].n = req.n /\ req.st = "waiting")

Base == /\ TunnelTyped /\ MinerSays /\ RequestsSay /\ TasksSay /\ Numbered /\ OwnJobs
        /\ StartsCounted

-----------------------------------------------------------------------------
(* Operators. *)

LEMMA Sizes ==
  /\ Length \in Nat /\ Length >= 1 /\ Window \in Nat /\ Window >= 1
  /\ Buffer \in Nat /\ Retry \in Nat /\ MaxFaults \in Nat /\ MaxFlows \in Nat
BY TunnelSizes, TunnelBounds

LEMMA Fewer ==
  ASSUME NEW S \in SUBSET (0..MaxFaults), NEW T \in SUBSET (0..MaxFaults)
  PROVE  /\ Cardinality(S) \in Nat /\ Cardinality(T) \in Nat
         /\ T \subseteq S => Cardinality(T) <= Cardinality(S)
         /\ \A x : T \subseteq S \cup {x} => Cardinality(T) <= Cardinality(S) + 1
         /\ \A x \in S : T \subseteq S \ {x} => Cardinality(T) <= Cardinality(S) - 1
<1>1. IsFiniteSet(0..MaxFaults)
  BY FS_Interval, Sizes
<1>2. IsFiniteSet(S) /\ IsFiniteSet(T)
  BY <1>1, FS_Subset
<1>3. Cardinality(S) \in Nat /\ Cardinality(T) \in Nat
  BY <1>2, FS_CardinalityType
<1>4. T \subseteq S => Cardinality(T) <= Cardinality(S)
  BY <1>2, FS_Subset
<1>5. ASSUME NEW x, T \subseteq S \cup {x}
      PROVE  Cardinality(T) <= Cardinality(S) + 1
  <2>1. IsFiniteSet(S \cup {x}) /\ Cardinality(S \cup {x}) <= Cardinality(S) + 1
    <3>1. Cardinality(S \cup {x}) = IF x \in S THEN Cardinality(S) ELSE Cardinality(S) + 1
      BY <1>2, FS_AddElement
    <3>2. IsFiniteSet(S \cup {x})
      BY <1>2, FS_AddElement
    <3> QED BY <1>3, <3>1, <3>2
  <2>2. Cardinality(T) <= Cardinality(S \cup {x}) /\ Cardinality(S \cup {x}) \in Nat
    BY <1>5, <2>1, FS_Subset, FS_CardinalityType
  <2> QED BY <1>3, <2>1, <2>2
<1>6. ASSUME NEW x \in S, T \subseteq S \ {x}
      PROVE  Cardinality(T) <= Cardinality(S) - 1
  <2>1. IsFiniteSet(S \ {x}) /\ Cardinality(S \ {x}) = Cardinality(S) - 1
    BY <1>2, <1>3, FS_RemoveElement
  <2>2. Cardinality(T) <= Cardinality(S \ {x})
    BY <1>6, <2>1, FS_Subset
  <2> QED BY <2>1, <2>2
<1> QED BY <1>3, <1>4, <1>5, <1>6

LEMMA NumbersDiffer ==
  ASSUME TunnelTyped, Numbered, NEW x \in Under, NEW y \in Under, x.n = y.n
  PROVE  x = y
BY DEF TunnelTyped, Numbered, Under, Reqs

LEMMA BecomesOne ==
  ASSUME TunnelTyped, Numbered, NEW r \in Under, NEW q, q.n = r.n, Become(r, q)
  PROVE  /\ \A x \in Under' : x = q \/ (x \in Under /\ x # r /\ x.n # r.n)
         /\ \A x \in late' : x \in late \/ (x = q /\ q.st # "done")
         /\ \/ r = req /\ req' = q /\ late' = late
            \/ r \in late /\ r # req /\ req' = req
<1>1. \A x \in Under : x.n = r.n => x = r
  BY NumbersDiffer
<1>2. req \notin late
  BY DEF TunnelTyped, Numbered, Reqs
<1>3. CASE r = req
  BY <1>1, <1>2, <1>3 DEF Become, Under
<1>4. CASE r # req
  <2>1. late' = (late \ {r}) \cup (IF q.st = "done" THEN {} ELSE {q}) /\ req' = req
    BY <1>4 DEF Become
  <2>2. r \in late
    BY <1>4 DEF Under
  <2>3. \A x \in late' : x = q \/ (x \in late /\ x # r)
    BY <2>1
  <2>4. \A x \in late' : x \in late \/ (x = q /\ q.st # "done")
    BY <2>1
  <2>5. \A x \in Under' : x = q \/ (x \in Under /\ x # r)
    BY <1>4, <2>1, <2>3 DEF Under
  <2> QED BY <1>1, <1>4, <2>1, <2>2, <2>4, <2>5
<1> QED BY <1>3, <1>4

LEMMA IssuedBound ==
  ASSUME Base
  PROVE  /\ issued \in Nat /\ issued <= MaxFaults + 1 /\ MaxFaults \in Nat /\ faults \in 0..MaxFaults
         /\ Starts \in SUBSET (0..MaxFaults) /\ Cardinality(Starts) \in Nat
         /\ pc # "idle" => issued <= faults + 1 /\ issued + Cardinality(Starts) <= faults + 1
<1>1. issued \in Nat /\ faults \in 0..MaxFaults /\ MaxFaults \in Nat
  BY Sizes DEF Base, TunnelTyped
<1>2. Starts \in SUBSET (0..MaxFaults) /\ Cardinality(Starts) \in Nat
  BY Fewer DEF Starts
<1>3. pc = "idle" => issued = 0
  BY DEF Base, MinerSays
<1>4. pc # "idle" => issued + Cardinality(Starts) <= faults + 1
  BY DEF Base, StartsCounted, StartCount
<1> QED BY <1>1, <1>2, <1>3, <1>4
-----------------------------------------------------------------------------
(* A request goes out. *)

LEMMA RequestSent ==
  ASSUME NEW op \in Ops, NEW j \in {0} \cup Jobs, NEW s \in 0..Length, NEW n \in Nat
  PROVE  /\ Request(op, j, s, n) \in Reqs
         /\ Request(op, j, s, n).op = op /\ Request(op, j, s, n).job = j /\ Request(op, j, s, n).step = s
         /\ Request(op, j, s, n).n = n /\ Request(op, j, s, n).st = "sent"
         /\ Request(op, j, s, n).ans = "none" /\ Request(op, j, s, n).mask = {}
BY DEF Request, Reqs, Statuses, Answers

(* The steps of the miner: a next request, of its next step, or the end.   *)
LEMMA MinerMoves ==
  ASSUME Base, Miner
  PROVE  /\ UNCHANGED <<late, tasks, issued, registry, progress, blocked, region, found, wet, faults, flows>>
         /\ \/ /\ pc' = "done" /\ pc \in {"start", "stop"} /\ req.st = "done"
               /\ pc = "start" => req.ans = "error"
               /\ UNCHANGED <<req, step, job, allowed, offered, after>>
            \/ \E op \in Ops :
                 /\ pc' = op /\ req' = Request(op, job', step', faults)
                 /\ \/ pc = "idle" /\ op = "start" /\ job' = job /\ step' = step
                    \/ /\ pc = "start" /\ op = "eval" /\ req.st = "done" /\ req.ans = "ok"
                       /\ job' = req.job /\ step' = step
                    \/ /\ pc = "eval" /\ op = "coreprotect" /\ req.st = "done" /\ req.ans \in {"ok", "unsafe"}
                       /\ job' = job /\ step' = step
                    \/ /\ pc = "coreprotect" /\ op = "advance" /\ req.st = "done"
                       /\ job' = job /\ step' = step + 1
                    \/ /\ pc = "advance" /\ op = "eval" /\ req.st = "done" /\ req.ans = "ok" /\ step < Length
                       /\ job' = job /\ step' = step
                    \/ /\ pc \in {"eval", "coreprotect", "advance"} /\ op = "stop" /\ req.st = "done"
                       /\ job' = job /\ step' = step
<1>1. UNCHANGED <<late, tasks, issued, registry, progress, blocked, region, found, wet, faults, flows>>
  BY DEF Miner, Run, Started, StartFailed, Evaluated, LiquidStop, LoopFails, HardStop, Mine, Advanced, Stopped,
         serverVars
<1>2. pc \in {"idle", "start"} => job = 0 /\ step = 0
  BY DEF Base, MinerSays
<1>3. CASE Run
  <2>1. pc = "idle" /\ pc' = "start" /\ req' = Request("start", 0, 0, faults) /\ job' = job /\ step' = step
    BY <1>3 DEF Run, Send
  <2> QED BY <1>1, <1>2, <2>1 DEF Ops
<1>4. CASE Started
  <2>1. /\ pc = "start" /\ req.st = "done" /\ req.ans = "ok" /\ job' = req.job /\ step' = step
        /\ pc' = "eval" /\ req' = Request("eval", req.job, 0, faults)
    BY <1>4 DEF Started, Answered, Send
  <2>2. req' = Request("eval", job', step', faults)
    BY <1>2, <2>1
  <2> QED BY <1>1, <2>1, <2>2 DEF Ops
<1>5. CASE StartFailed \/ Stopped
  BY <1>1, <1>5 DEF StartFailed, Stopped, Answered
<1>6. CASE Evaluated
  BY <1>1, <1>6 DEF Evaluated, Answered, Send, Ops
<1>7. CASE LiquidStop \/ LoopFails \/ HardStop
  BY <1>1, <1>7 DEF LiquidStop, LoopFails, HardStop, StopFor, Answered, Send, Ops
<1>8. CASE Mine
  BY <1>1, <1>8 DEF Mine, Answered, Send, Ops
<1>9. CASE Advanced
  <2>1. /\ pc = "advance" /\ req.st = "done" /\ job' = job /\ step' = step
    BY <1>9 DEF Advanced, Answered
  <2>2. CASE req.ans = "finished" \/ step >= Length
    <3>1. pc' = "stop" /\ req' = Request("stop", job, step, faults)
      BY <1>9, <2>2 DEF Advanced, StopFor, Send
    <3> QED BY <1>1, <2>1, <3>1 DEF Ops
  <2>3. CASE ~(req.ans = "finished" \/ step >= Length)
    <3>1. pc' = "eval" /\ req' = Request("eval", job, step, faults) /\ req.ans = "ok"
      BY <1>9, <2>3 DEF Advanced, Send, Answered
    <3>2. step < Length
      BY <2>3, Sizes DEF Base, TunnelTyped
    <3> QED BY <1>1, <2>1, <3>1, <3>2 DEF Ops
  <2> QED BY <2>2, <2>3
<1> QED BY <1>3, <1>4, <1>5, <1>6, <1>7, <1>8, <1>9 DEF Miner
LEMMA MinerStep ==
  ASSUME Base, Miner
  PROVE  Base' /\ (pc # "idle" => StartCount' <= StartCount)
<1> DEFINE sends(op) ==
      \/ pc = "idle" /\ op = "start" /\ job' = job /\ step' = step
      \/ /\ pc = "start" /\ op = "eval" /\ req.st = "done" /\ req.ans = "ok"
         /\ job' = req.job /\ step' = step
      \/ /\ pc = "eval" /\ op = "coreprotect" /\ req.st = "done" /\ req.ans \in {"ok", "unsafe"}
         /\ job' = job /\ step' = step
      \/ /\ pc = "coreprotect" /\ op = "advance" /\ req.st = "done"
         /\ job' = job /\ step' = step + 1
      \/ /\ pc = "advance" /\ op = "eval" /\ req.st = "done" /\ req.ans = "ok" /\ step < Length
         /\ job' = job /\ step' = step
      \/ /\ pc \in {"eval", "coreprotect", "advance"} /\ op = "stop" /\ req.st = "done"
         /\ job' = job /\ step' = step
<1>1. UNCHANGED <<late, tasks, issued, registry, progress, blocked, region, found, faults>>
  BY MinerMoves
<1>2. req \in Reqs /\ faults \in Nat /\ step \in Nat /\ job \in Nat /\ Length \in Nat
  BY Sizes DEF Base, TunnelTyped
<1>3. /\ allowed' \subseteq Slices /\ offered' \subseteq Slices /\ after' \in Nat
  BY <1>2 DEF Miner, Run, Started, StartFailed, Evaluated, LiquidStop, LoopFails, HardStop, Mine, Advanced, Stopped,
         StopFor, Send, Base, TunnelTyped, Reqs
<1>4. CASE /\ pc' = "done" /\ pc \in {"start", "stop"} /\ req.st = "done"
           /\ UNCHANGED <<req, step, job, allowed, offered, after>>
  <2>1. TunnelTyped'
    BY <1>1, <1>4 DEF Base, TunnelTyped
  <2>2. MinerSays' /\ RequestsSay' /\ TasksSay'
    BY <1>1, <1>4 DEF Base, MinerSays, RequestsSay, TasksSay, Under, Ops
  <2>3. Numbered' /\ OwnJobs'
    BY <1>1, <1>4 DEF Base, Numbered, OwnJobs, Under
  <2>4. StartCount' = StartCount
    BY <1>1, <1>4 DEF StartCount, Starts, Under
  <2>5. StartsCounted'
    BY <1>1, <1>4, <2>4 DEF Base, StartsCounted
  <2>6. StartCount \in Nat
    BY Fewer DEF StartCount, Starts, Base, TunnelTyped
  <2> QED BY <2>1, <2>2, <2>3, <2>4, <2>5, <2>6 DEF Base
<1>5. ASSUME NEW op \in Ops, pc' = op, req' = Request(op, job', step', faults), sends(op)
      PROVE  Base' /\ (pc # "idle" => StartCount' <= StartCount)
  <2>1. /\ job' \in Nat /\ job' <= issued /\ step' \in Nat /\ step' <= Length
        /\ op # "start" => job' > 0 /\ (pc # "start" => job' = job)
        /\ op = "start" => pc = "idle" /\ job' = 0 /\ step' = 0
        /\ op \in {"eval", "coreprotect"} => step' < Length
        /\ op = "advance" => step' > 0
    <3>1. CASE pc = "idle"
      BY <1>2, <1>5, <3>1 DEF Base, TunnelTyped, MinerSays
    <3>2. CASE pc = "start"
      <4>1. req.op = "start" /\ req \in Under /\ op = "eval" /\ req.ans = "ok" /\ req.st = "done" /\ job' = req.job
        BY <1>5, <3>2 DEF Base, MinerSays, Ops, Under
      <4>2. req.job \in 1..issued /\ step' = 0
        BY <1>5, <3>2, <4>1 DEF Base, RequestsSay, MinerSays
      <4> QED BY <3>2, <4>1, <4>2, Sizes DEF Base, TunnelTyped
    <3>3. CASE pc \in {"eval", "coreprotect", "advance"}
      BY <1>2, <1>5, <3>3 DEF Base, TunnelTyped, MinerSays, Ops
    <3> QED BY <1>5, <3>1, <3>2, <3>3
  <2>2. /\ req' \in Reqs /\ req'.op = op /\ req'.job = job' /\ req'.step = step' /\ req'.n = faults
        /\ req'.st = "sent" /\ req'.ans = "none"
    <3>1. job' \in {0} \cup Jobs /\ step' \in 0..Length
      BY <1>2, <2>1, IssuedBound DEF Jobs
    <3>2. req' = Request(op, job', step', faults) /\ faults \in Nat
      BY <1>2, <1>5
    <3> QED BY <3>1, <3>2, RequestSent
  <2>3. req.st \in {"none", "done"}
    BY <1>5 DEF Base, MinerSays
  <2>4. \A i \in 1..Len(tasks) : tasks[i].n < faults /\ tasks[i].n \in Nat
    <3> TAKE i \in 1..Len(tasks)
    <3>1. tasks[i] \in Tasks
      BY DEF Base, TunnelTyped
    <3>2. tasks[i].n \in Nat /\ tasks[i].n <= req.n /\ req.n <= faults /\ req.n \in Nat
      BY <1>2, <3>1 DEF Base, Numbered, Tasks, Reqs
    <3>3. tasks[i].n = req.n => req.st \in {"done", "waiting"} /\ (req.st = "done" => req.n < faults)
      BY DEF Base, Numbered, Under
    <3> QED BY <1>2, <2>3, <3>2, <3>3
  <2>5. \A r \in late : r.n < faults /\ r.n \in Nat
    <3> TAKE r \in late
    <3>1. r.n < req.n /\ req.n <= faults /\ r \in Reqs
      BY DEF Base, Numbered, TunnelTyped
    <3> QED BY <1>2, <3>1 DEF Reqs
  <2>6. TunnelTyped'
    BY <1>1, <1>3, <1>5, <2>1, <2>2 DEF Base, TunnelTyped
  <2>7. MinerSays'
    BY <1>5, <2>1, <2>2 DEF MinerSays, Ops
  <2>8. RequestsSay'
    <3>1. \A r \in late :
            /\ r.st \in {"sent", "waiting", "ran"}
            /\ r.op # "start" => pc \notin {"idle", "start"} /\ r.job = job /\ job > 0
            /\ (r.st \in {"waiting", "ran"} => r.op \in {"start", "advance", "stop"} /\ r.job \in 1..issued)
      BY DEF Base, RequestsSay, Under
    <3>2. late' = late /\ issued' = issued /\ \A r \in Under' : r \in late \/ r = req'
      BY <1>1 DEF Under
    <3>3. \A r \in late : op = "start" => FALSE
      BY <2>1 DEF Base, MinerSays
    <3>4. \A r \in late : r.op # "start" => r.job = job' /\ job' > 0
      BY <2>1, <3>1, <3>3
    <3> QED BY <1>5, <2>1, <2>2, <3>1, <3>2, <3>3, <3>4 DEF RequestsSay, Ops
  <2>9. TasksSay'
    <3>1. \A i \in 1..Len(tasks) : tasks[i].op # "start" => job > 0 /\ tasks[i].job = job
      <4> SUFFICES ASSUME NEW i \in 1..Len(tasks), tasks[i].op # "start"
                   PROVE  job > 0 /\ tasks[i].job = job
        OBVIOUS
      <4>1. tasks[i] \in Tasks
        BY DEF Base, TunnelTyped
      <4> QED BY <4>1 DEF Base, TasksSay, Tasks, Jobs
    <3>2. pc \in {"idle", "start"} => job = 0
      BY DEF Base, MinerSays
    <3>3. job' = job \/ pc \in {"idle", "start"}
      BY <1>5
    <3> QED BY <1>1, <3>1, <3>2, <3>3 DEF Base, TasksSay
  <2>10. Numbered'
    <3>1. \A r \in Under' : r \in late \/ r = req'
      BY <1>1 DEF Under
    <3>2. \A i \in 1..Len(tasks), r \in Under' : tasks[i].n = r.n => r \in late
      BY <1>2, <2>2, <2>4, <3>1
    <3>3. late \subseteq Under
      BY DEF Under
    <3>4. \A i \in 1..Len(tasks), r \in Under' : tasks[i].n = r.n =>
             \/ r.st = "waiting" /\ tasks[i].op = r.op /\ tasks[i].job = r.job
             \/ r.st = "done" /\ r.n < faults
      BY <3>2, <3>3 DEF Base, Numbered
    <3>5. \A i \in 1..Len(tasks) : tasks[i].n <= faults
      BY <1>2, <2>4
    <3> QED BY <1>1, <1>2, <2>2, <2>5, <3>4, <3>5 DEF Base, Numbered
  <2>11. OwnJobs'
    <3>1. \A r \in Under' : r \in late \/ r = req'
      BY <1>1 DEF Under
    <3>2. \A i \in 1..Len(tasks) : tasks[i].op = "start" => tasks[i].job # job'
      <4>1. CASE job' = job
        BY <4>1 DEF Base, OwnJobs
      <4>2. CASE pc = "start" /\ job' = req.job /\ req.st = "done" /\ req.ans = "ok"
        <5>1. req.op = "start" /\ req \in Under
          BY <4>2 DEF Base, MinerSays, Ops, Under
        <5> QED BY <4>2, <5>1 DEF Base, OwnJobs
      <4> QED BY <1>5, <4>1, <4>2
    <3> QED BY <1>1, <2>2, <3>1, <3>2 DEF Base, OwnJobs, Under
  <2>12. Starts \in SUBSET (0..MaxFaults) /\ Starts' \in SUBSET (0..MaxFaults)
    BY DEF Starts
  <2>13. \A r \in Under' : r \in late \/ (r.n = faults /\ r.op = op)
    BY <1>1, <2>2 DEF Under
  <2>14. op # "start" => Starts' \subseteq Starts
    BY <2>13 DEF Starts, Under
  <2>15. op = "start" => Starts' \subseteq {faults}
    BY <2>1, <2>13 DEF Starts, Base, MinerSays
  <2>16. issued \in Nat
    BY DEF Base, TunnelTyped
  <2>17. op # "start" => StartCount' <= StartCount
    BY <1>1, <2>12, <2>14, <2>16, Fewer DEF StartCount
  <2>18. op = "start" => StartCount' <= faults + 1
    <3>1. Cardinality({faults}) = 1 /\ {faults} \in SUBSET (0..MaxFaults)
      BY FS_Singleton DEF Base, TunnelTyped
    <3>2. op = "start" => issued' = 0
      BY <1>1, <2>1 DEF Base, MinerSays
    <3> QED BY <1>2, <2>12, <2>15, <3>1, <3>2, Fewer DEF StartCount
  <2>19. StartCount \in Int /\ StartCount' \in Int
    BY <1>1, <2>12, <2>16, Fewer DEF StartCount
  <2>20. StartsCounted'
    BY <1>1, <1>2, <2>1, <2>17, <2>18, <2>19, <1>5 DEF Base, StartsCounted
  <2> QED BY <2>1, <2>6, <2>7, <2>8, <2>9, <2>10, <2>11, <2>17, <2>20 DEF Base
<1> HIDE DEF sends
<1>6. (/\ pc' = "done" /\ pc \in {"start", "stop"} /\ req.st = "done"
       /\ UNCHANGED <<req, step, job, allowed, offered, after>>)
      \/ \E op \in Ops : pc' = op /\ req' = Request(op, job', step', faults) /\ sends(op)
  BY MinerMoves DEF sends
<1> QED BY <1>4, <1>5, <1>6
-----------------------------------------------------------------------------
(* A request is sent once more, or given up. *)

LEMMA TimesOutIs ==
  ASSUME Base, TimesOut
  PROVE  /\ pc \in Ops /\ faults' = faults + 1 /\ faults' \in 0..MaxFaults
         /\ UNCHANGED <<pc, step, job, ended, allowed, hazard, offered, after, tasks, issued, registry, progress,
                        blocked, region, found>>
         /\ req' \in Reqs /\ req'.op = req.op /\ req'.step = req.step /\ req'.n = faults + 1
         /\ req'.op # "start" => req'.job = req.job
         /\ req'.st \in {"sent", "done"} /\ (req'.st = "done" => req'.ans = "error")
         /\ \A r \in late' : r \in Under /\ r.st \in {"sent", "waiting", "ran"}
<1>1. /\ pc \in Ops /\ faults' = faults + 1 /\ faults' \in 0..MaxFaults
      /\ UNCHANGED <<pc, step, job, ended, allowed, hazard, offered, after, tasks, issued, registry, progress,
                     blocked, region, found>>
  BY Sizes DEF TimesOut, serverVars, Base, TunnelTyped
<1>2. req \in Reqs /\ faults + 1 \in Nat
  BY DEF Base, TunnelTyped
<1>3. \/ req' = Request(req.op, IF req.op = "start" THEN 0 ELSE req.job, req.step, faults + 1)
      \/ req' = [req EXCEPT !.n = faults + 1, !.st = "done", !.ans = "error"]
  BY DEF TimesOut
<1>4. /\ req' \in Reqs /\ req'.op = req.op /\ req'.step = req.step /\ req'.n = faults + 1
      /\ req'.op # "start" => req'.job = req.job
      /\ req'.st \in {"sent", "done"} /\ (req'.st = "done" => req'.ans = "error")
  <2>1. CASE req' = Request(req.op, IF req.op = "start" THEN 0 ELSE req.job, req.step, faults + 1)
    <3>1. /\ req.op \in Ops /\ req.step \in 0..Length
          /\ (IF req.op = "start" THEN 0 ELSE req.job) \in {0} \cup Jobs
      BY <1>2 DEF Reqs
    <3> DEFINE j == IF req.op = "start" THEN 0 ELSE req.job
    <3>2. req' = Request(req.op, j, req.step, faults + 1) /\ (req.op # "start" => j = req.job)
      BY <2>1
    <3> HIDE DEF j
    <3>3. j \in {0} \cup Jobs
      BY <3>1 DEF j
    <3> DEFINE R == Request(req.op, j, req.step, faults + 1)
    <3>4. /\ R \in Reqs /\ R.op = req.op /\ R.job = j /\ R.step = req.step
          /\ R.n = faults + 1 /\ R.st = "sent"
      <4>1. \A op \in Ops, i \in {0} \cup Jobs, s \in 0..Length, n \in Nat :
              /\ Request(op, i, s, n) \in Reqs
              /\ Request(op, i, s, n).op = op /\ Request(op, i, s, n).job = i
              /\ Request(op, i, s, n).step = s /\ Request(op, i, s, n).n = n
              /\ Request(op, i, s, n).st = "sent"
        BY RequestSent
      <4>2. faults + 1 \in Nat
        BY <1>2
      <4> QED BY <4>1, <4>2, <3>1, <3>3
    <3>5. req' = R
      BY <3>2
    <3> HIDE DEF R
    <3>6. req'.st # "done"
      BY <3>4, <3>5
    <3> QED BY <3>2, <3>4, <3>5, <3>6, Zenon
  <2>2. CASE req' = [req EXCEPT !.n = faults + 1, !.st = "done", !.ans = "error"]
    <3>1. \A r \in Reqs, n \in Nat : [r EXCEPT !.n = n] \in Reqs
      BY DEF Reqs
    <3>2. \A r \in Reqs : [r EXCEPT !.st = "done"] \in Reqs
      BY DEF Reqs, Statuses
    <3>3. \A r \in Reqs : [r EXCEPT !.ans = "error"] \in Reqs
      BY DEF Reqs, Answers
    <3>4. req' = [[[req EXCEPT !.n = faults + 1] EXCEPT !.st = "done"] EXCEPT !.ans = "error"]
      BY <1>2, <2>2 DEF Reqs
    <3>5. req' \in Reqs
      BY <1>2, <3>1, <3>2, <3>3, <3>4
    <3> QED BY <1>2, <2>2, <3>5 DEF Reqs
  <2> QED BY <1>3, <2>1, <2>2
<1>5. late' = late \cup (IF req.st = "done" THEN {} ELSE {req})
  BY DEF TimesOut, Abandoned
<1>6. req.st # "none" /\ req.st \in Statuses
  BY <1>1, <1>2 DEF Base, MinerSays, Reqs
<1>7. \A r \in late' : r \in Under /\ r.st \in {"sent", "waiting", "ran"}
  BY <1>5, <1>6 DEF Base, RequestsSay, Under, Statuses
<1> QED BY <1>1, <1>4, <1>7

LEMMA TimesOutStep ==
  ASSUME Base, TimesOut
  PROVE  /\ Base' /\ StartCount' <= StartCount + 1
         /\ ~(pc = "start" /\ req'.st = "sent") => StartCount' <= StartCount
<1>1. /\ pc \in Ops /\ faults' = faults + 1 /\ faults' \in 0..MaxFaults
      /\ UNCHANGED <<pc, step, job, ended, allowed, hazard, offered, after, tasks, issued, registry, progress,
                     blocked, region, found>>
      /\ req' \in Reqs /\ req'.op = req.op /\ req'.step = req.step /\ req'.n = faults + 1
      /\ req'.op # "start" => req'.job = req.job
      /\ req'.st \in {"sent", "done"} /\ (req'.st = "done" => req'.ans = "error")
      /\ \A r \in late' : r \in Under /\ r.st \in {"sent", "waiting", "ran"}
  BY TimesOutIs
<1>2. Under \subseteq Reqs /\ faults \in Nat /\ req \in Reqs
  BY DEF Base, TunnelTyped, Under
<1>3. \A r \in Under : r.n <= faults /\ r.n \in Nat
  BY <1>2 DEF Base, Numbered, Under, Reqs
<1>4. \A i \in 1..Len(tasks) : tasks[i].n <= faults /\ tasks[i].n \in Nat
  <2> TAKE i \in 1..Len(tasks)
  <2>1. tasks[i] \in Tasks
    BY DEF Base, TunnelTyped
  <2> QED BY <1>2, <2>1 DEF Base, Numbered, Tasks, Reqs
<1>5. \A r \in Under' : (r \in Under /\ r.st \in {"sent", "waiting", "ran"}) \/ r = req'
  BY <1>1 DEF Under
<1>6. TunnelTyped'
  BY <1>1, <1>2 DEF Base, TunnelTyped
<1>7. MinerSays'
  BY <1>1 DEF Base, MinerSays, Ops
<1>8. RequestsSay'
  BY <1>1, <1>5 DEF Base, RequestsSay, Under
<1>9. TasksSay'
  BY <1>1 DEF Base, TasksSay
<1>10. Numbered'
  <2>1. \A r \in late' : r.n < req'.n
    BY <1>1, <1>2, <1>3
  <2>2. \A r, q \in late' : r.n = q.n => r = q
    BY <1>1, NumbersDiffer DEF Base
  <2>3. \A i \in 1..Len(tasks) : tasks[i].n < req'.n
    BY <1>1, <1>2, <1>4
  <2>4. \A i \in 1..Len(tasks), r \in Under' : tasks[i].n = r.n =>
          r.st = "waiting" /\ tasks[i].op = r.op /\ tasks[i].job = r.job
    <3> SUFFICES ASSUME NEW i \in 1..Len(tasks), NEW r \in Under', tasks[i].n = r.n
                 PROVE  r.st = "waiting" /\ tasks[i].op = r.op /\ tasks[i].job = r.job
      OBVIOUS
    <3>1. r # req'
      BY <1>1, <1>2, <1>4
    <3> QED BY <1>5, <3>1 DEF Base, Numbered
  <2>5. req'.n <= faults'
    BY <1>1, <1>2
  <2>6. \A i \in 1..Len(tasks) : tasks[i].n <= req'.n
    BY <1>1, <1>2, <1>4
  <2>7. \A i, k \in 1..Len(tasks) : tasks[i].n = tasks[k].n => i = k
    BY DEF Base, Numbered
  <2>8. tasks' = tasks
    BY <1>1
  <2> QED BY <2>1, <2>2, <2>4, <2>5, <2>6, <2>7, <2>8 DEF Numbered
<1>11. OwnJobs'
  BY <1>1, <1>5 DEF Base, OwnJobs
<1>12. Starts \in SUBSET (0..MaxFaults) /\ Starts' \in SUBSET (0..MaxFaults) /\ issued \in Nat
  BY DEF Starts, Base, TunnelTyped
<1>13. Starts' \subseteq Starts \cup {faults + 1}
  BY <1>1, <1>5 DEF Starts
<1>14. ~(pc = "start" /\ req'.st = "sent") => Starts' \subseteq Starts
  <2> SUFFICES ASSUME ~(req'.op = "start" /\ req'.st = "sent") PROVE Starts' \subseteq Starts
    BY <1>1 DEF Base, MinerSays
  <2> QED BY <1>1, <1>5 DEF Starts
<1>15. StartCount' <= StartCount + 1 /\ StartCount \in Nat /\ StartCount' \in Nat
  <2>1. /\ Cardinality(Starts) \in Nat /\ Cardinality(Starts') \in Nat
        /\ Cardinality(Starts') <= Cardinality(Starts) + 1
    BY <1>12, <1>13, Fewer
  <2> QED BY <1>1, <1>12, <2>1 DEF StartCount
<1>16. ~(pc = "start" /\ req'.st = "sent") => StartCount' <= StartCount
  BY <1>1, <1>12, <1>14, Fewer DEF StartCount
<1>17. StartsCounted'
  BY <1>1, <1>2, <1>15 DEF Base, StartsCounted, Ops
<1> QED BY <1>6, <1>7, <1>8, <1>9, <1>10, <1>11, <1>15, <1>16, <1>17 DEF Base
-----------------------------------------------------------------------------
(* A request of the plugin's comes to its next state. *)

LEMMA LiveIs ==
  ASSUME Base, NEW r \in Live
  PROVE  /\ r \in Under /\ r \in Reqs /\ r.st \in {"sent", "waiting", "ran"} /\ pc # "idle"
         /\ r.n \in 0..faults /\ r.n \in 0..MaxFaults
<1>1. r \in Under /\ r.st \in {"sent", "waiting", "ran"}
  BY DEF Live, Under
<1>2. r \in Reqs
  BY <1>1 DEF Base, TunnelTyped, Under
<1>3. pc # "idle"
  BY <1>1 DEF Base, MinerSays, Under
<1>4. req \in Reqs /\ faults \in Nat /\ MaxFaults \in Nat /\ faults <= MaxFaults
  BY Sizes DEF Base, TunnelTyped
<1>5. r = req \/ r.n < req.n
  BY <1>1 DEF Base, Numbered, Under
<1>6. r.n \in Nat /\ req.n \in Nat /\ req.n <= faults
  BY <1>2, <1>4 DEF Base, Numbered, Reqs
<1> QED BY <1>1, <1>2, <1>3, <1>4, <1>5, <1>6

LEMMA BecomeKeeps ==
  ASSUME Base, NEW r \in Live, NEW q \in Reqs, Become(r, q), UNCHANGED minerVars,
         q.op = r.op, q.n = r.n, q.step = r.step, q.st \in {"waiting", "ran", "done"},
         r.op # "start" => q.job = r.job,
         q.st # "done" => q.op \in {"start", "advance", "stop"} /\ q.job \in 1..issued',
         q.op = "start" /\ q.st = "done" /\ q.ans = "ok" => q.job \in 1..issued',
         issued' \in Nat, issued <= issued'
  PROVE  /\ MinerSays' /\ RequestsSay'
         /\ req' \in Reqs /\ late' \subseteq Reqs /\ req'.n = req.n
         /\ \A x \in late' : x.n < req'.n
         /\ \A x, y \in late' : x.n = y.n => x = y
         /\ \A x \in Under' : x = q \/ (x \in Under /\ x # r /\ x.n # r.n)
<1>1. r \in Under /\ r \in Reqs /\ r.st \in {"sent", "waiting", "ran"} /\ pc # "idle"
  BY LiveIs
<1>2. /\ \A x \in Under' : x = q \/ (x \in Under /\ x # r /\ x.n # r.n)
      /\ \A x \in late' : x \in late \/ (x = q /\ q.st # "done")
      /\ \/ r = req /\ req' = q /\ late' = late
         \/ r \in late /\ r # req /\ req' = req
  BY <1>1, BecomesOne DEF Base
<1>3. UNCHANGED <<pc, step, job>>
  BY DEF minerVars
<1>4. req \in Reqs /\ late \subseteq Reqs /\ issued \in Nat /\ Under \subseteq Reqs
  BY DEF Base, TunnelTyped, Under
<1>5. req' \in Reqs /\ late' \subseteq Reqs /\ req'.n = req.n
  BY <1>2, <1>4
<1>6. MinerSays'
  BY <1>1, <1>2, <1>3 DEF Base, MinerSays
<1>7. RequestsSay'
  <2>1. \A x \in late' : x.st \in {"sent", "waiting", "ran"}
    BY <1>2 DEF Base, RequestsSay
  <2>2. /\ q.op # "start" => q.job = job /\ job > 0
        /\ pc \in {"idle", "start"} => q.op = "start"
    BY <1>1 DEF Base, RequestsSay
  <2>3. \A x \in Under : x.job \in 1..issued => x.job \in 1..issued'
    BY <1>4 DEF Reqs
  <2> QED BY <1>2, <1>3, <2>1, <2>2, <2>3 DEF Base, RequestsSay
<1>8. \A x \in late' : x.n < req'.n
  BY <1>2, <1>5 DEF Base, Numbered
<1>9. \A x, y \in late' : x.n = y.n => x = y
  BY <1>2, NumbersDiffer DEF Base, Under
<1> QED BY <1>2, <1>5, <1>6, <1>7, <1>8, <1>9

(* No start more is under way.                                             *)
LEMMA NoMoreStarts ==
  ASSUME Base, \A x \in Under' : x.st = "sent" => x \in Under
  PROVE  /\ Starts' \subseteq Starts /\ Starts' \in SUBSET (0..MaxFaults)
         /\ Cardinality(Starts') \in Nat /\ Cardinality(Starts') <= Cardinality(Starts)
<1>1. Starts \in SUBSET (0..MaxFaults) /\ Starts' \in SUBSET (0..MaxFaults) /\ Starts' \subseteq Starts
  BY DEF Starts
<1> QED BY <1>1, Fewer

(* The plugin's own part of the types.                                     *)
PluginTyped ==
  /\ registry \subseteq 1..issued
  /\ progress \in [Jobs -> 0..Length] /\ blocked \in [Jobs -> BOOLEAN] /\ region \in [Jobs -> Int]
  /\ \A j \in Jobs : region[j] # NoRegion => j <= issued
  /\ found \in BOOLEAN

LEMMA AnswerStep ==
  ASSUME Base, NEW r \in Live, NEW q \in Reqs, Become(r, q), UNCHANGED <<minerVars, tasks, issued>>, PluginTyped',
         q.op = r.op, q.n = r.n, q.step = r.step, q.job = r.job, q.st = "done",
         q.op = "start" /\ q.ans = "ok" => r.st = "ran",
         faults' \in 0..MaxFaults, faults <= faults', r.st = "waiting" => r.n < faults'
  PROVE  /\ Base' /\ StartCount' <= StartCount /\ Advances' \subseteq Advances
         /\ r.st # "waiting" /\ Settled => Settled'
<1>1. r \in Under /\ r \in Reqs /\ r.st \in {"sent", "waiting", "ran"} /\ pc # "idle"
  BY LiveIs
<1>2. issued' \in Nat /\ issued <= issued' /\ faults \in Nat /\ faults' \in Nat
  BY IssuedBound
<1>3. q.op = "start" /\ q.ans = "ok" => q.job \in 1..issued'
  BY <1>1 DEF Base, RequestsSay
<1>4. /\ MinerSays' /\ RequestsSay'
      /\ req' \in Reqs /\ late' \subseteq Reqs /\ req'.n = req.n
      /\ \A x \in late' : x.n < req'.n
      /\ \A x, y \in late' : x.n = y.n => x = y
      /\ \A x \in Under' : x = q \/ (x \in Under /\ x # r /\ x.n # r.n)
  BY <1>2, <1>3, BecomeKeeps DEF minerVars
<1>5. TunnelTyped'
  BY <1>2, <1>4 DEF Base, TunnelTyped, PluginTyped, minerVars
<1>6. TasksSay'
  BY DEF Base, TasksSay, minerVars
<1>7. Numbered'
  <2>1. \A i \in 1..Len(tasks), x \in Under' : tasks[i].n = x.n =>
          \/ x.st = "waiting" /\ tasks[i].op = x.op /\ tasks[i].job = x.job
          \/ x.st = "done" /\ x.n < faults'
    <3> SUFFICES ASSUME NEW i \in 1..Len(tasks), NEW x \in Under', tasks[i].n = x.n
                 PROVE  \/ x.st = "waiting" /\ tasks[i].op = x.op /\ tasks[i].job = x.job
                        \/ x.st = "done" /\ x.n < faults'
      OBVIOUS
    <3>1. CASE x = q
      BY <1>1, <3>1 DEF Base, Numbered
    <3>2. CASE x \in Under
      <4>1. x.n \in Nat
        BY <3>2 DEF Base, TunnelTyped, Under, Reqs
      <4> QED BY <1>2, <3>2, <4>1 DEF Base, Numbered
    <3> QED BY <1>4, <3>1, <3>2
  <2>2. req'.n <= faults'
    BY <1>2, <1>4 DEF Base, Numbered, Reqs
  <2> QED BY <1>4, <2>1, <2>2 DEF Base, Numbered
<1>8. OwnJobs'
  BY <1>1, <1>4 DEF Base, OwnJobs, minerVars
<1>9. StartCount' <= StartCount
  BY <1>4, NoMoreStarts, IssuedBound DEF StartCount
<1>10. StartsCounted'
  BY <1>2, <1>4, <1>9, NoMoreStarts, IssuedBound DEF Base, StartsCounted, StartCount, minerVars
<1>11. Advances' \subseteq Advances
  BY <1>4 DEF Advances
<1>12. r.st # "waiting" /\ Settled => Settled'
  <2> SUFFICES ASSUME r.st # "waiting", Settled PROVE Settled'
    OBVIOUS
  <2>1. /\ (r = req /\ late' = late) \/ (r \in late /\ req' = req)
        /\ \A x \in late' : x \in late \/ x = q
    BY <1>1, BecomesOne DEF Base
  <2>2. \A x \in late' : x.op = "start"
    BY <2>1 DEF Settled
  <2> QED BY <2>1, <2>2 DEF Settled
<1> QED BY <1>4, <1>5, <1>6, <1>7, <1>8, <1>9, <1>10, <1>11, <1>12 DEF Base

(* It is about a job of its own, and a start uses up one of its number.    *)
LEMMA HandedJob ==
  ASSUME Base, NEW r \in Live, r.st = "sent", NEW j \in Nat,
         \/ r.op = "start" /\ j = issued + 1 /\ issued' = issued + 1
         \/ r.op \in {"advance", "stop"} /\ j = r.job /\ issued' = issued
  PROVE  /\ j \in 1..issued' /\ j \in Jobs
         /\ r.op = "start" => r.n \in Starts /\ Cardinality(Starts) \in Nat /\ Cardinality(Starts) >= 1
<1>1. /\ r \in Under /\ r \in Reqs /\ pc # "idle" /\ r.n \in 0..faults /\ r.n \in 0..MaxFaults
  BY LiveIs
<1>2. issued \in Nat /\ issued' \in Nat /\ faults \in Nat /\ MaxFaults \in Nat /\ faults <= MaxFaults
  BY IssuedBound
<1>3. r.op = "start" => r.n \in Starts /\ Cardinality(Starts) \in Nat /\ Cardinality(Starts) >= 1
  <2> SUFFICES ASSUME r.op = "start" PROVE r.n \in Starts /\ Cardinality(Starts) \in Nat /\ Cardinality(Starts) >= 1
    OBVIOUS
  <2>1. r.n \in Starts
    BY <1>1 DEF Starts
  <2>2. {} \in SUBSET (0..MaxFaults) /\ Cardinality({}) = 0
    BY FS_EmptySet
  <2>3. Starts \in SUBSET (0..MaxFaults)
    BY DEF Starts
  <2>4. Cardinality({}) <= Cardinality(Starts) - 1 /\ Cardinality(Starts) \in Nat
    BY <2>1, <2>2, <2>3, Fewer
  <2> QED BY <2>1, <2>2, <2>4
<1>4. CASE r.op = "start"
  <2>1. issued + 1 <= faults + 1
    BY <1>1, <1>2, <1>3, <1>4, IssuedBound
  <2> QED BY <1>2, <1>3, <1>4, <2>1 DEF Jobs
<1>5. CASE r.op # "start"
  <2>1. j = job /\ job > 0 /\ job <= issued /\ issued' = issued
    BY <1>1, <1>5 DEF Base, RequestsSay, TunnelTyped
  <2> QED BY <1>2, <1>5, <2>1, IssuedBound DEF Jobs
<1> QED BY <1>4, <1>5

LEMMA HandOverStep ==
  ASSUME Base, NEW r \in Live, r.st = "sent", NEW j \in Nat, HandOver(r, j), UNCHANGED <<minerVars, faults>>,
         PluginTyped',
         \/ r.op = "start" /\ j = issued + 1 /\ issued' = issued + 1
         \/ r.op \in {"advance", "stop"} /\ j = r.job /\ issued' = issued
  PROVE  /\ Base' /\ StartCount' <= StartCount /\ Advances' \subseteq Advances
         /\ Settled => Settled'
<1> DEFINE q == [r EXCEPT !.st = "waiting", !.job = j]
           t == [op |-> r.op, job |-> j, n |-> r.n]
<1>1. /\ r \in Under /\ r \in Reqs /\ pc # "idle" /\ r.n \in 0..faults /\ r.n \in 0..MaxFaults
  BY LiveIs
<1>2. Become(r, q) /\ tasks' = Append(tasks, t)
  BY DEF HandOver
<1>3. q \in Reqs /\ q.op = r.op /\ q.n = r.n /\ q.step = r.step /\ q.st = "waiting" /\ q.job = j
  <2>1. \A x \in Reqs : [x EXCEPT !.st = "waiting"] \in Reqs
    BY DEF Reqs, Statuses
  <2>2. \A x \in Reqs : [x EXCEPT !.job = j] \in Reqs
    <3>1. j \in Jobs
      BY HandedJob
    <3> QED BY <3>1 DEF Reqs
  <2>3. q = [[r EXCEPT !.st = "waiting"] EXCEPT !.job = j]
    BY <1>1 DEF Reqs
  <2>4. q \in Reqs
    BY <1>1, <2>1, <2>2, <2>3
  <2> QED BY <1>1, <2>4 DEF Reqs
<1>4. t.op = r.op /\ t.job = j /\ t.n = r.n
  OBVIOUS
<1> HIDE DEF q, t
<1>5. r.op = "start" => r.n \in Starts /\ Cardinality(Starts) \in Nat /\ Cardinality(Starts) >= 1
  BY HandedJob
<1>6. issued \in Nat /\ issued' \in Nat /\ issued <= issued' /\ faults \in Nat /\ MaxFaults \in Nat
  BY IssuedBound
<1>7. j \in 1..issued' /\ j \in Jobs
  BY HandedJob
<1>8. /\ MinerSays' /\ RequestsSay'
      /\ req' \in Reqs /\ late' \subseteq Reqs /\ req'.n = req.n
      /\ \A x \in late' : x.n < req'.n
      /\ \A x, y \in late' : x.n = y.n => x = y
      /\ \A x \in Under' : x = q \/ (x \in Under /\ x # r /\ x.n # r.n)
  BY <1>2, <1>3, <1>6, <1>7, BecomeKeeps
<1>9. /\ tasks \in Seq(Tasks) /\ Len(tasks) \in Nat /\ t \in Tasks
      /\ tasks' \in Seq(Tasks) /\ Len(tasks') = Len(tasks) + 1 /\ tasks'[Len(tasks) + 1] = t
      /\ \A i \in 1..Len(tasks) : tasks'[i] = tasks[i] /\ tasks[i] \in Tasks
  <2>1. t \in Tasks
    BY <1>1, <1>3, <1>7 DEF t, Tasks
  <2>2. tasks \in Seq(Tasks)
    BY DEF Base, TunnelTyped
  <2> QED BY <1>2, <2>1, <2>2
<1>10. \A i \in 1..Len(tasks') : i = Len(tasks') \/ i \in 1..Len(tasks)
  BY <1>9
<1>11. TunnelTyped'
  BY <1>6, <1>8, <1>9 DEF Base, TunnelTyped, PluginTyped, minerVars
<1>12. TasksSay'
  <2>1. t.job <= issued' /\ (t.op # "start" => t.job = job)
    BY <1>1, <1>4, <1>6, <1>7 DEF Base, RequestsSay
  <2>2. \A i \in 1..Len(tasks) : tasks[i].job <= issued'
    <3> TAKE i \in 1..Len(tasks)
    <3>1. tasks[i] \in Tasks
      BY <1>9
    <3>2. tasks[i].job <= issued
      BY DEF Base, TasksSay
    <3>3. tasks[i].job \in Int
      BY <3>1 DEF Tasks, Jobs
    <3> QED BY <1>6, <3>2, <3>3
  <2> QED BY <1>9, <1>10, <2>1, <2>2 DEF Base, TasksSay, minerVars
<1>13. \A i \in 1..Len(tasks) : tasks[i].n # r.n
  BY <1>1 DEF Base, Numbered
<1>14. Numbered'
  <2>1. \A i \in 1..Len(tasks'), x \in Under' : tasks'[i].n = x.n =>
          \/ x.st = "waiting" /\ tasks'[i].op = x.op /\ tasks'[i].job = x.job
          \/ x.st = "done" /\ x.n < faults
    <3> SUFFICES ASSUME NEW i \in 1..Len(tasks'), NEW x \in Under', tasks'[i].n = x.n
                 PROVE  \/ x.st = "waiting" /\ tasks'[i].op = x.op /\ tasks'[i].job = x.job
                        \/ x.st = "done" /\ x.n < faults
      OBVIOUS
    <3>1. CASE i = Len(tasks')
      BY <1>3, <1>4, <1>8, <1>9, <3>1
    <3>2. CASE i \in 1..Len(tasks)
      BY <1>3, <1>8, <1>9, <1>13, <3>2 DEF Base, Numbered
    <3> QED BY <1>10, <3>1, <3>2
  <2>2. \A i \in 1..Len(tasks') : tasks'[i].n <= req'.n
    <3>1. r.n <= req.n
      BY <1>1 DEF Base, Numbered, Under, Reqs, TunnelTyped
    <3> QED BY <1>4, <1>8, <1>9, <1>10, <3>1 DEF Base, Numbered
  <2>3. \A i, k \in 1..Len(tasks') : tasks'[i].n = tasks'[k].n => i = k
    BY <1>4, <1>9, <1>10, <1>13 DEF Base, Numbered
  <2> QED BY <1>8, <2>1, <2>2, <2>3 DEF Base, Numbered
<1>15. OwnJobs'
  <2>1. \A i \in 1..Len(tasks) : r.op = "start" => tasks[i].job # j
    <3> TAKE i \in 1..Len(tasks)
    <3>1. tasks[i] \in Tasks
      BY <1>9
    <3>2. tasks[i].job <= issued
      BY DEF Base, TasksSay
    <3>3. tasks[i].job \in Int
      BY <3>1 DEF Tasks, Jobs
    <3> QED BY <1>6, <3>2, <3>3
  <2>2. \A i, k \in 1..Len(tasks') :
          tasks'[i].op = "start" /\ tasks'[k].op = "start" /\ tasks'[i].job = tasks'[k].job => i = k
    BY <1>4, <1>9, <1>10, <2>1 DEF Base, OwnJobs
  <2>3. \A i \in 1..Len(tasks'), x \in Under' :
          tasks'[i].op = "start" /\ x.op = "start" /\ (x.st = "ran" \/ (x.st = "done" /\ x.ans = "ok"))
            => tasks'[i].job # x.job
    <3> SUFFICES ASSUME NEW i \in 1..Len(tasks'), NEW x \in Under', tasks'[i].op = "start", x.op = "start",
                        x.st = "ran" \/ (x.st = "done" /\ x.ans = "ok")
                 PROVE  tasks'[i].job # x.job
      OBVIOUS
    <3>1. x \in Under
      BY <1>3, <1>8
    <3>2. x.job \in 1..issued
      BY <3>1 DEF Base, RequestsSay
    <3>3. CASE i = Len(tasks')
      BY <1>4, <1>6, <1>9, <3>2, <3>3
    <3>4. CASE i \in 1..Len(tasks)
      BY <1>9, <3>1, <3>4 DEF Base, OwnJobs
    <3> QED BY <1>10, <3>3, <3>4
  <2>4. \A i \in 1..Len(tasks') : tasks'[i].op = "start" => tasks'[i].job # job
    <3>1. r.op = "start" => j # job
      BY <1>6 DEF Base, TunnelTyped
    <3> QED BY <1>4, <1>9, <1>10, <3>1 DEF Base, OwnJobs
  <2> QED BY <2>2, <2>3, <2>4 DEF OwnJobs, minerVars
<1>16. \A x \in Under' : x.st = "sent" => x \in Under /\ x.n # r.n
  BY <1>3, <1>8
<1>17. StartCount' <= StartCount
  <2>1. CASE r.op = "start"
    <3>1. Starts' \subseteq Starts \ {r.n} /\ Starts' \in SUBSET (0..MaxFaults) /\ Starts \in SUBSET (0..MaxFaults)
      BY <1>16 DEF Starts
    <3>2. Cardinality(Starts') <= Cardinality(Starts) - 1 /\ Cardinality(Starts') \in Nat
      BY <1>5, <2>1, <3>1, Fewer
    <3> QED BY <1>5, <1>6, <2>1, <3>2 DEF StartCount
  <2>2. CASE r.op # "start"
    BY <1>6, <1>16, <2>2, NoMoreStarts, IssuedBound DEF StartCount
  <2> QED BY <2>1, <2>2
<1>18. StartsCounted'
  <2>1. StartCount \in Int /\ StartCount' \in Int /\ StartCount <= faults + 1
    BY <1>1, <1>6, <1>16, NoMoreStarts, IssuedBound DEF StartCount
  <2> QED BY <1>6, <1>17, <2>1 DEF StartsCounted
<1>19. Advances' \subseteq Advances
  <2> SUFFICES ASSUME NEW n \in 0..MaxFaults, n \in Advances' PROVE n \in Advances
    BY DEF Advances
  <2>1. CASE \E x \in Under' : x.n = n /\ x.op = "advance" /\ x.st = "sent"
    BY <1>16, <2>1 DEF Advances
  <2>2. CASE \E i \in 1..Len(tasks') : tasks'[i].n = n /\ tasks'[i].op = "advance"
    <3>1. PICK i \in 1..Len(tasks') : tasks'[i].n = n /\ tasks'[i].op = "advance"
      BY <2>2
    <3>2. CASE i = Len(tasks')
      BY <1>1, <1>4, <1>9, <3>1, <3>2 DEF Advances
    <3>3. CASE i \in 1..Len(tasks)
      BY <1>9, <3>1, <3>3 DEF Advances
    <3> QED BY <1>10, <3>2, <3>3
  <2> QED BY <2>1, <2>2 DEF Advances
<1>20. Settled => Settled'
  <2> SUFFICES ASSUME Settled PROVE Settled'
    OBVIOUS
  <2>1. /\ (r = req /\ req' = q /\ late' = late) \/ (r \in late /\ req' = req)
        /\ \A x \in late' : x \in late \/ x = q
    BY <1>1, <1>2, <1>3, BecomesOne DEF Base
  <2>2. \A x \in late' : x.op = "start"
    BY <1>3, <2>1 DEF Settled
  <2>3. \A i \in 1..Len(tasks) : tasks'[i].op = "start" \/ (tasks'[i].n = req'.n /\ req'.st = "waiting")
    BY <1>9, <2>1 DEF Settled
  <2>4. t.op = "start" \/ (t.n = req'.n /\ req'.st = "waiting")
    BY <1>3, <1>4, <2>1 DEF Settled
  <2> QED BY <1>9, <1>10, <2>2, <2>3, <2>4 DEF Settled
<1> QED BY <1>8, <1>11, <1>12, <1>14, <1>15, <1>17, <1>18, <1>19, <1>20 DEF Base
-----------------------------------------------------------------------------
(* A task of the main thread is over, and its thread goes on if it waits.  *)

LEMMA TailIs ==
  ASSUME TunnelTyped, tasks # <<>>
  PROVE  /\ Len(tasks) \in Nat /\ Len(tasks) >= 1 /\ Head(tasks) = tasks[1] /\ tasks[1] \in Tasks
         /\ Tail(tasks) \in Seq(Tasks) /\ Len(Tail(tasks)) = Len(tasks) - 1
         /\ \A i \in 1..Len(Tail(tasks)) : /\ Tail(tasks)[i] = tasks[i + 1] /\ i + 1 \in 1..Len(tasks)
                                           /\ i + 1 # 1 /\ tasks[i + 1] \in Tasks
<1>1. tasks \in Seq(Tasks)
  BY DEF TunnelTyped
<1>2. Len(tasks) \in Nat /\ Len(tasks) >= 1 /\ Head(tasks) = tasks[1] /\ tasks[1] \in Tasks
  BY <1>1
<1>3. Tail(tasks) \in Seq(Tasks) /\ Len(Tail(tasks)) = Len(tasks) - 1
  BY <1>1, <1>2
<1>4. \A i \in 1..Len(Tail(tasks)) : Tail(tasks)[i] = tasks[i + 1]
  BY <1>1, <1>3
<1>5. \A i \in 1..Len(Tail(tasks)) : i + 1 \in 1..Len(tasks) /\ i + 1 # 1
  BY <1>2, <1>3
<1> QED BY <1>1, <1>2, <1>3, <1>4, <1>5

(* The thread that waits for the first task is the one that asked for it.  *)
LEMMA WaiterIs ==
  ASSUME Base, tasks # <<>>, NEW r \in Waiting(Head(tasks))
  PROVE  r \in Live /\ r.n = tasks[1].n /\ r.st = "waiting" /\ r.op = tasks[1].op /\ r.job = tasks[1].job
<1>1. r \in Live /\ r.n = tasks[1].n /\ r.st = "waiting" /\ Len(tasks) \in Nat /\ Len(tasks) >= 1
  BY TailIs DEF Waiting, Base
<1> QED BY <1>1, LiveIs DEF Base, Numbered

LEMMA ResumeIs ==
  ASSUME Base, tasks # <<>>, NEW st, NEW answer, Resume(Head(tasks), st, answer),
         \/ st = "ran" /\ answer = "none"
         \/ st = "done" /\ answer = "error"
  PROVE  \/ UNCHANGED <<req, late>> /\ Waiting(Head(tasks)) = {}
         \/ \E r \in Live, q \in Reqs :
              /\ Become(r, q) /\ r.n = tasks[1].n /\ r.st = "waiting" /\ r.op = tasks[1].op /\ r.job = tasks[1].job
              /\ q.op = r.op /\ q.n = r.n /\ q.step = r.step /\ q.job = r.job /\ q.st = st /\ q.ans = answer
<1>1. CASE Waiting(Head(tasks)) = {}
  BY <1>1 DEF Resume
<1>2. CASE Waiting(Head(tasks)) # {}
  <2>1. PICK r \in Waiting(Head(tasks)) : Become(r, [r EXCEPT !.st = st, !.ans = answer])
    BY <1>2 DEF Resume
  <2>2. r \in Live /\ r.n = tasks[1].n /\ r.st = "waiting" /\ r.op = tasks[1].op /\ r.job = tasks[1].job
    BY WaiterIs
  <2>3. r \in Reqs
    BY <2>2, LiveIs
  <2>4. st \in Statuses /\ answer \in Answers
    BY DEF Statuses, Answers
  <2>5. \A x \in Reqs : [x EXCEPT !.st = st] \in Reqs
    BY <2>4 DEF Reqs
  <2>6. \A x \in Reqs : [x EXCEPT !.ans = answer] \in Reqs
    BY <2>4 DEF Reqs
  <2>7. [r EXCEPT !.st = st, !.ans = answer] = [[r EXCEPT !.st = st] EXCEPT !.ans = answer]
    BY <2>3 DEF Reqs
  <2> DEFINE q == [r EXCEPT !.st = st, !.ans = answer]
  <2>8. q \in Reqs
    BY <2>3, <2>5, <2>6, <2>7
  <2>9. q.op = r.op /\ q.n = r.n /\ q.step = r.step /\ q.job = r.job /\ q.st = st /\ q.ans = answer
    BY <2>3 DEF Reqs
  <2> HIDE DEF q
  <2> QED BY <2>1, <2>2, <2>8, <2>9 DEF q
<1> QED BY <1>1, <1>2

LEMMA TaskOver ==
  ASSUME Base, tasks # <<>>, tasks' = Tail(tasks), UNCHANGED <<minerVars, issued>>, PluginTyped',
         faults' \in 0..MaxFaults, faults <= faults',
         NEW st, NEW answer, Resume(Head(tasks), st, answer),
         \/ st = "ran" /\ answer = "none"
         \/ st = "done" /\ answer = "error"
  PROVE  /\ Base' /\ StartCount' <= StartCount /\ Advances' \subseteq Advances
         /\ tasks[1].op = "advance" => tasks[1].n \in Advances /\ tasks[1].n \notin Advances'
         /\ Settled => Settled'
<1>1. issued' \in Nat /\ issued <= issued' /\ faults \in Nat /\ faults' \in Nat
  BY IssuedBound
<1>2. /\ Len(tasks) \in Nat /\ Len(tasks) >= 1 /\ tasks[1] \in Tasks
      /\ tasks' \in Seq(Tasks) /\ Len(tasks') = Len(tasks) - 1
      /\ \A i \in 1..Len(tasks') : /\ tasks'[i] = tasks[i + 1] /\ i + 1 \in 1..Len(tasks)
                                   /\ i + 1 # 1 /\ tasks[i + 1] \in Tasks
  BY TailIs DEF Base
<1>3. /\ MinerSays' /\ RequestsSay'
      /\ req' \in Reqs /\ late' \subseteq Reqs /\ req'.n = req.n
      /\ \A x \in late' : x.n < req'.n
      /\ \A x, y \in late' : x.n = y.n => x = y
      /\ \A x \in Under' : \/ x \in Under
                           \/ /\ x.n = tasks[1].n /\ x.op = tasks[1].op /\ x.job = tasks[1].job
                              /\ x.st # "sent" /\ (x.st = "done" => x.ans = "error")
  <2>1. CASE UNCHANGED <<req, late>>
    <3>1. req \in Reqs /\ late \subseteq Reqs /\ pc # "idle"
      BY <1>2 DEF Base, TunnelTyped, MinerSays
    <3>2. MinerSays' /\ RequestsSay'
      BY <2>1, <3>1 DEF Base, MinerSays, RequestsSay, Under, minerVars
    <3> QED BY <2>1, <3>1, <3>2 DEF Base, Numbered, Under
  <2>2. CASE \E r \in Live, q \in Reqs :
               /\ Become(r, q) /\ r.n = tasks[1].n /\ r.st = "waiting" /\ r.op = tasks[1].op /\ r.job = tasks[1].job
               /\ q.op = r.op /\ q.n = r.n /\ q.step = r.step /\ q.job = r.job /\ q.st = st /\ q.ans = answer
    <3>1. PICK r \in Live, q \in Reqs :
                 /\ Become(r, q) /\ r.n = tasks[1].n /\ r.st = "waiting" /\ r.op = tasks[1].op /\ r.job = tasks[1].job
                 /\ q.op = r.op /\ q.n = r.n /\ q.step = r.step /\ q.job = r.job /\ q.st = st /\ q.ans = answer
      BY <2>2
    <3>2. r \in Under
      BY LiveIs
    <3>3. q.op \in {"start", "advance", "stop"} /\ q.job \in 1..issued'
      BY <3>1, <3>2 DEF Base, RequestsSay
    <3>4. /\ MinerSays' /\ RequestsSay'
          /\ req' \in Reqs /\ late' \subseteq Reqs /\ req'.n = req.n
          /\ \A x \in late' : x.n < req'.n
          /\ \A x, y \in late' : x.n = y.n => x = y
          /\ \A x \in Under' : x = q \/ (x \in Under /\ x # r /\ x.n # r.n)
      BY <1>1, <3>1, <3>3, BecomeKeeps
    <3>5. /\ q.n = tasks[1].n /\ q.op = tasks[1].op /\ q.job = tasks[1].job
          /\ q.st # "sent" /\ (q.st = "done" => q.ans = "error")
      BY <3>1
    <3> QED BY <3>4, <3>5
  <2> QED BY <2>1, <2>2, ResumeIs
<1>4. TunnelTyped'
  BY <1>1, <1>2, <1>3 DEF Base, TunnelTyped, PluginTyped, minerVars
<1>5. TasksSay'
  BY <1>2 DEF Base, TasksSay, minerVars
<1>6. \A i \in 1..Len(tasks') :
        /\ tasks'[i].n # tasks[1].n
        /\ tasks'[i].op = "start" /\ tasks[1].op = "start" => tasks'[i].job # tasks[1].job
  BY <1>2 DEF Base, Numbered, OwnJobs
<1>7. Numbered'
  <2>1. \A i \in 1..Len(tasks'), x \in Under' : tasks'[i].n = x.n =>
          \/ x.st = "waiting" /\ tasks'[i].op = x.op /\ tasks'[i].job = x.job
          \/ x.st = "done" /\ x.n < faults'
    <3> SUFFICES ASSUME NEW i \in 1..Len(tasks'), NEW x \in Under', tasks'[i].n = x.n
                 PROVE  \/ x.st = "waiting" /\ tasks'[i].op = x.op /\ tasks'[i].job = x.job
                        \/ x.st = "done" /\ x.n < faults'
      OBVIOUS
    <3>1. x \in Under
      BY <1>3, <1>6
    <3>2. x.n \in Nat
      BY <3>1 DEF Base, TunnelTyped, Under, Reqs
    <3> QED BY <1>1, <1>2, <3>1, <3>2 DEF Base, Numbered
  <2>2. req'.n <= faults'
    BY <1>1, <1>3 DEF Base, Numbered, Reqs
  <2>3. \A i \in 1..Len(tasks') : tasks'[i].n <= req'.n
    BY <1>2, <1>3 DEF Base, Numbered
  <2>4. \A i, k \in 1..Len(tasks') : tasks'[i].n = tasks'[k].n => i = k
    <3> SUFFICES ASSUME NEW i \in 1..Len(tasks'), NEW k \in 1..Len(tasks'), tasks'[i].n = tasks'[k].n PROVE i = k
      OBVIOUS
    <3>1. i + 1 = k + 1
      BY <1>2 DEF Base, Numbered
    <3> QED BY <1>2, <3>1
  <2> QED BY <1>3, <2>1, <2>2, <2>3, <2>4 DEF Numbered
<1>8. OwnJobs'
  <2>1. \A i, k \in 1..Len(tasks') :
          tasks'[i].op = "start" /\ tasks'[k].op = "start" /\ tasks'[i].job = tasks'[k].job => i = k
    <3> SUFFICES ASSUME NEW i \in 1..Len(tasks'), NEW k \in 1..Len(tasks'),
                        tasks'[i].op = "start", tasks'[k].op = "start", tasks'[i].job = tasks'[k].job
                 PROVE  i = k
      OBVIOUS
    <3>1. i + 1 = k + 1
      BY <1>2 DEF Base, OwnJobs
    <3> QED BY <1>2, <3>1
  <2>2. \A i \in 1..Len(tasks'), x \in Under' :
          tasks'[i].op = "start" /\ x.op = "start" /\ (x.st = "ran" \/ (x.st = "done" /\ x.ans = "ok"))
            => tasks'[i].job # x.job
    BY <1>2, <1>3, <1>6 DEF Base, OwnJobs
  <2>3. \A i \in 1..Len(tasks') : tasks'[i].op = "start" => tasks'[i].job # job
    BY <1>2 DEF Base, OwnJobs
  <2> QED BY <2>1, <2>2, <2>3 DEF OwnJobs, minerVars
<1>9. \A x \in Under' : x.st = "sent" => x \in Under
  BY <1>3
<1>10. StartCount' <= StartCount
  BY <1>9, NoMoreStarts, IssuedBound DEF StartCount
<1>11. StartsCounted'
  BY <1>1, <1>9, <1>10, NoMoreStarts, IssuedBound DEF Base, StartsCounted, StartCount, minerVars
<1>12. Advances' \subseteq Advances
  BY <1>2, <1>9 DEF Advances
<1>13. tasks[1].op = "advance" => tasks[1].n \in Advances /\ tasks[1].n \notin Advances'
  <2> SUFFICES ASSUME tasks[1].op = "advance" PROVE tasks[1].n \in Advances /\ tasks[1].n \notin Advances'
    OBVIOUS
  <2>1. 1 \in 1..Len(tasks)
    BY <1>2
  <2>2. tasks[1].n \in 0..MaxFaults
    <3>1. tasks[1].n \in Nat
      BY <1>2 DEF Tasks
    <3>2. tasks[1].n <= req.n /\ req.n <= faults /\ req.n \in Nat
      BY <2>1 DEF Base, Numbered, TunnelTyped, Reqs
    <3> QED BY <3>1, <3>2, IssuedBound
  <2>3. tasks[1].n \in Advances
    BY <2>1, <2>2 DEF Advances
  <2>4. \A x \in Under' : ~(x.n = tasks[1].n /\ x.st = "sent")
    <3> SUFFICES ASSUME NEW x \in Under', x.n = tasks[1].n, x.st = "sent" PROVE FALSE
      OBVIOUS
    <3> QED BY <1>9, <2>1 DEF Base, Numbered
  <2> QED BY <1>6, <2>3, <2>4 DEF Advances
<1>14. Settled => Settled'
  <2> SUFFICES ASSUME Settled PROVE Settled'
    OBVIOUS
  <2>1. CASE UNCHANGED <<req, late>>
    BY <1>2, <2>1 DEF Settled
  <2>2. CASE \E r \in Live, q \in Reqs :
               /\ Become(r, q) /\ r.n = tasks[1].n /\ r.st = "waiting" /\ r.op = tasks[1].op /\ r.job = tasks[1].job
               /\ q.op = r.op /\ q.n = r.n /\ q.step = r.step /\ q.job = r.job /\ q.st = st /\ q.ans = answer
    <3>1. PICK r \in Live, q \in Reqs :
                 /\ Become(r, q) /\ r.n = tasks[1].n /\ r.st = "waiting" /\ r.op = tasks[1].op /\ r.job = tasks[1].job
                 /\ q.op = r.op /\ q.n = r.n /\ q.step = r.step /\ q.job = r.job /\ q.st = st /\ q.ans = answer
      BY <2>2
    <3>2. /\ \A x \in Under' : x = q \/ (x \in Under /\ x # r /\ x.n # r.n)
          /\ \/ r = req /\ req' = q /\ late' = late
             \/ r \in late /\ r # req /\ req' = req
      BY <3>1, LiveIs, BecomesOne DEF Base
    <3>3. \A x \in late' : x.op = "start"
      <4>1. late \subseteq Under /\ late' \subseteq Under'
        BY DEF Under
      <4>2. r = req \/ q.op = "start"
        BY <3>1, <3>2 DEF Settled
      <4>3. \A x \in late' : x \in late \/ x = q
        BY <3>2, <4>1, <3>1 DEF Become
      <4> QED BY <3>2, <4>2, <4>3 DEF Settled
    <3>4. \A i \in 1..Len(tasks') : tasks'[i].op = "start" \/ (tasks'[i].n = req'.n /\ req'.st = "waiting")
      <4>1. CASE r = req
        BY <1>2, <1>6, <3>1, <4>1 DEF Settled
      <4>2. CASE req' = req
        BY <1>2, <4>2 DEF Settled
      <4> QED BY <3>2, <4>1, <4>2
    <3> QED BY <3>3, <3>4 DEF Settled
  <2> QED BY <2>1, <2>2, ResumeIs
<1> QED BY <1>3, <1>4, <1>5, <1>7, <1>8, <1>10, <1>11, <1>12, <1>13, <1>14 DEF Base
-----------------------------------------------------------------------------
(* What a step of the plugin may do to the rest. *)

(* The request the miner waits for stays as it is or comes a step further. *)
HandedOver == /\ req.st = "sent" /\ req'.st = "waiting"
              /\ req.op = "start" => req'.job \in registry'
              /\ req.op # "start" => job \in registry
              /\ req.op = "advance" => ~blocked[job]
Refused    == /\ req.st = "sent" /\ req'.st = "done" /\ req'.mask = req.mask
              /\ \/ req.op = "coreprotect" /\ req'.ans \in {"ok", "unsafe"}
                 \/ req.op \in {"advance", "stop"} /\ req'.ans = "error" /\ job \notin registry
                 \/ req.op = "advance" /\ req'.ans = "liquid"
Looked     == /\ req.st = "sent" /\ req'.st = "done" /\ req.op = "eval"
              /\ req'.ans \in {"ok", "unsafe", "liquid"}
              /\ req'.ans \in {"ok", "unsafe"} /\ job \in registry =>
                   req'.mask = AskedAt(step) \cap Frontier(progress[job])
Worked     == /\ req.st = "waiting" /\ req'.st = "ran" /\ req'.job = req.job
              /\ req.op = "advance" => progress'[job] = Farther(progress[job])
              /\ req.op = "stop" => region'[job] = NoRegion
GivenUp    == req.st = "waiting" /\ req'.st = "done" /\ req'.ans = "error" /\ faults' = faults + 1
Replied    == /\ req.st = "ran" /\ req'.st = "done" /\ req'.job = req.job /\ req'.ans \in {"ok", "finished"}
              /\ req'.ans = "finished" => req.op = "advance" /\ progress[job] >= Length
              /\ req.op = "stop" => job \notin registry'

ReqMoves == \/ req' = req
            \/ /\ req'.op = req.op
               /\ HandedOver \/ Refused \/ Looked \/ Worked \/ GivenUp \/ Replied

(* The plugin's own state.                                                 *)
JobsMove ==
  /\ \A j \in Jobs : progress[j] <= progress'[j] /\ (blocked[j] => blocked'[j])
  /\ (found => found') /\ (found' => found \/ (job > 0 /\ blocked'[job]))
  /\ job \in registry' => job \in registry
  /\ \A j \in Jobs : region'[j] = region[j] \/ (tasks # <<>> /\ tasks[1].job = j)

(* The advances still to come, and what they do.                           *)
AdvancesMove ==
  /\ Advances' \subseteq Advances
  /\ \/ progress' = progress
     \/ /\ \A j \in Jobs : progress'[j] <= progress[j] + 1
        /\ \E n \in Advances : n \notin Advances'

(* Without a fault nothing is left behind.                                 *)
TidyMove ==
  faults' = faults /\ Settled =>
    /\ Settled'
    /\ registry \subseteq registry' \/ (pc = "stop" /\ req'.st = "done")

Effect == /\ Base' /\ StartCount' <= StartCount /\ UNCHANGED minerVars
          /\ faults' \in {faults, faults + 1}
          /\ ReqMoves /\ JobsMove /\ AdvancesMove /\ TidyMove

LEMMA ReqIs ==
  ASSUME Base, req \in Live
  PROVE  /\ pc \in Ops /\ req.op = pc /\ req \in Reqs
         /\ req.op # "start" => req.job = job /\ req.step = step /\ job > 0
<1>1. pc \notin {"idle", "done"}
  BY LiveIs DEF Base, MinerSays
<1>2. pc \in Ops /\ req \in Reqs
  BY <1>1 DEF Base, TunnelTyped
<1> QED BY <1>2 DEF Base, MinerSays, RequestsSay, Under

LEMMA ReplyIs ==
  ASSUME NEW r \in Reqs, NEW a \in Answers
  PROVE  /\ [r EXCEPT !.st = "done", !.ans = a] \in Reqs
         /\ [r EXCEPT !.st = "done", !.ans = a].op = r.op /\ [r EXCEPT !.st = "done", !.ans = a].job = r.job
         /\ [r EXCEPT !.st = "done", !.ans = a].step = r.step /\ [r EXCEPT !.st = "done", !.ans = a].n = r.n
         /\ [r EXCEPT !.st = "done", !.ans = a].st = "done" /\ [r EXCEPT !.st = "done", !.ans = a].ans = a
         /\ [r EXCEPT !.st = "done", !.ans = a].mask = r.mask
<1>1. \A x \in Reqs : [x EXCEPT !.st = "done"] \in Reqs
  BY DEF Reqs, Statuses
<1>2. \A x \in Reqs : [x EXCEPT !.ans = a] \in Reqs
  BY DEF Reqs
<1>3. [r EXCEPT !.st = "done", !.ans = a] = [[r EXCEPT !.st = "done"] EXCEPT !.ans = a]
  BY DEF Reqs
<1>4. [r EXCEPT !.st = "done", !.ans = a] \in Reqs
  BY <1>1, <1>2, <1>3
<1> QED BY <1>4 DEF Reqs

(* A thread answers without a fault.                                       *)
LEMMA ReplyStep ==
  ASSUME Base, NEW r \in Live, NEW a \in Answers, Reply(r, a), r.st # "waiting",
         UNCHANGED <<minerVars, tasks, issued, faults, progress, region>>, PluginTyped',
         r.op = "start" /\ a = "ok" => r.st = "ran"
  PROVE  /\ Base' /\ StartCount' <= StartCount /\ Advances' \subseteq Advances /\ (Settled => Settled')
         /\ \/ req' = req /\ r \in late
            \/ /\ r = req /\ req'.op = req.op /\ req'.st = "done" /\ req'.ans = a
               /\ req'.mask = req.mask /\ req'.job = req.job
<1> DEFINE q == [r EXCEPT !.st = "done", !.ans = a]
<1>1. r \in Reqs /\ r \in Under
  BY LiveIs
<1>2. /\ q \in Reqs /\ q.op = r.op /\ q.n = r.n /\ q.step = r.step /\ q.job = r.job
      /\ q.st = "done" /\ q.ans = a /\ q.mask = r.mask
  BY <1>1, ReplyIs
<1>3. Become(r, q)
  BY DEF Reply
<1> HIDE DEF q
<1>4. faults' \in 0..MaxFaults /\ faults <= faults'
  BY DEF Base, TunnelTyped
<1>5. Base' /\ StartCount' <= StartCount /\ Advances' \subseteq Advances /\ (Settled => Settled')
  BY <1>2, <1>3, <1>4, AnswerStep
<1>6. (r = req /\ req' = q) \/ (r \in late /\ req' = req)
  BY <1>1, <1>2, <1>3, BecomesOne DEF Base
<1> QED BY <1>2, <1>5, <1>6

LEMMA HandedIs ==
  ASSUME Base, NEW r \in Live, NEW j \in Nat, HandOver(r, j)
  PROVE  \/ req' = req /\ r \in late
         \/ r = req /\ req'.op = req.op /\ req'.st = "waiting" /\ req'.job = j
<1> DEFINE q == [r EXCEPT !.st = "waiting", !.job = j]
<1>1. r \in Reqs /\ r \in Under
  BY LiveIs
<1>2. q.op = r.op /\ q.n = r.n /\ q.st = "waiting" /\ q.job = j
  BY <1>1 DEF Reqs
<1>3. Become(r, q)
  BY DEF HandOver
<1> HIDE DEF q
<1> QED BY <1>1, <1>2, <1>3, BecomesOne DEF Base
-----------------------------------------------------------------------------
(* The plugin's actions. *)

LEMMA HandleStartStep ==
  ASSUME Base, NEW r \in Live, Handle(r), HandleStart(r)
  PROVE  Effect
<1>1. r.st = "sent" /\ r.op = "start" /\ issued' = issued + 1 /\ registry' = registry \cup {issued + 1}
      /\ HandOver(r, issued + 1) /\ UNCHANGED <<progress, blocked, found, minerVars, region, wet, faults, flows>>
  BY DEF Handle, HandleStart
<1>2. issued \in Nat /\ issued + 1 \in Nat /\ faults \in Nat
  BY IssuedBound
<1>3. PluginTyped'
  <2>1. \A j \in Jobs : region[j] # NoRegion => j <= issued + 1
    BY <1>2 DEF Base, TunnelTyped, Jobs
  <2>2. registry \cup {issued + 1} \subseteq 1..(issued + 1)
    BY <1>2 DEF Base, TunnelTyped
  <2> QED BY <1>1, <2>1, <2>2 DEF PluginTyped, Base, TunnelTyped
<1>4. Base' /\ StartCount' <= StartCount /\ Advances' \subseteq Advances /\ (Settled => Settled')
  BY <1>1, <1>2, <1>3, HandOverStep
<1>5. ReqMoves
  BY <1>1, <1>2, HandedIs DEF ReqMoves, HandedOver
<1>6. JobsMove
  <2>1. \A j \in Jobs : progress[j] <= progress[j]
    BY Sizes DEF Base, TunnelTyped
  <2>2. job # issued + 1
    BY <1>2 DEF Base, TunnelTyped
  <2> QED BY <1>1, <2>1, <2>2 DEF JobsMove, minerVars
<1>7. AdvancesMove /\ TidyMove
  BY <1>1, <1>4 DEF AdvancesMove, TidyMove
<1> QED BY <1>1, <1>4, <1>5, <1>6, <1>7 DEF Effect

LEMMA HandleOtherStep ==
  ASSUME Base, NEW r \in Live, Handle(r), HandleAdvance(r) \/ HandleStop(r)
  PROVE  Effect
<1>1. r.st = "sent" /\ r.op \in {"advance", "stop"}
      /\ UNCHANGED <<issued, registry, progress, blocked, found, minerVars, region, wet, faults, flows>>
  BY DEF Handle, HandleAdvance, HandleStop
<1>2. \/ r.job \notin registry /\ Reply(r, "error") /\ UNCHANGED tasks
      \/ r.op = "advance" /\ Reply(r, "liquid") /\ UNCHANGED tasks
      \/ r.job \in registry /\ HandOver(r, r.job) /\ (r.op = "advance" => ~blocked[r.job])
  BY DEF HandleAdvance, HandleStop
<1>3. PluginTyped'
  BY <1>1 DEF PluginTyped, Base, TunnelTyped
<1>4. r = req => r.job = job
  BY <1>1, ReqIs
<1>5. r \in Reqs /\ r.job \in Nat /\ {"error", "liquid"} \subseteq Answers
  <2>1. r \in Reqs /\ {"error", "liquid"} \subseteq Answers
    BY LiveIs DEF Answers
  <2>2. r.job \in {0} \cup Jobs
    BY <2>1 DEF Reqs
  <2> QED BY <2>1, <2>2, Sizes DEF Jobs
<1>6. /\ Base' /\ StartCount' <= StartCount /\ Advances' \subseteq Advances /\ (Settled => Settled')
      /\ ReqMoves
  <2>1. CASE r.job \notin registry /\ Reply(r, "error") /\ UNCHANGED tasks
    BY <1>1, <1>3, <1>4, <1>5, <2>1, ReplyStep DEF ReqMoves, Refused
  <2>2. CASE r.op = "advance" /\ Reply(r, "liquid") /\ UNCHANGED tasks
    BY <1>1, <1>3, <1>4, <1>5, <2>2, ReplyStep DEF ReqMoves, Refused
  <2>3. CASE r.job \in registry /\ HandOver(r, r.job) /\ (r.op = "advance" => ~blocked[r.job])
    <3>1. Base' /\ StartCount' <= StartCount /\ Advances' \subseteq Advances /\ (Settled => Settled')
      BY <1>1, <1>3, <1>5, <2>3, HandOverStep
    <3>2. ReqMoves
      BY <1>1, <1>4, <1>5, <2>3, HandedIs DEF ReqMoves, HandedOver
    <3> QED BY <3>1, <3>2
  <2> QED BY <1>2, <2>1, <2>2, <2>3
<1>7. JobsMove
  <2>1. \A j \in Jobs : progress[j] <= progress[j]
    BY Sizes DEF Base, TunnelTyped
  <2> QED BY <1>1, <2>1 DEF JobsMove, minerVars
<1>8. AdvancesMove /\ TidyMove
  BY <1>1, <1>6 DEF AdvancesMove, TidyMove
<1> QED BY <1>1, <1>6, <1>7, <1>8 DEF Effect

LEMMA HandleCoreProtectStep ==
  ASSUME Base, NEW r \in Live, Handle(r), HandleCoreProtect(r)
  PROVE  Effect
<1>1. r.st = "sent" /\ r.op = "coreprotect"
      /\ UNCHANGED <<tasks, issued, registry, progress, blocked, found, minerVars, region, wet, faults, flows>>
  BY DEF Handle, HandleCoreProtect
<1>2. PICK a \in {"ok", "unsafe"} : Reply(r, a)
  BY DEF HandleCoreProtect
<1>3. PluginTyped'
  BY <1>1 DEF PluginTyped, Base, TunnelTyped
<1>4. a \in Answers
  BY DEF Answers
<1>5. /\ Base' /\ StartCount' <= StartCount /\ Advances' \subseteq Advances /\ (Settled => Settled')
      /\ ReqMoves
  BY <1>1, <1>2, <1>3, <1>4, ReplyStep DEF ReqMoves, Refused
<1>6. JobsMove
  <2>1. \A j \in Jobs : progress[j] <= progress[j]
    BY Sizes DEF Base, TunnelTyped
  <2> QED BY <1>1, <2>1 DEF JobsMove, minerVars
<1>7. AdvancesMove /\ TidyMove
  BY <1>1, <1>5 DEF AdvancesMove, TidyMove
<1> QED BY <1>1, <1>5, <1>6, <1>7 DEF Effect

(* The slices asked about are slices.                                      *)
LEMMA AskedIs ==
  ASSUME NEW s \in Nat
  PROVE  /\ AskedAt(s) \subseteq Slices
         /\ \A x \in Slices : x \in AskedAt(s) <=> s <= x /\ x < s + Window
BY Sizes DEF AskedAt, Slices, Smaller

LEMMA HandleEvalStep ==
  ASSUME Base, NEW r \in Live, Handle(r), HandleEval(r)
  PROVE  Effect
<1> DEFINE zone == IF r.job \in registry THEN Frontier(progress[r.job]) ELSE {}
           mask == AskedAt(r.step) \cap zone
<1>1. r.st = "sent" /\ r.op = "eval"
      /\ UNCHANGED <<tasks, issued, registry, progress, minerVars, region, wet, faults, flows>>
  BY DEF Handle, HandleEval
<1>2. /\ r \in Reqs /\ r \in Under /\ r.step \in Nat /\ r.job = job /\ job \in Jobs /\ job > 0
      /\ faults \in 0..MaxFaults
  <2>1. r \in Reqs /\ r \in Under
    BY LiveIs
  <2>2. r.job = job /\ job > 0 /\ job \in Nat /\ job <= issued
    BY <1>1, <2>1 DEF Base, RequestsSay, TunnelTyped
  <2> QED BY <2>1, <2>2, IssuedBound DEF Reqs, Jobs
<1>3. mask \subseteq Slices
  BY <1>2, AskedIs
<1>4. \/ Reply(r, "liquid") /\ UNCHANGED <<blocked, found>>
      \/ Reply(r, "liquid") /\ BlockForLiquid(r.job) /\ found' = TRUE
      \/ /\ UNCHANGED <<blocked, found>>
         /\ \E a \in {"unsafe", "ok"} : Become(r, [r EXCEPT !.st = "done", !.ans = a, !.mask = mask])
  BY DEF HandleEval
<1> HIDE DEF mask, zone
<1>5. blocked' \in [Jobs -> BOOLEAN] /\ found' \in BOOLEAN /\ (\A j \in Jobs : blocked[j] => blocked'[j])
      /\ (found => found') /\ (found' => found \/ blocked'[job])
  <2>1. CASE UNCHANGED <<blocked, found>>
    BY <2>1 DEF Base, TunnelTyped
  <2>2. CASE BlockForLiquid(r.job) /\ found' = TRUE
    <3>1. blocked \in [Jobs -> BOOLEAN] /\ blocked' = [blocked EXCEPT ![job] = TRUE]
      BY <1>2, <2>2 DEF Base, TunnelTyped, BlockForLiquid
    <3> QED BY <1>2, <2>2, <3>1
  <2> QED BY <1>4, <2>1, <2>2
<1>6. PluginTyped'
  BY <1>1, <1>5 DEF PluginTyped, Base, TunnelTyped
<1>7. /\ Base' /\ StartCount' <= StartCount /\ Advances' \subseteq Advances /\ (Settled => Settled')
      /\ ReqMoves
  <2>1. CASE Reply(r, "liquid")
    <3>1. "liquid" \in Answers
      BY DEF Answers
    <3> QED BY <1>1, <1>6, <2>1, <3>1, ReplyStep DEF ReqMoves, Looked
  <2>2. CASE \E a \in {"unsafe", "ok"} : Become(r, [r EXCEPT !.st = "done", !.ans = a, !.mask = mask])
    <3>1. PICK a \in {"unsafe", "ok"} : Become(r, [r EXCEPT !.st = "done", !.ans = a, !.mask = mask])
      BY <2>2
    <3>2. "done" \in Statuses /\ a \in Answers
      BY DEF Statuses, Answers
    <3>3. \A x \in Reqs : [x EXCEPT !.st = "done"] \in Reqs
      BY <3>2 DEF Reqs
    <3>4. \A x \in Reqs : [x EXCEPT !.ans = a] \in Reqs
      BY <3>2 DEF Reqs
    <3>5. \A x \in Reqs : [x EXCEPT !.mask = mask] \in Reqs
      BY <1>3 DEF Reqs
    <3> DEFINE q == [r EXCEPT !.st = "done", !.ans = a, !.mask = mask]
    <3>6. q = [[[r EXCEPT !.st = "done"] EXCEPT !.ans = a] EXCEPT !.mask = mask]
      BY <1>2 DEF Reqs
    <3>7. q \in Reqs
      BY <1>2, <3>3, <3>4, <3>5, <3>6
    <3>8. q.op = r.op /\ q.n = r.n /\ q.step = r.step /\ q.job = r.job /\ q.st = "done" /\ q.ans = a /\ q.mask = mask
      BY <1>2 DEF Reqs
    <3> HIDE DEF q
    <3>9. Become(r, q)
      BY <3>1 DEF q
    <3>10. faults' \in 0..MaxFaults /\ faults <= faults'
      BY <1>1, <1>2
    <3>11. Base' /\ StartCount' <= StartCount /\ Advances' \subseteq Advances /\ (Settled => Settled')
      BY <1>1, <1>6, <3>7, <3>8, <3>9, <3>10, AnswerStep
    <3>12. (r = req /\ req' = q) \/ req' = req
      BY <1>2, <3>8, <3>9, BecomesOne DEF Base
    <3>13. r = req => r.step = step
      BY <1>1, ReqIs
    <3>14. r = req /\ job \in registry => mask = AskedAt(step) \cap Frontier(progress[job])
      BY <1>2, <3>13 DEF mask, zone
    <3>15. ReqMoves
      BY <1>1, <3>8, <3>12, <3>14 DEF ReqMoves, Looked
    <3> QED BY <3>11, <3>15
  <2> QED BY <1>4, <2>1, <2>2
<1>8. JobsMove
  <2>1. \A j \in Jobs : progress[j] <= progress[j]
    BY Sizes DEF Base, TunnelTyped
  <2> QED BY <1>1, <1>2, <1>5, <2>1 DEF JobsMove, minerVars
<1>9. AdvancesMove /\ TidyMove
  BY <1>1, <1>7 DEF AdvancesMove, TidyMove
<1> QED BY <1>1, <1>7, <1>8, <1>9 DEF Effect

LEMMA CompleteStep ==
  ASSUME Base, NEW r \in Live, Complete(r)
  PROVE  Effect
<1>1. r.st = "ran"
      /\ UNCHANGED <<tasks, issued, blocked, found, progress, minerVars, region, wet, faults, flows>>
  BY DEF Complete
<1>2. PICK a \in {"ok", "finished"} : Reply(r, a) /\ (a = "finished" => r.op = "advance" /\ progress[r.job] >= Length)
  BY DEF Complete
<1>3. /\ r.op = "stop" => registry' = registry \ {r.job}
      /\ r.op # "stop" => registry' = registry
  BY DEF Complete, RemoveJob
<1>4. PluginTyped'
  BY <1>1, <1>3 DEF PluginTyped, Base, TunnelTyped
<1>5. a \in Answers
  BY DEF Answers
<1>6. /\ Base' /\ StartCount' <= StartCount /\ Advances' \subseteq Advances /\ (Settled => Settled')
      /\ \/ req' = req /\ r \in late
         \/ r = req /\ req'.op = req.op /\ req'.st = "done" /\ req'.ans = a /\ req'.job = req.job
  BY <1>1, <1>2, <1>4, <1>5, ReplyStep
<1>7. r = req /\ r.op # "start" => r.job = job
  BY ReqIs
<1>8. ReqMoves
  BY <1>1, <1>2, <1>3, <1>6, <1>7 DEF ReqMoves, Replied
<1>9. JobsMove
  <2>1. \A j \in Jobs : progress[j] <= progress[j]
    BY Sizes DEF Base, TunnelTyped
  <2> QED BY <1>1, <1>3, <2>1 DEF JobsMove, minerVars
<1>10. TidyMove
  <2>1. CASE r.op = "stop"
    <3>1. Settled => r = req
      BY <1>6, <2>1 DEF Settled
    <3>2. r = req => pc = "stop"
      BY <2>1, ReqIs
    <3>3. r = req => req'.st = "done"
      <4>1. r \notin late \/ r # req
        BY DEF Base, Numbered, TunnelTyped, Reqs
      <4> QED BY <1>6, <4>1
    <3> QED BY <1>6, <3>1, <3>2, <3>3 DEF TidyMove
  <2>2. CASE r.op # "stop"
    BY <1>3, <1>6, <2>2 DEF TidyMove
  <2> QED BY <2>1, <2>2
<1>11. AdvancesMove
  BY <1>1, <1>6 DEF AdvancesMove
<1> QED BY <1>1, <1>6, <1>8, <1>9, <1>10, <1>11 DEF Effect

LEMMA SyncTimesOutStep ==
  ASSUME Base, NEW r \in Live, SyncTimesOut(r)
  PROVE  Effect
<1>1. r.st = "waiting" /\ faults' = faults + 1 /\ faults < MaxFaults /\ Reply(r, "error")
      /\ UNCHANGED <<tasks, issued, registry, blocked, found, progress, minerVars, region>>
  BY DEF SyncTimesOut, serverVars
<1>2. PluginTyped'
  BY <1>1 DEF PluginTyped, Base, TunnelTyped
<1> DEFINE q == [r EXCEPT !.st = "done", !.ans = "error"]
<1>3. r \in Reqs /\ r \in Under /\ r.n \in 0..faults /\ faults \in Nat /\ MaxFaults \in Nat
  BY LiveIs, IssuedBound
<1>4. q \in Reqs /\ q.op = r.op /\ q.n = r.n /\ q.step = r.step /\ q.job = r.job /\ q.st = "done" /\ q.ans = "error"
  <2>1. "error" \in Answers
    BY DEF Answers
  <2> QED BY <1>3, <2>1, ReplyIs
<1>5. Become(r, q)
  BY <1>1 DEF Reply
<1> HIDE DEF q
<1>6. faults' \in 0..MaxFaults /\ faults <= faults' /\ r.n < faults'
  BY <1>1, <1>3
<1>7. Base' /\ StartCount' <= StartCount /\ Advances' \subseteq Advances
  BY <1>1, <1>2, <1>4, <1>5, <1>6, AnswerStep
<1>8. (r = req /\ req' = q) \/ req' = req
  BY <1>3, <1>4, <1>5, BecomesOne DEF Base
<1>9. ReqMoves
  BY <1>1, <1>4, <1>8 DEF ReqMoves, GivenUp
<1>10. JobsMove
  <2>1. \A j \in Jobs : progress[j] <= progress[j]
    BY Sizes DEF Base, TunnelTyped
  <2> QED BY <1>1, <2>1 DEF JobsMove, minerVars
<1>11. AdvancesMove
  BY <1>1, <1>7 DEF AdvancesMove
<1>12. faults' # faults
  BY <1>1, <1>3
<1>13. TidyMove
  BY <1>12 DEF TidyMove
<1> QED BY <1>1, <1>7, <1>9, <1>10, <1>11, <1>13 DEF Effect

(* A task moves its job on, and so uses up an advance.                     *)
LEMMA MoveJobIs ==
  ASSUME Base, tasks # <<>>, MoveJob(Head(tasks))
  PROVE  /\ progress' \in [Jobs -> 0..Length] /\ tasks[1].job \in Jobs /\ tasks[1].op \in {"start", "advance", "stop"}
         /\ \A j \in Jobs : progress[j] <= progress'[j] /\ progress'[j] <= progress[j] + 1
         /\ tasks[1].op # "advance" => progress' = progress
         /\ tasks[1].op = "advance" => progress'[tasks[1].job] = Farther(progress[tasks[1].job])
<1>1. progress \in [Jobs -> 0..Length] /\ tasks[1] \in Tasks /\ Head(tasks) = tasks[1]
  BY TailIs DEF Base, TunnelTyped
<1>2. tasks[1].job \in Jobs /\ tasks[1].op \in {"start", "advance", "stop"}
  BY <1>1 DEF Tasks
<1>3. \A p \in 0..Length : Farther(p) \in 0..Length /\ p <= Farther(p) /\ Farther(p) <= p + 1
  BY Sizes DEF Farther, Smaller
<1>4. CASE tasks[1].op # "advance"
  <2>1. progress' = progress
    BY <1>1, <1>4 DEF MoveJob
  <2> QED BY <1>1, <1>2, <1>4, <2>1, Sizes
<1>5. CASE tasks[1].op = "advance"
  <2>1. progress' = [progress EXCEPT ![tasks[1].job] = Farther(progress[tasks[1].job])]
    BY <1>1, <1>5 DEF MoveJob
  <2>2. Farther(progress[tasks[1].job]) \in 0..Length
    BY <1>1, <1>2, <1>3
  <2>3. progress' \in [Jobs -> 0..Length]
    BY <1>1, <1>2, <2>1, <2>2
  <2>4. \A j \in Jobs : progress'[j] = IF j = tasks[1].job THEN Farther(progress[j]) ELSE progress[j]
    BY <1>1, <1>2, <2>1
  <2>5. \A j \in Jobs : progress[j] <= progress'[j] /\ progress'[j] <= progress[j] + 1
    <3> TAKE j \in Jobs
    <3>1. progress[j] \in 0..Length
      BY <1>1
    <3>2. progress[j] \in Nat
      BY <3>1, Sizes
    <3> QED BY <1>3, <2>4, <3>1, <3>2
  <2> QED BY <1>2, <1>5, <2>3, <2>4, <2>5
<1> QED BY <1>4, <1>5

LEMMA RunTaskStep ==
  ASSUME Base, RunTask
  PROVE  Effect
<1>1. /\ tasks # <<>> /\ MoveJob(Head(tasks)) /\ Resume(Head(tasks), "ran", "none") /\ tasks' = Tail(tasks)
      /\ region' = [region EXCEPT ![Head(tasks).job] = IF Head(tasks).op = "stop" THEN NoRegion
                                                       ELSE progress'[Head(tasks).job]]
      /\ UNCHANGED <<issued, registry, blocked, found, minerVars, faults>>
  BY DEF RunTask
<1>2. Head(tasks) = tasks[1] /\ tasks[1] \in Tasks /\ 1 \in 1..Len(tasks)
  BY <1>1, TailIs DEF Base
<1>3. /\ progress' \in [Jobs -> 0..Length] /\ tasks[1].job \in Jobs /\ tasks[1].op \in {"start", "advance", "stop"}
      /\ \A j \in Jobs : progress[j] <= progress'[j] /\ progress'[j] <= progress[j] + 1
      /\ tasks[1].op # "advance" => progress' = progress
      /\ tasks[1].op = "advance" => progress'[tasks[1].job] = Farther(progress[tasks[1].job])
  BY <1>1, MoveJobIs
<1>4. /\ region' \in [Jobs -> Int]
      /\ \A j \in Jobs : j # tasks[1].job => region'[j] = region[j]
      /\ tasks[1].op = "stop" => region'[tasks[1].job] = NoRegion
  <2>1. (IF tasks[1].op = "stop" THEN NoRegion ELSE progress'[tasks[1].job]) \in Int
    BY <1>3, Sizes DEF NoRegion
  <2>2. region \in [Jobs -> Int]
    BY DEF Base, TunnelTyped
  <2> QED BY <1>1, <1>2, <1>3, <2>1, <2>2
<1>5. PluginTyped'
  <2>1. tasks[1].job <= issued
    BY <1>2 DEF Base, TasksSay
  <2>2. \A j \in Jobs : region'[j] # NoRegion => j <= issued
    BY <1>4, <2>1 DEF Base, TunnelTyped
  <2> QED BY <1>1, <1>3, <1>4, <2>2 DEF PluginTyped, Base, TunnelTyped
<1>6. faults' \in 0..MaxFaults /\ faults <= faults'
  BY <1>1, IssuedBound
<1>7. /\ Base' /\ StartCount' <= StartCount /\ Advances' \subseteq Advances
      /\ tasks[1].op = "advance" => tasks[1].n \in Advances /\ tasks[1].n \notin Advances'
      /\ Settled => Settled'
  BY <1>1, <1>5, <1>6, TaskOver
<1>8. ReqMoves
  <2>1. CASE UNCHANGED <<req, late>>
    BY <2>1 DEF ReqMoves
  <2>2. CASE \E r \in Live, q \in Reqs :
               /\ Become(r, q) /\ r.n = tasks[1].n /\ r.st = "waiting" /\ r.op = tasks[1].op /\ r.job = tasks[1].job
               /\ q.op = r.op /\ q.n = r.n /\ q.step = r.step /\ q.job = r.job /\ q.st = "ran" /\ q.ans = "none"
    <3>1. PICK r \in Live, q \in Reqs :
                 /\ Become(r, q) /\ r.n = tasks[1].n /\ r.st = "waiting" /\ r.op = tasks[1].op /\ r.job = tasks[1].job
                 /\ q.op = r.op /\ q.n = r.n /\ q.step = r.step /\ q.job = r.job /\ q.st = "ran" /\ q.ans = "none"
      BY <2>2
    <3>2. (r = req /\ req' = q) \/ req' = req
      BY <3>1, LiveIs, BecomesOne DEF Base
    <3>3. r = req /\ r.op # "start" => r.job = job
      BY ReqIs
    <3> QED BY <1>3, <1>4, <3>1, <3>2, <3>3 DEF ReqMoves, Worked
  <2> QED BY <1>1, <2>1, <2>2, ResumeIs
<1>9. JobsMove
  BY <1>1, <1>3, <1>4 DEF JobsMove
<1>10. AdvancesMove
  BY <1>3, <1>7 DEF AdvancesMove
<1>11. TidyMove
  BY <1>1, <1>7 DEF TidyMove
<1> QED BY <1>1, <1>7, <1>8, <1>9, <1>10, <1>11 DEF Effect

LEMMA TaskFailsStep ==
  ASSUME Base, TaskFails
  PROVE  Effect
<1>1. /\ tasks # <<>> /\ MoveJob(Head(tasks)) /\ Resume(Head(tasks), "done", "error") /\ tasks' = Tail(tasks)
      /\ faults' = faults + 1 /\ faults < MaxFaults
      /\ UNCHANGED <<issued, registry, blocked, region, found, minerVars>>
  BY DEF TaskFails
<1>2. /\ progress' \in [Jobs -> 0..Length]
      /\ \A j \in Jobs : progress[j] <= progress'[j] /\ progress'[j] <= progress[j] + 1
      /\ tasks[1].op # "advance" => progress' = progress
  BY <1>1, MoveJobIs
<1>3. PluginTyped'
  BY <1>1, <1>2 DEF PluginTyped, Base, TunnelTyped
<1>4. faults' \in 0..MaxFaults /\ faults <= faults' /\ faults' # faults
  BY <1>1, IssuedBound
<1>5. /\ Base' /\ StartCount' <= StartCount /\ Advances' \subseteq Advances
      /\ tasks[1].op = "advance" => tasks[1].n \in Advances /\ tasks[1].n \notin Advances'
  BY <1>1, <1>3, <1>4, TaskOver
<1>6. ReqMoves
  <2>1. CASE UNCHANGED <<req, late>>
    BY <2>1 DEF ReqMoves
  <2>2. CASE \E r \in Live, q \in Reqs :
               /\ Become(r, q) /\ r.n = tasks[1].n /\ r.st = "waiting" /\ r.op = tasks[1].op /\ r.job = tasks[1].job
               /\ q.op = r.op /\ q.n = r.n /\ q.step = r.step /\ q.job = r.job /\ q.st = "done" /\ q.ans = "error"
    <3>1. PICK r \in Live, q \in Reqs :
                 /\ Become(r, q) /\ r.n = tasks[1].n /\ r.st = "waiting" /\ r.op = tasks[1].op /\ r.job = tasks[1].job
                 /\ q.op = r.op /\ q.n = r.n /\ q.step = r.step /\ q.job = r.job /\ q.st = "done" /\ q.ans = "error"
      BY <2>2
    <3>2. (r = req /\ req' = q) \/ req' = req
      BY <3>1, LiveIs, BecomesOne DEF Base
    <3> QED BY <1>1, <3>1, <3>2 DEF ReqMoves, GivenUp
  <2> QED BY <1>1, <2>1, <2>2, ResumeIs
<1>7. JobsMove
  BY <1>1, <1>2 DEF JobsMove
<1>8. AdvancesMove
  BY <1>2, <1>5 DEF AdvancesMove
<1>9. TidyMove
  BY <1>4 DEF TidyMove
<1> QED BY <1>1, <1>5, <1>6, <1>7, <1>8, <1>9 DEF Effect

LEMMA WorldStep ==
  ASSUME Base, Reload \/ Flow
  PROVE  Effect
<1>1. /\ UNCHANGED <<minerVars, req, late, tasks, issued, progress, blocked, region, found>>
      /\ \/ faults' = faults /\ registry' = registry
         \/ faults' = faults + 1 /\ faults < MaxFaults /\ registry' = {}
  BY DEF Reload, Flow, serverVars
<1>2. faults \in Nat /\ MaxFaults \in Nat /\ faults <= MaxFaults /\ issued \in Nat /\ Cardinality(Starts) \in Nat
  BY IssuedBound
<1>3. Starts' = Starts /\ Advances' = Advances /\ (Settled => Settled')
  BY <1>1 DEF Starts, Advances, Settled, Under
<1>4. TunnelTyped'
  <2>1. faults' \in 0..MaxFaults
    BY <1>1, <1>2
  <2>2. registry' \subseteq 1..issued
    BY <1>1 DEF Base, TunnelTyped
  <2> QED BY <1>1, <2>1, <2>2 DEF Base, TunnelTyped, minerVars
<1>5. MinerSays' /\ RequestsSay' /\ TasksSay' /\ OwnJobs'
  BY <1>1 DEF Base, MinerSays, RequestsSay, TasksSay, OwnJobs, Under, minerVars
<1>6. Numbered'
  <2>1. req.n \in Nat /\ \A x \in Under : x.n \in Nat
    BY DEF Base, TunnelTyped, Reqs, Under
  <2>2. Under' = Under
    BY <1>1 DEF Under
  <2>3. \A i \in 1..Len(tasks), x \in Under : tasks[i].n = x.n =>
          \/ x.st = "waiting" /\ tasks[i].op = x.op /\ tasks[i].job = x.job
          \/ x.st = "done" /\ x.n < faults'
    <3> SUFFICES ASSUME NEW i \in 1..Len(tasks), NEW x \in Under, tasks[i].n = x.n
                 PROVE  \/ x.st = "waiting" /\ tasks[i].op = x.op /\ tasks[i].job = x.job
                        \/ x.st = "done" /\ x.n < faults'
      OBVIOUS
    <3> QED BY <1>1, <1>2, <2>1 DEF Base, Numbered
  <2>4. req.n <= faults'
    BY <1>1, <1>2, <2>1 DEF Base, Numbered
  <2> QED BY <1>1, <2>2, <2>3, <2>4 DEF Base, Numbered
<1>7. StartCount' = StartCount /\ StartCount \in Nat
  BY <1>1, <1>2, <1>3 DEF StartCount
<1>8. StartsCounted'
  BY <1>1, <1>2, <1>7 DEF Base, StartsCounted, minerVars
<1>9. JobsMove
  <2>1. \A j \in Jobs : progress[j] <= progress[j]
    BY Sizes DEF Base, TunnelTyped
  <2> QED BY <1>1, <2>1 DEF JobsMove, minerVars
<1>10. TidyMove /\ AdvancesMove /\ ReqMoves
  BY <1>1, <1>2, <1>3 DEF TidyMove, AdvancesMove, ReqMoves
<1> QED BY <1>1, <1>4, <1>5, <1>6, <1>7, <1>8, <1>9, <1>10 DEF Effect, Base

LEMMA PluginStep ==
  ASSUME Base, Plugin \/ Faulty \/ Flow
  PROVE  Effect
<1>1. CASE \E r \in Live : Handle(r)
  <2>1. PICK r \in Live : Handle(r)
    BY <1>1
  <2> QED BY <2>1, HandleStartStep, HandleOtherStep, HandleEvalStep, HandleCoreProtectStep DEF Handle
<1>2. CASE \E r \in Live : Complete(r)
  BY <1>2, CompleteStep
<1>3. CASE \E r \in Live : SyncTimesOut(r)
  BY <1>3, SyncTimesOutStep
<1>4. CASE RunTask
  BY <1>4, RunTaskStep
<1>5. CASE TaskFails
  BY <1>5, TaskFailsStep
<1>6. CASE Reload \/ Flow
  BY <1>6, WorldStep
<1> QED BY <1>1, <1>2, <1>3, <1>4, <1>5, <1>6 DEF Plugin, Faulty
-----------------------------------------------------------------------------
(* A job is moved once for each step and each fault, and not at all before *)
(* the first step.                                                         *)
AdvancesCounted ==
  /\ \A j \in Jobs : progress[j] + Cardinality(Advances) <= step + faults
  /\ step = 0 => Advances = {} /\ \A j \in Jobs : progress[j] = 0

(* Once a liquid is found the job is blocked, and of the batches under way *)
(* only one is mined before the miner learns of it.                        *)
AfterLiquid ==
  /\ found => job > 0 /\ blocked[job]
  /\ after <= 1
  /\ after = 1 => /\ found
                  /\ \/ pc \in {"stop", "done"}
                     \/ pc = "advance" /\ (req.st = "sent" \/ (req.st = "done" /\ req.ans \in {"liquid", "error"}))

Granted == req.st = "done" /\ req.ans \in {"ok", "finished"}

(* The job is where the miner believes it is, or farther.                  *)
Reached ==
  /\ pc \in {"eval", "coreprotect"} => progress[job] >= step
  /\ pc = "advance" => /\ progress[job] >= step - 1
                       /\ req.st = "ran" \/ Granted => progress[job] >= step
                       /\ req.st = "done" /\ req.ans = "finished" => progress[job] >= Length

(* What was offered before step s: the slices of its window but the last.  *)
Past(s) == {x \in Slices : s > 0 /\ x < s - 1 + Window}

Covering == faults < Window =>
  /\ pc = "eval" /\ job \in registry => Past(step) \subseteq offered
  /\ pc = "eval" /\ job \in registry /\ req.st = "done" /\ req.ans \in {"ok", "unsafe"} =>
       Past(step + 1) \subseteq offered \cup req.mask
  /\ pc = "coreprotect" /\ job \in registry => Past(step + 1) \subseteq offered \cup allowed
  /\ pc = "advance" /\ (job \in registry \/ req.st \in {"waiting", "ran"} \/ Granted) => Past(step) \subseteq offered
  /\ ended = "finished" => offered = Slices

(* As long as each fault made a job of its own, every other job is in      *)
(* order, and so is what ends the run.                                     *)
Tight == pc # "idle" /\ StartCount = faults + 1

Tidy == Tight =>
  /\ Settled
  /\ req.op = "start" /\ req.st \in {"waiting", "ran", "done"} => req.job \in registry
  /\ pc \in {"eval", "coreprotect", "advance"} => job \in registry
  /\ pc = "stop" /\ req.st # "done" => job \in registry
  /\ pc = "stop" /\ req.st \in {"ran", "done"} => region[job] = NoRegion
  /\ pc = "stop" /\ req.st = "done" => job \notin registry
  /\ pc = "done" => job > 0 /\ job \notin registry /\ region[job] = NoRegion
  /\ req.st = "done" => req.ans # "error"

LEMMA JobIs ==
  ASSUME Base
  PROVE  /\ pc \in Ops \ {"start"} => job \in Jobs /\ job \in 1..issued
         /\ step \in 0..Length /\ job \in Nat /\ faults \in Nat /\ progress \in [Jobs -> 0..Length]
         /\ \A j \in Jobs : progress[j] \in Nat
<1>1. /\ job \in Nat /\ job <= issued /\ step \in 0..Length /\ progress \in [Jobs -> 0..Length]
      /\ faults \in Nat
  BY Sizes DEF Base, TunnelTyped
<1>2. \A j \in Jobs : progress[j] \in Nat
  BY <1>1, Sizes
<1>3. pc \in Ops \ {"start"} => job > 0
  BY DEF Base, MinerSays
<1> QED BY <1>1, <1>2, <1>3, IssuedBound DEF Jobs

LEMMA AdvanceSets ==
  /\ Advances \in SUBSET (0..MaxFaults) /\ Cardinality(Advances) \in Nat
  /\ Advances' \in SUBSET (0..MaxFaults) /\ Cardinality(Advances') \in Nat
<1>1. Advances \in SUBSET (0..MaxFaults) /\ Advances' \in SUBSET (0..MaxFaults)
  BY DEF Advances
<1> QED BY <1>1, Fewer

LEMMA CountedByMiner ==
  ASSUME Base, AdvancesCounted, Miner
  PROVE  AdvancesCounted'
<1>1. UNCHANGED <<late, tasks, issued, registry, progress, blocked, region, found, faults>>
  BY MinerMoves
<1>2. \/ step' = step /\ Advances' \subseteq Advances
      \/ step' = step + 1 /\ Advances' \subseteq Advances \cup {faults}
  <2>1. CASE req' = req /\ step' = step
    BY <1>1, <2>1 DEF Advances, Under
  <2>2. ASSUME NEW op \in Ops, req' = Request(op, job', step', faults),
               (op # "advance" /\ step' = step) \/ (op = "advance" /\ step' = step + 1)
        PROVE  \/ step' = step /\ Advances' \subseteq Advances
               \/ step' = step + 1 /\ Advances' \subseteq Advances \cup {faults}
    <3>1. req'.op = op /\ req'.n = faults
      BY <2>2 DEF Request
    <3>2. \A r \in Under' : r \in Under \/ (r.op = op /\ r.n = faults)
      BY <1>1, <3>1 DEF Under
    <3>3. \A n \in Advances' : n \in Advances \/ (op = "advance" /\ n = faults)
      BY <1>1, <3>2 DEF Advances
    <3> QED BY <2>2, <3>3
  <2>3. \/ req' = req /\ step' = step
        \/ \E op \in Ops : /\ req' = Request(op, job', step', faults)
                           /\ \/ op # "advance" /\ step' = step
                              \/ op = "advance" /\ step' = step + 1
    BY MinerMoves
  <2> QED BY <2>1, <2>2, <2>3
<1>3. \/ Cardinality(Advances') <= Cardinality(Advances)
      \/ step' = step + 1 /\ Cardinality(Advances') <= Cardinality(Advances) + 1
  BY <1>2, AdvanceSets, Fewer
<1>4. \A j \in Jobs : progress'[j] + Cardinality(Advances') <= step' + faults'
  <2> TAKE j \in Jobs
  <2>1. progress[j] + Cardinality(Advances) <= step + faults
    BY DEF AdvancesCounted
  <2>2. progress[j] \in Nat /\ step \in Nat /\ faults \in Nat
    BY JobIs
  <2> QED BY <1>1, <1>2, <1>3, <2>1, <2>2, AdvanceSets
<1>5. step' = 0 => Advances' = {} /\ \A j \in Jobs : progress'[j] = 0
  <2>1. step \in Nat
    BY JobIs
  <2> QED BY <1>1, <1>2, <2>1 DEF AdvancesCounted
<1> QED BY <1>4, <1>5 DEF AdvancesCounted

LEMMA CountedAtTimeout ==
  ASSUME Base, AdvancesCounted, TimesOut
  PROVE  AdvancesCounted'
<1>1. /\ faults' = faults + 1 /\ UNCHANGED <<pc, step, tasks, progress>>
      /\ pc \in Ops /\ req'.op = req.op /\ req'.n = faults + 1 /\ (\A r \in late' : r \in Under)
  BY TimesOutIs
<1>2. \A r \in Under' : r \in Under \/ (r.op = pc /\ r.n = faults + 1)
  BY <1>1 DEF Under, Base, MinerSays
<1>3. \A n \in Advances' : n \in Advances \/ (pc = "advance" /\ n = faults + 1)
  BY <1>1, <1>2 DEF Advances
<1>4. Cardinality(Advances') <= Cardinality(Advances) + 1
  <2>1. Advances' \subseteq Advances \cup {faults + 1}
    BY <1>3
  <2> QED BY <2>1, AdvanceSets, Fewer
<1>5. \A j \in Jobs : progress'[j] + Cardinality(Advances') <= step' + faults'
  <2> TAKE j \in Jobs
  <2>1. progress[j] + Cardinality(Advances) <= step + faults
    BY DEF AdvancesCounted
  <2>2. progress[j] \in Nat /\ step \in Nat /\ faults \in Nat
    BY JobIs
  <2> QED BY <1>1, <1>4, <2>1, <2>2, AdvanceSets
<1>6. step' = 0 => Advances' = {} /\ \A j \in Jobs : progress'[j] = 0
  <2>1. step = 0 => pc # "advance"
    BY DEF Base, MinerSays
  <2> QED BY <1>1, <1>3, <2>1 DEF AdvancesCounted
<1> QED BY <1>5, <1>6 DEF AdvancesCounted

LEMMA CountedByPlugin ==
  ASSUME Base, AdvancesCounted, Effect
  PROVE  AdvancesCounted'
<1>1. step' = step /\ faults' \in {faults, faults + 1} /\ AdvancesMove
  BY DEF Effect, minerVars
<1>2. step \in Nat /\ faults \in Nat /\ progress \in [Jobs -> 0..Length] /\ \A j \in Jobs : progress[j] \in Nat
  BY JobIs
<1>3. \A j \in Jobs : progress'[j] \in Int
  BY Sizes DEF Effect, Base, TunnelTyped
<1>4. \A j \in Jobs : progress'[j] + Cardinality(Advances') <= step' + faults'
  <2> TAKE j \in Jobs
  <2>1. progress[j] + Cardinality(Advances) <= step + faults
    BY DEF AdvancesCounted
  <2>2. CASE progress' = progress
    <3>1. Cardinality(Advances') <= Cardinality(Advances)
      BY <1>1, AdvanceSets, Fewer DEF AdvancesMove
    <3> QED BY <1>1, <1>2, <2>1, <2>2, <3>1, AdvanceSets
  <2>3. CASE (\A i \in Jobs : progress'[i] <= progress[i] + 1) /\ \E n \in Advances : n \notin Advances'
    <3>1. PICK n \in Advances : n \notin Advances'
      BY <2>3
    <3>2. Advances' \subseteq Advances \ {n}
      BY <1>1, <3>1 DEF AdvancesMove
    <3>3. Cardinality(Advances') <= Cardinality(Advances) - 1
      BY <3>1, <3>2, AdvanceSets, Fewer
    <3>4. progress'[j] <= progress[j] + 1
      BY <2>3
    <3> QED BY <1>1, <1>2, <1>3, <2>1, <3>3, <3>4, AdvanceSets
  <2> QED BY <1>1, <2>2, <2>3 DEF AdvancesMove
<1>5. step' = 0 => Advances' = {} /\ \A j \in Jobs : progress'[j] = 0
  BY <1>1 DEF AdvancesCounted, AdvancesMove
<1> QED BY <1>4, <1>5 DEF AdvancesCounted
-----------------------------------------------------------------------------
(* The liquid. *)

LEMMA SentIs ==
  ASSUME NEW op, NEW j, NEW s, Send(op, j, s)
  PROVE  pc' = op /\ req'.op = op /\ req'.job = j /\ req'.step = s /\ req'.st = "sent" /\ req'.ans = "none"
BY DEF Send, Request

LEMMA LiquidByMiner ==
  ASSUME Base, AfterLiquid, Miner
  PROVE  AfterLiquid'
<1>1. UNCHANGED <<found, blocked>> /\ after \in Nat
  BY MinerMoves DEF Base, TunnelTyped
<1>2. pc \in {"idle", "start"} => ~found /\ after = 0
  BY <1>1 DEF Base, MinerSays, AfterLiquid
<1>3. CASE Run \/ Started \/ StartFailed
  BY <1>1, <1>2, <1>3 DEF Run, Started, StartFailed, Answered, AfterLiquid
<1>4. CASE Evaluated
  BY <1>1, <1>4 DEF Evaluated, Answered, AfterLiquid
<1>5. CASE LiquidStop \/ LoopFails \/ HardStop
  BY <1>1, <1>5, SentIs DEF LiquidStop, LoopFails, HardStop, StopFor, AfterLiquid
<1>6. CASE Mine
  <2>1. after = 0 /\ pc' = "advance" /\ req'.st = "sent" /\ job' = job
    BY <1>1, <1>6, SentIs DEF Mine, Answered, AfterLiquid
  <2>2. after' = IF found THEN after + 1 ELSE after
    BY <1>6 DEF Mine
  <2> QED BY <1>1, <2>1, <2>2 DEF AfterLiquid
<1>7. CASE Advanced
  BY <1>1, <1>7, SentIs DEF Advanced, StopFor, Answered, AfterLiquid
<1>8. CASE Stopped
  BY <1>1, <1>8 DEF Stopped, AfterLiquid
<1> QED BY <1>3, <1>4, <1>5, <1>6, <1>7, <1>8 DEF Miner

LEMMA LiquidAtTimeout ==
  ASSUME Base, AfterLiquid, TimesOut
  PROVE  AfterLiquid'
BY TimesOutIs DEF AfterLiquid

LEMMA LiquidByPlugin ==
  ASSUME Base, AfterLiquid, Effect
  PROVE  AfterLiquid'
<1>1. UNCHANGED <<pc, job, after>> /\ JobsMove /\ ReqMoves
  BY DEF Effect, minerVars
<1>2. job > 0 => job \in Jobs
  BY IssuedBound DEF Base, TunnelTyped, Jobs
<1>3. found' => job > 0 /\ blocked'[job]
  BY <1>1, <1>2 DEF JobsMove, AfterLiquid
<1>4. found => found'
  BY <1>1 DEF JobsMove
<1>5. after = 1 => \/ pc \in {"stop", "done"}
                   \/ pc = "advance" /\ (req'.st = "sent" \/ (req'.st = "done" /\ req'.ans \in {"liquid", "error"}))
  <2> SUFFICES ASSUME after = 1, pc \notin {"stop", "done"}
               PROVE  pc = "advance" /\ (req'.st = "sent" \/ (req'.st = "done" /\ req'.ans \in {"liquid", "error"}))
    OBVIOUS
  <2>1. pc = "advance" /\ blocked[job] /\ (req.st = "sent" \/ (req.st = "done" /\ req.ans \in {"liquid", "error"}))
    BY DEF AfterLiquid
  <2>2. req.op = "advance"
    BY <2>1 DEF Base, MinerSays, Ops
  <2> QED BY <1>1, <2>1, <2>2 DEF ReqMoves, HandedOver, Refused, Looked, Worked, GivenUp, Replied
<1> QED BY <1>1, <1>3, <1>4, <1>5 DEF AfterLiquid
-----------------------------------------------------------------------------
(* How far the job is. *)

LEMMA ReachedByMiner ==
  ASSUME Base, Reached, Miner
  PROVE  Reached'
<1>1. UNCHANGED progress /\ step \in Nat
  BY MinerMoves, JobIs
<1>2. /\ pc \in Ops \ {"start"} => progress[job] \in Nat
      /\ pc = "start" /\ req.st = "done" /\ req.ans = "ok" => progress[req.job] \in Nat /\ step = 0
  <2>1. pc = "start" /\ req.st = "done" /\ req.ans = "ok" => req.job \in Jobs
    BY IssuedBound DEF Base, MinerSays, RequestsSay, Under, Ops, Jobs
  <2> QED BY <2>1, JobIs DEF Base, MinerSays
<1>3. CASE Run \/ StartFailed \/ Stopped
  BY <1>3, SentIs DEF Run, StartFailed, Stopped, Reached
<1>4. CASE Started
  BY <1>1, <1>2, <1>4, SentIs DEF Started, Answered, Reached
<1>5. CASE Evaluated
  BY <1>1, <1>5, SentIs DEF Evaluated, Answered, Reached
<1>6. CASE LiquidStop \/ LoopFails \/ HardStop
  BY <1>6, SentIs DEF LiquidStop, LoopFails, HardStop, StopFor, Reached
<1>7. CASE Mine
  <2>1. progress[job] >= step /\ pc = "coreprotect" /\ UNCHANGED <<job, progress>> /\ step' = step + 1
    BY <1>1, <1>7 DEF Mine, Answered, Reached
  <2>2. pc' = "advance" /\ req'.st = "sent"
    BY <1>7, SentIs DEF Mine
  <2>3. progress[job] \in Nat
    BY <1>2, <2>1 DEF Ops
  <2> QED BY <1>1, <2>1, <2>2, <2>3 DEF Reached, Granted
<1>8. CASE Advanced
  BY <1>1, <1>8, SentIs DEF Advanced, Answered, StopFor, Reached, Granted
<1> QED BY <1>3, <1>4, <1>5, <1>6, <1>7, <1>8 DEF Miner

LEMMA ReachedAtTimeout ==
  ASSUME Base, Reached, TimesOut
  PROVE  Reached'
BY TimesOutIs DEF Reached, Granted

LEMMA ReachedByPlugin ==
  ASSUME Base, Reached, Effect
  PROVE  Reached'
<1>1. UNCHANGED <<pc, job, step>> /\ JobsMove /\ ReqMoves
  BY DEF Effect, minerVars
<1>2. CASE pc \in {"eval", "coreprotect", "advance"}
  <2>1. job \in Jobs /\ progress[job] \in 0..Length /\ progress'[job] \in 0..Length /\ step \in 0..Length
    BY <1>2, JobIs DEF Ops, Effect, Base, TunnelTyped
  <2>2. progress[job] <= progress'[job] /\ Length \in Nat
    BY <1>1, <2>1, Sizes DEF JobsMove
  <2>3. CASE pc \in {"eval", "coreprotect"}
    BY <1>1, <2>1, <2>2, <2>3 DEF Reached
  <2>4. CASE pc = "advance"
    <3>1. req.op = "advance" /\ progress[job] >= step - 1
      BY <2>4 DEF Base, MinerSays, Ops, Reached
    <3>2. progress'[job] >= step - 1
      BY <2>1, <2>2, <3>1
    <3>3. CASE req' = req
      BY <1>1, <2>1, <2>2, <2>4, <3>2, <3>3 DEF Reached, Granted
    <3>4. CASE HandedOver \/ Refused \/ Looked \/ GivenUp
      BY <1>1, <2>4, <3>1, <3>2, <3>4 DEF Reached, Granted, HandedOver, Refused, Looked, GivenUp
    <3>5. CASE Worked
      <4>1. progress'[job] = Smaller(progress[job] + 1, Length) /\ req'.st = "ran"
        BY <3>1, <3>5 DEF Worked, Farther
      <4>2. progress'[job] >= step
        BY <2>1, <2>2, <3>1, <4>1 DEF Smaller
      <4> QED BY <1>1, <2>4, <3>2, <4>1, <4>2 DEF Reached, Granted
    <3>6. CASE Replied
      BY <1>1, <2>1, <2>2, <2>4, <3>1, <3>2, <3>6 DEF Replied, Reached, Granted
    <3> QED BY <1>1, <3>3, <3>4, <3>5, <3>6 DEF ReqMoves
  <2> QED BY <1>2, <2>3, <2>4
<1>3. CASE pc \notin {"eval", "coreprotect", "advance"}
  BY <1>1, <1>3 DEF Reached
<1> QED BY <1>2, <1>3
-----------------------------------------------------------------------------
(* What was offered. *)

(* As long as a job is not a window ahead, an evaluation leaves no gap     *)
(* between what was offered and what it allows.                            *)
LEMMA MaskCovers ==
  ASSUME Base, AdvancesCounted, Reached, Covering, faults < Window, pc = "eval", job \in registry
  PROVE  Past(step + 1) \subseteq offered \cup (AskedAt(step) \cap Frontier(progress[job]))
<1> SUFFICES ASSUME NEW x \in Slices, x < step + Window, x \notin Past(step)
             PROVE  x \in AskedAt(step) \cap Frontier(progress[job])
  <2>1. step \in Nat /\ Window \in Nat
    BY JobIs, Sizes
  <2>2. Past(step) \subseteq offered
    BY DEF Covering
  <2>3. \A x \in Past(step + 1) : x \in Slices /\ x < step + Window
    BY <2>1 DEF Past
  <2> QED BY <2>2, <2>3
<1>1. /\ step \in Nat /\ faults \in Nat /\ job \in Jobs /\ progress[job] \in 0..Length /\ x \in 0..(Length - 1)
      /\ Length \in Nat /\ Window \in Nat /\ Window >= 1 /\ Buffer \in Nat
  BY JobIs, Sizes DEF Ops, Slices
<1>2. progress[job] >= step
  BY DEF Reached
<1>3. step > 0 => x >= step - 1 + Window
  BY <1>1 DEF Past
<1>4. /\ progress[job] + Cardinality(Advances) <= step + faults /\ Cardinality(Advances) \in Nat
      /\ step = 0 => progress[job] = 0
  BY <1>1, AdvanceSets DEF AdvancesCounted
<1>5. x >= step
  BY <1>1, <1>3
<1>6. x \in AskedAt(step)
  BY <1>1, <1>5, AskedIs
<1>7. progress[job] <= x /\ progress[job] # Length
  <2>1. CASE step = 0
    BY <1>1, <1>4, <2>1
  <2>2. CASE step > 0
    BY <1>1, <1>3, <1>4, <2>2
  <2> QED BY <1>1, <2>1, <2>2
<1>8. progress[job] - Buffer <= x /\ x < Smaller(progress[job] + Window, Length) + Buffer
  <2>1. x < Smaller(progress[job] + Window, Length) /\ Smaller(progress[job] + Window, Length) \in Nat
    BY <1>1, <1>2 DEF Smaller
  <2> QED BY <1>1, <1>7, <2>1
<1>9. x \in Frontier(progress[job])
  BY <1>7, <1>8 DEF Frontier
<1> QED BY <1>6, <1>9

LEMMA CoveringByMiner ==
  ASSUME Base, AdvancesCounted, Reached, Covering, Miner
  PROVE  Covering'
<1> SUFFICES ASSUME faults' < Window
             PROVE  Covering'
  BY DEF Covering
<1>1. UNCHANGED <<registry, faults, progress>> /\ step \in Nat /\ faults < Window
  BY MinerMoves, JobIs
<1>2. /\ pc = "eval" /\ job \in registry => Past(step) \subseteq offered
      /\ pc = "eval" /\ job \in registry /\ req.st = "done" /\ req.ans \in {"ok", "unsafe"} =>
           Past(step + 1) \subseteq offered \cup req.mask
      /\ pc = "coreprotect" /\ job \in registry => Past(step + 1) \subseteq offered \cup allowed
      /\ pc = "advance" /\ (job \in registry \/ req.st \in {"waiting", "ran"} \/ Granted) => Past(step) \subseteq offered
      /\ ended = "finished" => offered = Slices
  BY <1>1 DEF Covering
<1>3. CASE Run \/ StartFailed \/ Stopped
  BY <1>2, <1>3, SentIs DEF Run, StartFailed, Stopped, Covering
<1>4. CASE Started
  <2>1. pc' = "eval" /\ req'.st = "sent" /\ step' = step /\ UNCHANGED <<offered, ended>> /\ pc = "start"
    BY <1>4, SentIs DEF Started, Answered
  <2>2. Past(step') = {}
    BY <2>1 DEF Past, Base, MinerSays
  <2> QED BY <1>2, <2>1, <2>2 DEF Covering
<1>5. CASE Evaluated
  <2>1. /\ pc' = "coreprotect" /\ UNCHANGED <<job, step, offered, ended>> /\ pc = "eval" /\ req.st = "done"
        /\ req.ans \in {"ok", "unsafe"} /\ allowed' = req.mask
    BY <1>5, SentIs DEF Evaluated, Answered
  <2>2. Past(step') = Past(step) /\ Past(step' + 1) = Past(step + 1)
    BY <2>1 DEF Past
  <2> QED BY <1>1, <1>2, <2>1, <2>2 DEF Covering
<1>6. CASE LiquidStop \/ LoopFails \/ HardStop
  BY <1>2, <1>6, SentIs DEF LiquidStop, LoopFails, HardStop, StopFor, Covering
<1>7. CASE Mine
  <2>1. /\ pc' = "advance" /\ req'.st = "sent" /\ UNCHANGED <<job, ended>> /\ pc = "coreprotect"
        /\ step' = step + 1 /\ offered' = offered \cup allowed
    BY <1>7, SentIs DEF Mine, Answered
  <2>2. ended = "finished" => offered' = Slices
    BY <1>2, <2>1 DEF Base, TunnelTyped
  <2>3. Past(step') = Past(step + 1)
    BY <2>1
  <2> QED BY <1>1, <1>2, <2>1, <2>2, <2>3 DEF Covering, Granted
<1>8. CASE Advanced
  <2>1. pc = "advance" /\ req.st = "done" /\ req.ans \in {"ok", "finished"} /\ UNCHANGED <<job, step, offered>>
    BY <1>8 DEF Advanced, Answered
  <2>2. Past(step) \subseteq offered /\ Past(step') = Past(step)
    BY <1>2, <2>1 DEF Granted
  <2>3. CASE req.ans = "finished"
    <3>1. pc' = "stop" /\ ended' = "finished"
      BY <1>8, <2>3, SentIs DEF Advanced, StopFor
    <3>2. progress[job] >= Length /\ job \in Jobs /\ step > 0
      BY <2>1, <2>3, JobIs DEF Reached, Ops, Base, MinerSays
    <3>3. progress[job] + Cardinality(Advances) <= step + faults /\ progress[job] \in Nat /\ faults \in Nat
      BY <3>2, JobIs DEF AdvancesCounted
    <3>4. Length <= step - 1 + Window
      BY <1>1, <3>2, <3>3, AdvanceSets, Sizes
    <3>5. \A x \in Slices : x < step - 1 + Window
      BY <1>1, <3>4, Sizes DEF Slices
    <3>6. Past(step) = Slices
      BY <3>2, <3>5 DEF Past
    <3>7. offered = Slices
      BY <2>2, <3>6 DEF Base, TunnelTyped
    <3> QED BY <2>1, <3>1, <3>7 DEF Covering
  <2>4. CASE req.ans # "finished" /\ step >= Length
    BY <1>8, <2>1, <2>4, SentIs DEF Advanced, StopFor, Covering
  <2>5. CASE req.ans # "finished" /\ ~(step >= Length)
    <3>1. pc' = "eval" /\ req'.st = "sent" /\ ended' = ended
      BY <1>8, <2>5, SentIs DEF Advanced
    <3> QED BY <1>2, <2>1, <2>2, <3>1 DEF Covering
  <2> QED BY <2>3, <2>4, <2>5
<1> QED BY <1>3, <1>4, <1>5, <1>6, <1>7, <1>8 DEF Miner

LEMMA CoveringAtTimeout ==
  ASSUME Base, Covering, TimesOut
  PROVE  Covering'
<1> SUFFICES ASSUME faults' < Window
             PROVE  Covering'
  BY DEF Covering
<1>1. /\ faults' = faults + 1 /\ UNCHANGED <<pc, step, job, ended, allowed, offered, registry>>
      /\ req'.st \in {"sent", "done"} /\ (req'.st = "done" => req'.ans = "error")
  BY TimesOutIs
<1>2. faults < Window
  BY <1>1, JobIs, Sizes
<1>3. Past(step') = Past(step) /\ Past(step' + 1) = Past(step + 1)
  BY <1>1
<1> QED BY <1>1, <1>2, <1>3 DEF Covering, Granted

LEMMA CoveringByPlugin ==
  ASSUME Base, AdvancesCounted, Reached, Covering, Effect
  PROVE  Covering'
<1> SUFFICES ASSUME faults' < Window
             PROVE  Covering'
  BY DEF Covering
<1>1. /\ UNCHANGED <<pc, step, job, ended, allowed, offered>> /\ (job \in registry' => job \in registry)
      /\ faults' \in {faults, faults + 1} /\ ReqMoves
  BY DEF Effect, JobsMove, minerVars
<1>2. faults < Window
  BY <1>1, JobIs, Sizes
<1>3. Past(step') = Past(step) /\ Past(step' + 1) = Past(step + 1)
  BY <1>1
<1>4. /\ pc = "eval" /\ job \in registry => Past(step) \subseteq offered
      /\ pc = "eval" /\ job \in registry /\ req.st = "done" /\ req.ans \in {"ok", "unsafe"} =>
           Past(step + 1) \subseteq offered \cup req.mask
      /\ pc = "coreprotect" /\ job \in registry => Past(step + 1) \subseteq offered \cup allowed
      /\ pc = "advance" /\ (job \in registry \/ req.st \in {"waiting", "ran"} \/ Granted) => Past(step) \subseteq offered
      /\ ended = "finished" => offered = Slices
  BY <1>2 DEF Covering
<1>5. pc \in Ops => req.op = pc
  BY DEF Base, MinerSays
<1>6. pc = "eval" /\ job \in registry /\ req'.st = "done" /\ req'.ans \in {"ok", "unsafe"} =>
        Past(step + 1) \subseteq offered \cup req'.mask
  <2> SUFFICES ASSUME pc = "eval", job \in registry, req'.st = "done", req'.ans \in {"ok", "unsafe"}
               PROVE  Past(step + 1) \subseteq offered \cup req'.mask
    OBVIOUS
  <2>1. req.op = "eval" /\ req.st \notin {"waiting", "ran"}
    BY <1>5 DEF Ops, Base, RequestsSay, Under
  <2>2. CASE req' = req
    BY <1>4, <2>2
  <2>3. CASE req' # req
    <3>1. Looked
      BY <1>1, <2>1, <2>3 DEF ReqMoves, HandedOver, Refused, Worked, GivenUp, Replied
    <3> QED BY <1>2, <3>1, MaskCovers DEF Looked
  <2> QED BY <2>2, <2>3
<1>7. pc = "advance" /\ (job \in registry' \/ req'.st \in {"waiting", "ran"} \/ Granted') => Past(step) \subseteq offered
  <2> SUFFICES ASSUME pc = "advance", req'.st \in {"waiting", "ran"} \/ Granted', req' # req
               PROVE  job \in registry \/ req.st \in {"waiting", "ran"} \/ Granted
    BY <1>1, <1>4 DEF Granted
  <2>1. req.op = "advance"
    BY <1>5 DEF Ops
  <2> QED BY <1>1, <2>1 DEF Granted, ReqMoves, HandedOver, Refused, Looked, Worked, GivenUp, Replied
<1> QED BY <1>1, <1>3, <1>4, <1>6, <1>7 DEF Covering
-----------------------------------------------------------------------------
(* What is left behind. *)

LEMMA CountIs ==
  ASSUME Base
  PROVE  StartCount \in Nat /\ faults \in Nat /\ (pc # "idle" => StartCount <= faults + 1)
BY IssuedBound DEF StartCount

(* A request that is answered has no task, so all tasks are of starts.     *)
LEMMA OnlyStartTasks ==
  ASSUME Settled, req.st # "waiting"
  PROVE  \A i \in 1..Len(tasks) : tasks[i].op = "start"
BY DEF Settled

LEMMA TidyByMiner ==
  ASSUME Base, Tidy, Miner
  PROVE  Tidy'
<1> SUFFICES ASSUME Tight'
             PROVE  Tidy'
  BY DEF Tidy
<1>1. UNCHANGED <<late, tasks, registry, region, faults>>
  BY MinerMoves
<1>2. /\ StartCount \in Nat /\ faults \in Nat
      /\ pc # "idle" => StartCount' = faults + 1 /\ StartCount' <= StartCount /\ StartCount <= faults + 1
  BY <1>1, CountIs, MinerStep DEF Tight
<1>3. CASE pc = "idle"
  <2>1. pc' = "start" /\ req'.op = "start" /\ req'.st = "sent"
    BY <1>3, SentIs DEF Miner, Run, Started, StartFailed, Evaluated, LiquidStop, LoopFails, HardStop, Mine, Advanced,
       Stopped, Answered
  <2>2. late = {} /\ Len(tasks) = 0
    BY <1>3 DEF Base, MinerSays
  <2>3. Settled'
    BY <1>1, <2>2 DEF Settled
  <2> QED BY <2>1, <2>3 DEF Tidy
<1>4. CASE pc # "idle"
  <2>1. Tight
    BY <1>2, <1>4 DEF Tight
  <2>2. /\ Settled
        /\ req.op = "start" /\ req.st \in {"waiting", "ran", "done"} => req.job \in registry
        /\ pc \in {"eval", "coreprotect", "advance"} => job \in registry
        /\ pc = "stop" /\ req.st \in {"ran", "done"} => region[job] = NoRegion
        /\ pc = "stop" /\ req.st = "done" => job \notin registry
        /\ req.st = "done" => req.ans # "error"
    BY <2>1 DEF Tidy
  <2>3. req.st = "done"
    BY <1>4 DEF Miner, Run, Started, StartFailed, Evaluated, LiquidStop, LoopFails, HardStop, Mine, Advanced, Stopped,
       Answered
  <2>4. Settled'
    BY <1>1, <2>2, <2>3 DEF Settled
  <2>5. pc \in Ops => req.op = pc
    BY DEF Base, MinerSays
  <2>6. CASE Run \/ StartFailed \/ LoopFails
    BY <1>4, <2>2, <2>6 DEF Run, StartFailed, LoopFails, Answered
  <2>7. CASE Started
    <3>1. pc = "start" /\ req.op = "start" /\ job' = req.job /\ pc' = "eval" /\ req'.op = "eval" /\ req'.st = "sent"
      BY <2>5, <2>7, SentIs DEF Started, Answered, Ops
    <3> QED BY <1>1, <2>2, <2>3, <2>4, <3>1 DEF Tidy
  <2>8. CASE Evaluated
    <3>1. pc = "eval" /\ job' = job /\ pc' = "coreprotect" /\ req'.op = "coreprotect" /\ req'.st = "sent"
      BY <2>8, SentIs DEF Evaluated, Answered
    <3> QED BY <1>1, <2>2, <2>4, <3>1 DEF Tidy
  <2>9. CASE LiquidStop \/ HardStop
    <3>1. /\ pc \in {"eval", "coreprotect", "advance"} /\ job' = job
          /\ pc' = "stop" /\ req'.op = "stop" /\ req'.st = "sent"
      BY <2>9, SentIs DEF LiquidStop, HardStop, StopFor, Answered
    <3> QED BY <1>1, <2>2, <2>4, <3>1 DEF Tidy
  <2>10. CASE Mine
    <3>1. pc = "coreprotect" /\ job' = job /\ pc' = "advance" /\ req'.op = "advance" /\ req'.st = "sent"
      BY <2>10, SentIs DEF Mine, Answered
    <3> QED BY <1>1, <2>2, <2>4, <3>1 DEF Tidy
  <2>11. CASE Advanced
    <3>1. /\ pc = "advance" /\ job' = job /\ pc' \in {"eval", "stop"} /\ req'.op \in {"eval", "stop"}
          /\ req'.st = "sent"
      BY <2>11, SentIs DEF Advanced, StopFor, Answered
    <3> QED BY <1>1, <2>2, <2>4, <3>1 DEF Tidy
  <2>12. CASE Stopped
    <3>1. pc = "stop" /\ job' = job /\ pc' = "done" /\ req' = req
      BY <2>12 DEF Stopped, Answered
    <3>2. job > 0 /\ req.op = "stop"
      BY <2>5, <3>1 DEF Base, MinerSays, Ops
    <3> QED BY <1>1, <2>2, <2>3, <2>4, <3>1, <3>2 DEF Tidy
  <2> QED BY <2>6, <2>7, <2>8, <2>9, <2>10, <2>11, <2>12 DEF Miner
<1> QED BY <1>3, <1>4

LEMMA TidyAtTimeout ==
  ASSUME Base, Tidy, TimesOut
  PROVE  Tidy'
<1> SUFFICES ASSUME Tight'
             PROVE  Tidy'
  BY DEF Tidy
<1>1. /\ pc \in Ops /\ faults' = faults + 1 /\ UNCHANGED <<pc, step, job, tasks, registry, region>>
      /\ req'.op = req.op /\ (\A r \in late' : r \in Under)
  BY TimesOutIs
<1>2. StartCount \in Nat /\ faults \in Nat /\ StartCount <= faults + 1 /\ StartCount' = faults + 2
  BY <1>1, CountIs DEF Tight, Ops
<1>3. StartCount' <= StartCount + 1 /\ (~(pc = "start" /\ req'.st = "sent") => StartCount' <= StartCount)
  BY TimesOutStep
<1>4. pc = "start" /\ req'.st = "sent" /\ StartCount = faults + 1
  BY <1>2, <1>3
<1>5. Settled /\ req.op = "start"
  BY <1>1, <1>4 DEF Tidy, Tight, Base, MinerSays
<1>6. Settled'
  <2>1. \A r \in late' : r.op = "start"
    BY <1>1, <1>5 DEF Settled, Under
  <2>2. \A i \in 1..Len(tasks) : tasks[i].op = "start"
    <3> SUFFICES ASSUME NEW i \in 1..Len(tasks) PROVE tasks[i].op = "start"
      OBVIOUS
    <3>1. CASE tasks[i].n = req.n /\ req.st = "waiting"
      BY <1>5, <3>1 DEF Base, Numbered, Under
    <3> QED BY <1>5, <3>1 DEF Settled
  <2> QED BY <1>1, <2>1, <2>2 DEF Settled
<1> QED BY <1>1, <1>4, <1>5, <1>6 DEF Tidy

LEMMA TidyByPlugin ==
  ASSUME Base, Tidy, Effect
  PROVE  Tidy'
<1> SUFFICES ASSUME Tight'
             PROVE  Tidy'
  BY DEF Tidy
<1>1. UNCHANGED <<pc, step, job>> /\ ReqMoves /\ JobsMove /\ TidyMove /\ faults' \in {faults, faults + 1}
  BY DEF Effect, minerVars
<1>2. faults' = faults /\ Tight
  <2>1. /\ pc # "idle" /\ StartCount \in Nat /\ faults \in Nat /\ StartCount <= faults + 1
        /\ StartCount' = faults' + 1
    BY <1>1, CountIs DEF Tight
  <2>2. StartCount' <= StartCount
    BY DEF Effect
  <2>3. faults' = faults /\ StartCount = faults + 1
    <3>1. CASE faults' = faults + 1
      BY <2>1, <2>2, <3>1
    <3>2. CASE faults' = faults
      BY <2>1, <2>2, <3>2
    <3> QED BY <1>1, <3>1, <3>2
  <2> QED BY <2>1, <2>3 DEF Tight
<1>3. /\ Settled
      /\ req.op = "start" /\ req.st \in {"waiting", "ran", "done"} => req.job \in registry
      /\ pc \in {"eval", "coreprotect", "advance"} => job \in registry
      /\ pc = "stop" /\ req.st # "done" => job \in registry
      /\ pc = "stop" /\ req.st \in {"ran", "done"} => region[job] = NoRegion
      /\ pc = "stop" /\ req.st = "done" => job \notin registry
      /\ pc = "done" => job > 0 /\ job \notin registry /\ region[job] = NoRegion
      /\ req.st = "done" => req.ans # "error"
  BY <1>2 DEF Tidy
<1>4. /\ Settled'
      /\ registry \subseteq registry' \/ (pc = "stop" /\ req'.st = "done")
  BY <1>1, <1>2, <1>3 DEF TidyMove
<1>5. /\ pc \in Ops => req.op = pc
      /\ pc = "done" => req.st = "done"
      /\ pc \in Ops \ {"start"} => job > 0
  BY DEF Base, MinerSays
<1>6. \/ req' = req
      \/ req'.op = req.op /\ (HandedOver \/ Refused \/ Looked \/ Worked \/ Replied)
  BY <1>1, <1>2, CountIs DEF ReqMoves, GivenUp
<1>7. job \in registry' => job \in registry
  BY <1>1 DEF JobsMove
(* Only a task of the miner's own request touches its job.                 *)
<1>8. req.st # "waiting" /\ job \in Jobs => region'[job] = region[job]
  <2> SUFFICES ASSUME req.st # "waiting", job \in Jobs, tasks # <<>>, tasks[1].job = job
               PROVE  FALSE
    BY <1>1 DEF JobsMove
  <2>1. 1 \in 1..Len(tasks)
    BY TailIs DEF Base
  <2>2. tasks[1].op = "start"
    BY <1>3, <2>1 DEF Settled
  <2> QED BY <2>1, <2>2 DEF Base, OwnJobs
<1>9. pc \in {"stop", "done"} /\ job > 0 => job \in Jobs
  BY IssuedBound DEF Base, TunnelTyped, Jobs
<1>10. req'.op = "start" /\ req'.st \in {"waiting", "ran", "done"} => req'.job \in registry'
  <2> SUFFICES ASSUME req'.op = "start", req'.st \in {"waiting", "ran", "done"} PROVE req'.job \in registry'
    OBVIOUS
  <2>1. req.op = "start" /\ pc # "stop" /\ registry \subseteq registry'
    BY <1>4, <1>5, <1>6 DEF Ops
  <2>2. CASE req' = req
    BY <1>3, <2>1, <2>2
  <2>3. CASE HandedOver
    BY <2>1, <2>3 DEF HandedOver
  <2>4. CASE Worked \/ Replied
    <3>1. req.job \in registry
      BY <1>3, <2>1, <2>4 DEF Worked, Replied
    <3> QED BY <2>1, <2>4, <3>1 DEF Worked, Replied
  <2> QED BY <1>6, <2>1, <2>2, <2>3, <2>4 DEF Refused, Looked
<1>11. pc \in {"eval", "coreprotect", "advance"} => job \in registry'
  BY <1>3, <1>4
<1>12. pc = "stop" /\ req'.st # "done" => job \in registry'
  BY <1>3, <1>4, <1>6 DEF HandedOver, Refused, Looked, Worked, Replied
<1>13. pc = "stop" /\ req'.st \in {"ran", "done"} => region'[job] = NoRegion
  <2> SUFFICES ASSUME pc = "stop", req'.st \in {"ran", "done"} PROVE region'[job] = NoRegion
    OBVIOUS
  <2>1. req.op = "stop" /\ job > 0 /\ job \in Jobs
    BY <1>5, <1>9 DEF Ops
  <2>2. CASE req.st \in {"ran", "done"}
    BY <1>3, <1>8, <2>1, <2>2
  <2>3. CASE Worked
    BY <2>1, <2>3 DEF Worked
  <2> QED BY <1>3, <1>6, <2>1, <2>2, <2>3 DEF HandedOver, Refused, Looked, Replied
<1>14. pc = "stop" /\ req'.st = "done" => job \notin registry'
  <2> SUFFICES ASSUME pc = "stop", req'.st = "done" PROVE job \notin registry'
    OBVIOUS
  <2>1. req.op = "stop"
    BY <1>5 DEF Ops
  <2> QED BY <1>3, <1>6, <1>7, <2>1 DEF HandedOver, Refused, Looked, Worked, Replied
<1>15. pc = "done" => job > 0 /\ job \notin registry' /\ region'[job] = NoRegion
  BY <1>3, <1>5, <1>7, <1>8, <1>9
<1>16. req'.st = "done" => req'.ans # "error"
  <2> SUFFICES ASSUME req'.st = "done", req'.ans = "error", req' # req PROVE FALSE
    BY <1>3
  <2>1. Refused /\ req.op \in {"advance", "stop"} /\ job \notin registry /\ req.st = "sent"
    BY <1>6 DEF HandedOver, Refused, Looked, Worked, Replied
  <2>2. pc \in {"advance", "stop"}
    BY <1>5, <2>1 DEF Base, MinerSays, TunnelTyped
  <2> QED BY <1>3, <2>1, <2>2
<1> QED BY <1>1, <1>4, <1>10, <1>11, <1>12, <1>13, <1>14, <1>15, <1>16 DEF Tidy
-----------------------------------------------------------------------------
TunnelInv == Base /\ AdvancesCounted /\ AfterLiquid /\ Reached /\ Covering /\ Tidy

LEMMA TunnelInitHolds ==
  ASSUME TunnelInit
  PROVE  TunnelInv
<1>1. /\ pc = "idle" /\ step = 0 /\ job = 0 /\ allowed = {} /\ ended = "none" /\ offered = {} /\ after = 0
      /\ req = NoRequest /\ late = {} /\ tasks = <<>> /\ issued = 0 /\ registry = {}
      /\ progress = [j \in Jobs |-> 0] /\ blocked = [j \in Jobs |-> FALSE] /\ region = [j \in Jobs |-> NoRegion]
      /\ found = FALSE /\ faults = 0
  BY DEF TunnelInit
<1>2. Under = {NoRequest} /\ Len(tasks) = 0
  BY <1>1 DEF Under
<1>3. TunnelTyped
  <2>1. req \in Reqs
    BY <1>1, Sizes DEF NoRequest, Reqs, Ops, Statuses, Answers
  <2>2. progress \in [Jobs -> 0..Length] /\ blocked \in [Jobs -> BOOLEAN] /\ region \in [Jobs -> Int]
        /\ \A j \in Jobs : region[j] = NoRegion
    BY <1>1, Sizes DEF NoRegion
  <2>3. tasks \in Seq(Tasks)
    BY <1>1
  <2>4. 0 \in 0..MaxFaults /\ Length \in Nat
    BY Sizes
  <2>5. pc \in Ops \cup {"idle", "done"} /\ step \in Nat /\ step <= Length /\ job \in Nat /\ job <= issued
    BY <1>1, <2>4
  <2>6. late \subseteq Reqs /\ registry \subseteq 1..issued /\ allowed \subseteq Slices /\ offered \subseteq Slices
    BY <1>1
  <2>7. \A j \in Jobs : region[j] # NoRegion => j <= issued
    BY <2>2
  <2> QED BY <1>1, <2>1, <2>2, <2>3, <2>4, <2>5, <2>6, <2>7 DEF TunnelTyped
<1>4. MinerSays /\ RequestsSay /\ TasksSay
  BY <1>1, <1>2 DEF MinerSays, RequestsSay, TasksSay, NoRequest, Ops
<1>5. Numbered /\ OwnJobs /\ StartsCounted
  BY <1>1, <1>2 DEF Numbered, OwnJobs, StartsCounted, NoRequest
<1>6. Advances = {}
  BY <1>1, <1>2 DEF Advances, NoRequest
<1>7. AdvancesCounted
  BY <1>1, <1>6, FS_EmptySet DEF AdvancesCounted
<1>8. AfterLiquid /\ Reached /\ Covering /\ Tidy
  BY <1>1 DEF AfterLiquid, Reached, Covering, Tidy, Tight
<1> QED BY <1>3, <1>4, <1>5, <1>7, <1>8 DEF TunnelInv, Base

LEMMA TunnelStepHolds ==
  ASSUME TunnelInv, [TunnelNext]_tunnelVars
  PROVE  TunnelInv'
<1>1. Base /\ AdvancesCounted /\ AfterLiquid /\ Reached /\ Covering /\ Tidy
  BY DEF TunnelInv
<1>2. CASE Miner
  BY <1>1, <1>2, MinerStep, CountedByMiner, LiquidByMiner, ReachedByMiner, CoveringByMiner, TidyByMiner DEF TunnelInv
<1>3. CASE TimesOut
  BY <1>1, <1>3, TimesOutStep, CountedAtTimeout, LiquidAtTimeout, ReachedAtTimeout, CoveringAtTimeout, TidyAtTimeout
     DEF TunnelInv
<1>4. CASE Plugin \/ Faulty \/ Flow
  <2>1. Effect
    BY <1>1, <1>4, PluginStep
  <2>2. Base'
    BY <2>1 DEF Effect
  <2> QED BY <1>1, <2>1, <2>2, CountedByPlugin, LiquidByPlugin, ReachedByPlugin, CoveringByPlugin, TidyByPlugin
          DEF TunnelInv
<1>5. CASE UNCHANGED tunnelVars
  <2>1. UNCHANGED <<pc, step, job, allowed, ended, offered, after, req, late, tasks, issued, registry, progress, blocked,
                    region, found, faults>>
    BY <1>5 DEF tunnelVars, minerVars, serverVars
  <2>2. UNCHANGED <<Under, Starts, Advances, Settled, Granted>>
    BY <2>1 DEF Under, Starts, Advances, Settled, Granted
  <2>3. Base'
    BY <1>1, <2>1, <2>2 DEF Base, TunnelTyped, MinerSays, RequestsSay, TasksSay, Numbered, OwnJobs,
       StartsCounted, StartCount
  <2>4. AdvancesCounted' /\ AfterLiquid' /\ Reached' /\ Tidy'
    BY <1>1, <2>1, <2>2 DEF AdvancesCounted, AfterLiquid, Reached, Tidy, Tight, StartCount
  <2>5. Covering'
    BY <1>1, <2>1, <2>2 DEF Covering, Past
  <2> QED BY <2>3, <2>4, <2>5 DEF TunnelInv
<1> QED BY <1>2, <1>3, <1>4, <1>5 DEF TunnelNext

(* The invariant the theorems below rest on, of every state of every run.  *)
THEOREM TunnelInvariance == TunnelSpec => []TunnelInv
<1>1. TunnelInit => TunnelInv
  BY TunnelInitHolds
<1>2. TunnelInv /\ [TunnelNext]_tunnelVars => TunnelInv'
  BY TunnelStepHolds
<1> QED BY <1>1, <1>2, PTL DEF TunnelSpec

(* The rest of the types, which no other part of the invariant needs.      *)
TypeRest ==
  /\ attempts \in 0..(Retry + 1) /\ hazard \in BOOLEAN
  /\ region \in [Jobs -> -1..Length]
  /\ ended \in {"none", "liquid", "unsafe", "failed", "finished", "length"}
  /\ wet \subseteq Slices /\ flows \in 0..MaxFlows

LEMMA TypeRestKept ==
  ASSUME TunnelInv, TypeRest, [TunnelNext]_tunnelVars
  PROVE  TypeRest'
<1>1. Base /\ Retry \in Nat /\ MaxFlows \in Nat /\ 1 \in 0..(Retry + 1)
  BY Sizes DEF TunnelInv
<1>2. CASE Miner
  <2>1. UNCHANGED <<wet, flows, region>>
    BY <1>1, <1>2, MinerMoves
  <2>2. attempts' \in 0..(Retry + 1) /\ hazard' \in BOOLEAN
    BY <1>1, <1>2 DEF TypeRest, Miner, Run, Started, StartFailed, Evaluated, LiquidStop, LoopFails, HardStop, Mine,
       Advanced, Stopped, StopFor, Send
  <2>3. ended' \in {"none", "liquid", "unsafe", "failed", "finished", "length"}
    BY <1>2 DEF TypeRest, Miner, Run, Started, StartFailed, Evaluated, LiquidStop, LoopFails, HardStop, Mine,
       Advanced, Stopped, StopFor, Send
  <2> QED BY <2>1, <2>2, <2>3 DEF TypeRest
<1>3. CASE TimesOut
  <2>1. attempts' \in 0..(Retry + 1)
    BY <1>1, <1>3 DEF TypeRest, TimesOut
  <2> QED BY <1>3, <2>1 DEF TypeRest, TimesOut, serverVars
<1>4. CASE RunTask
  <2>1. /\ tasks # <<>> /\ MoveJob(Head(tasks))
        /\ region' = [region EXCEPT ![Head(tasks).job] = IF Head(tasks).op = "stop" THEN NoRegion
                                                         ELSE progress'[Head(tasks).job]]
        /\ UNCHANGED <<attempts, hazard, ended, wet, flows>>
    BY <1>4 DEF RunTask, minerVars
  <2>2. Head(tasks) = tasks[1] /\ tasks[1].job \in Jobs /\ progress' \in [Jobs -> 0..Length]
    BY <1>1, <2>1, TailIs, MoveJobIs DEF Base
  <2>3. progress'[tasks[1].job] \in -1..Length /\ NoRegion \in -1..Length
    <3>1. progress'[tasks[1].job] \in 0..Length
      BY <2>2
    <3> QED BY <3>1, Sizes DEF NoRegion
  <2>4. region' \in [Jobs -> -1..Length]
    BY <2>1, <2>2, <2>3 DEF TypeRest
  <2> QED BY <2>1, <2>4 DEF TypeRest
<1>5. CASE Flow
  <2>1. wet' \subseteq Slices /\ flows' \in 0..MaxFlows
    BY <1>1, <1>5 DEF TypeRest, Flow
  <2> QED BY <1>5, <2>1 DEF TypeRest, Flow, minerVars, serverVars
<1>6. CASE Faulty \/ \E r \in Live : Handle(r) \/ Complete(r)
  BY <1>6 DEF TypeRest, Faulty, TaskFails, Reload, SyncTimesOut, Handle, Complete, minerVars, serverVars
<1>7. CASE UNCHANGED tunnelVars
  BY <1>7 DEF TypeRest, tunnelVars, minerVars, serverVars
<1> QED BY <1>2, <1>3, <1>4, <1>5, <1>6, <1>7 DEF TunnelNext, Plugin

(* Every variable keeps to its type, of the requests and tasks under way   *)
(* their jobs, steps and numbers included.                                 *)
THEOREM TunnelTypesHold == TunnelSpec => []TunnelTypeOK
<1>1. TunnelInit => TypeRest
  <2> SUFFICES ASSUME TunnelInit PROVE TypeRest
    OBVIOUS
  <2>1. region = [j \in Jobs |-> NoRegion] /\ NoRegion \in -1..Length
    BY Sizes DEF TunnelInit, NoRegion
  <2>2. region \in [Jobs -> -1..Length]
    BY <2>1
  <2>3. wet \subseteq Slices
    BY DEF TunnelInit
  <2>4. attempts \in 0..(Retry + 1) /\ flows \in 0..MaxFlows /\ hazard = FALSE /\ ended = "none"
    BY Sizes DEF TunnelInit
  <2> QED BY <2>2, <2>3, <2>4 DEF TypeRest
<1>2. TunnelInv /\ TypeRest /\ [TunnelNext]_tunnelVars => TypeRest'
  BY TypeRestKept
<1>3. TunnelInv /\ TypeRest => TunnelTypeOK
  <2> SUFFICES ASSUME TunnelInv, TypeRest
               PROVE  TunnelTypeOK
    OBVIOUS
  <2>1. Base
    BY DEF TunnelInv
  <2>2. /\ issued \in Nat /\ issued <= MaxFaults + 1 /\ MaxFaults \in Nat /\ faults \in 0..MaxFaults
    BY <2>1, IssuedBound
  <2>3. req \in Reqs /\ late \subseteq Reqs /\ req.n \in Nat /\ req.n <= faults
    BY <2>1 DEF Base, TunnelTyped, Numbered, Reqs
  <2>4. \A r \in Reqs : r.n \in 0..MaxFaults => r \in Requests
    BY DEF Reqs, Requests, Statuses, Answers
  <2>5. req \in Requests
    <3>1. req.n \in 0..MaxFaults
      BY <2>2, <2>3
    <3> QED BY <2>3, <2>4, <3>1
  <2>6. late \subseteq Requests
    <3> SUFFICES ASSUME NEW r \in late PROVE r \in Requests
      OBVIOUS
    <3>1. r \in Reqs /\ r.n < req.n
      BY <2>1, <2>3 DEF Base, Numbered
    <3>2. r.n \in Nat
      BY <3>1 DEF Reqs
    <3>3. r.n \in 0..MaxFaults
      BY <2>2, <2>3, <3>1, <3>2
    <3> QED BY <2>4, <3>1, <3>3
  <2>7. tasks \in Seq([op : Ops, job : Jobs, n : 0..MaxFaults])
    <3>1. tasks \in Seq(Tasks) /\ \A i \in 1..Len(tasks) : tasks[i] \in Tasks
      BY <2>1 DEF Base, TunnelTyped
    <3>2. \A i \in 1..Len(tasks) : tasks[i] \in [op : Ops, job : Jobs, n : 0..MaxFaults]
      <4> SUFFICES ASSUME NEW i \in 1..Len(tasks)
                   PROVE  tasks[i] \in [op : Ops, job : Jobs, n : 0..MaxFaults]
        OBVIOUS
      <4>1. tasks[i] \in Tasks /\ tasks[i].n <= req.n
        BY <2>1, <3>1 DEF Base, Numbered
      <4>2. tasks[i].n \in Nat
        BY <4>1 DEF Tasks
      <4>3. tasks[i].n \in 0..MaxFaults
        BY <2>2, <2>3, <4>1, <4>2
      <4> QED BY <4>1, <4>3 DEF Tasks, Ops
    <3>3. Len(tasks) \in Nat /\ tasks = [i \in 1..Len(tasks) |-> tasks[i]]
      BY <3>1
    <3>4. tasks \in [1..Len(tasks) -> [op : Ops, job : Jobs, n : 0..MaxFaults]]
      BY <3>2, <3>3
    <3> QED BY <3>3, <3>4, SeqDef
  <2>8. step \in 0..Length /\ job \in 0..issued /\ issued \in {0} \cup Jobs
    BY <2>1, <2>2, Sizes DEF Base, TunnelTyped, Jobs
  <2> QED BY <2>1, <2>2, <2>5, <2>6, <2>7, <2>8 DEF TunnelTypeOK, TypeRest, Base, TunnelTyped
<1> QED BY <1>1, <1>2, <1>3, TunnelInvariance, PTL DEF TunnelSpec

(* After an evaluation of the job found a liquid in its frontier the miner *)
(* mines at most the batch it had already been told of, however late the   *)
(* answer is and even if the liquid is gone: BridgeServer's job stays      *)
(* blocked, and the miner advances between any two batches.                *)
THEOREM LiquidAlwaysStops == TunnelSpec => []StopsAfterLiquid
<1>1. TunnelInv => StopsAfterLiquid
  BY DEF TunnelInv, AfterLiquid, StopsAfterLiquid
<1> QED BY <1>1, TunnelInvariance, PTL

(* A run that ends because the plugin calls the job finished has offered   *)
(* every slice of the tunnel, if there were fewer faults than slices in    *)
(* the window: a retried advance moves the frontier twice, and the window  *)
(* hides that only as long as it is wide enough.                           *)
THEOREM FinishedIsCovered == TunnelSpec => []CoveredWhenFinished
<1>1. TunnelInv => CoveredWhenFinished
  BY DEF TunnelInv, Covering, CoveredWhenFinished
<1> QED BY <1>1, TunnelInvariance, PTL

(* Each job or region left behind when run and plugin are done has a fault *)
(* of its own: a start sent again makes a second job, and the job of a run *)
(* is cleared up unless a fault came in between.                           *)
THEOREM LeftoversHaveFaults == TunnelSpec => []LeftoversExplained
<1>1. TunnelInv => LeftoversExplained
  <2> SUFFICES ASSUME TunnelInv, pc = "done"
               PROVE  Cardinality(Left) <= faults
    BY DEF LeftoversExplained
  <2>1. Base /\ Tidy
    BY DEF TunnelInv
  <2>2. /\ issued \in Nat /\ faults \in Nat /\ Cardinality(Starts) \in Nat
        /\ issued + Cardinality(Starts) <= faults + 1
        /\ issued <= faults + 1
    BY <2>1, IssuedBound
  <2>3. Left \subseteq 1..issued
    <3>1. registry \subseteq 1..issued /\ \A j \in Jobs : region[j] # NoRegion => j <= issued
      BY <2>1 DEF Base, TunnelTyped
    <3>2. \A j \in Jobs : region[j] # NoRegion => j \in 1..issued
      BY <2>2, <3>1, Sizes DEF Jobs
    <3> QED BY <3>1, <3>2 DEF Left
  <2>4. IsFiniteSet(1..issued) /\ Cardinality(1..issued) = issued
    BY <2>2, FS_Interval
  <2>5. Cardinality(Left) \in Nat /\ Cardinality(Left) <= issued
    BY <2>3, <2>4, FS_Subset, FS_CardinalityType
  <2>6. CASE issued <= faults
    BY <2>2, <2>5, <2>6
  <2>7. CASE issued = faults + 1
    <3>1. Tight
      BY <2>2, <2>7 DEF Tight, StartCount
    <3>2. job > 0 /\ job \notin registry /\ region[job] = NoRegion
      BY <2>1, <3>1 DEF Tidy
    <3>3. job \in 1..issued /\ job \notin Left
      BY <2>1, <2>2, <3>2 DEF Base, TunnelTyped, Left
    <3>4. IsFiniteSet((1..issued) \ {job}) /\ Cardinality((1..issued) \ {job}) = issued - 1
      BY <2>2, <2>4, <3>3, FS_RemoveElement
    <3>5. Cardinality(Left) <= issued - 1
      <4>1. Left \subseteq (1..issued) \ {job}
        BY <2>3, <3>3
      <4> QED BY <3>4, <4>1, FS_Subset
    <3> QED BY <2>2, <2>5, <2>7, <3>5
  <2> QED BY <2>2, <2>6, <2>7
<1> QED BY <1>1, TunnelInvariance, PTL

-----------------------------------------------------------------------------
(* BuildingPhases *)

Shape ==
    /\ phase \in Phases /\ placed \in 0..Total
    /\ reserved \in Amounts /\ required \in Amounts
    /\ inventory \in [Materials -> Nat]
    /\ layout \in Layouts /\ counted \in BOOLEAN /\ rollbacks \in Nat

(* Blocks are handed out, and the later phases reached, only with a layout.*)
InLayout == /\ placed <= layout
            /\ phase \in {"placement", "inspection"} => layout > 0

(* A job that places blocks has reserved all it needs, as far as the last  *)
(* building step knew what that is.                                        *)
Secured == phase \in {"placement", "inspection"} /\ counted =>
               \A x \in Materials : reserved[x] = required[x]

Whole == phase = "inspection" => placed = layout

BuildInv == Shape /\ InLayout /\ Secured /\ Whole /\ CountIsTrue

(* The phase a rollback goes back to.                                      *)
LEMMA PhaseBeforeIs ==
    ASSUME NEW p \in Phases
    PROVE  /\ PhaseBefore(p) \in Phases
           /\ PhaseBefore(p) # "inspection"
           /\ PhaseBefore(p) = "placement" => p = "inspection"
           /\ p = "survey" => PhaseBefore(p) = "survey"
<1> DEFINE n == IF Order(p) = 0 THEN 0 ELSE Order(p) - 1
<1>1. \E q \in Phases : Order(q) = n
  BY DEF Phases, Order
<1>2. PhaseBefore(p) \in Phases /\ Order(PhaseBefore(p)) = n
  BY <1>1 DEF PhaseBefore
<1>3. /\ Order("survey") = 0 /\ Order("procurement") = 1
      /\ Order("placement") = 2 /\ Order("inspection") = 3
  BY DEF Order
<1>4. n \in {0, 1, 2} /\ (n = 2 => p = "inspection") /\ (p = "survey" => n = 0)
  BY <1>3 DEF Phases
<1> QED
  BY <1>2, <1>3, <1>4 DEF Phases

(* Where a batch ends, and when there is none.                             *)
LEMMA BatchBounds ==
    ASSUME Shape, InLayout
    PROVE  /\ BatchEnd \in Nat /\ BatchEnd <= layout
           /\ NextBatch = (placed + 1)..BatchEnd
           /\ NextBatch = {} => placed = layout /\ BatchEnd = layout
<1>1. Total \in Nat /\ Total > 0 /\ Batch \in Nat /\ Batch > 0
  BY SizesArePositive
<1>2. placed \in Nat /\ layout \in Nat /\ placed <= layout
  BY <1>1 DEF Shape, InLayout, Layouts
<1>3. /\ BatchEnd \in Nat /\ BatchEnd <= layout
      /\ placed < layout => placed < BatchEnd
      /\ layout <= placed => BatchEnd = layout
  BY <1>1, <1>2 DEF BatchEnd, Least
<1>4. NextBatch = (placed + 1)..BatchEnd
  BY <1>2, <1>3 DEF NextBatch
<1>5. placed < layout => BatchEnd \in NextBatch
  BY <1>2, <1>3, <1>4
<1>6. ASSUME NextBatch = {} PROVE placed = layout /\ BatchEnd = layout
  BY <1>2, <1>3, <1>5, <1>6
<1> QED
  BY <1>3, <1>4, <1>6

(* What a step reserves fits the requirement, and is all of it when        *)
(* nothing is missing.                                                     *)
LEMMA Reserving ==
    ASSUME Shape
    PROVE  /\ ReservedNext \in Amounts
           /\ Missing = {} => \A x \in Materials : ReservedNext[x] = required[x]
<1>1. Most \in Nat
  BY SizesArePositive
<1>2. ASSUME NEW x \in Materials
      PROVE  /\ required[x] \in 0..Most /\ reserved[x] \in 0..Most /\ inventory[x] \in Nat
             /\ ReservedNext[x] = Least(required[x], reserved[x] + inventory[x])
  BY DEF Shape, Amounts, ReservedNext
<1>3. ASSUME NEW x \in Materials
      PROVE  /\ ReservedNext[x] \in 0..Most
             /\ inventory[x] + reserved[x] >= required[x] => ReservedNext[x] = required[x]
  BY <1>1, <1>2 DEF Least
<1>4. ReservedNext \in Amounts
  BY <1>3 DEF ReservedNext, Amounts
<1>5. ASSUME Missing = {}, NEW x \in Materials PROVE ReservedNext[x] = required[x]
  BY <1>2, <1>3, <1>5 DEF Missing
<1> QED
  BY <1>4, <1>5

(* A job that has secured its materials misses none.                       *)
LEMMA SecuredMissesNone ==
    ASSUME Shape, Secured, phase \in {"placement", "inspection"}, counted
    PROVE  Missing = {}
<1>1. ASSUME NEW x \in Materials PROVE ~(inventory[x] + reserved[x] < required[x])
  <2>1. /\ reserved[x] = required[x]
        /\ inventory[x] \in Nat /\ reserved[x] \in Nat /\ required[x] \in Nat
    BY DEF Secured, Shape, Amounts
  <2> QED BY <2>1
<1> QED
  BY <1>1 DEF Missing

(* The phase a building step goes to: back to the survey only without a    *)
(* layout, and back to procurement only for what it did not know before.   *)
LEMMA PhaseNextIs ==
    ASSUME BuildInv
    PROVE  /\ PhaseNext \in Phases
           /\ PhaseNext \in {"placement", "inspection"} => Missing = {} /\ layout > 0
           /\ PhaseNext = "inspection" => NextBatch = {}
           /\ PhaseNext = "survey" => layout = 0
           /\ Order(PhaseNext) < Order(phase) =>
                 \/ phase = "procurement" /\ PhaseNext = "survey" /\ layout = 0
                 \/ PhaseNext = "procurement" /\ ~counted
<1>1. Shape /\ InLayout /\ Secured /\ Whole
  BY DEF BuildInv
<1>2. layout \in Nat /\ placed \in Nat /\ phase \in Phases
  BY <1>1, SizesArePositive DEF Shape, Layouts
<1>3. PhaseNext \in Phases
  <2>1. CASE Missing # {}
    BY <2>1 DEF PhaseNext, Phases
  <2>2. CASE Missing = {} /\ NextBatch # {}
    BY <2>2 DEF PhaseNext, Phases
  <2>3. CASE Missing = {} /\ NextBatch = {}
    BY <2>3 DEF PhaseNext, Phases
  <2> QED BY <2>1, <2>2, <2>3
<1>4. PhaseNext \in {"placement", "inspection"} => Missing = {}
  BY DEF PhaseNext
<1>5. PhaseNext = "inspection" => NextBatch = {}
  BY DEF PhaseNext
<1>6. NextBatch # {} => layout > 0
  BY <1>1, <1>2, BatchBounds
<1>7. PhaseNext \in {"placement", "inspection"} => layout > 0
  <2>1. CASE NextBatch # {}
    BY <2>1, <1>6
  <2>2. CASE NextBatch = {}
    <3>1. PhaseNext # "placement"
      BY <2>2 DEF PhaseNext
    <3>2. PhaseNext = "inspection" => layout > 0 \/ phase = "inspection"
      BY <2>2 DEF PhaseNext
    <3> QED BY <1>1, <3>1, <3>2 DEF InLayout
  <2> QED BY <2>1, <2>2
<1>8. PhaseNext = "survey" => layout = 0
  <2>1. PhaseNext = "survey" => NextBatch = {} /\ ~(layout > 0 /\ BatchEnd >= layout)
    BY DEF PhaseNext
  <2> QED BY <1>1, <1>2, <2>1, BatchBounds
<1>9. ASSUME Order(PhaseNext) < Order(phase)
      PROVE  \/ phase = "procurement" /\ PhaseNext = "survey" /\ layout = 0
             \/ PhaseNext = "procurement" /\ ~counted
  <2>1. \/ phase = "procurement" /\ PhaseNext = "survey"
        \/ phase = "placement" /\ PhaseNext \in {"survey", "procurement"}
        \/ phase = "inspection" /\ PhaseNext \in {"survey", "procurement", "placement"}
    BY <1>2, <1>3, <1>9 DEF Order, Phases
  <2>2. CASE phase = "procurement"
    BY <1>8, <2>1, <2>2
  <2>3. CASE phase \in {"placement", "inspection"}
    <3>1. PhaseNext # "survey"
      BY <1>1, <1>8, <2>3 DEF InLayout
    <3>2. PhaseNext = "placement" => phase = "inspection"
      BY <2>1, <2>3
    <3>3. phase = "inspection" => NextBatch = {}
      <4>1. phase = "inspection" => placed = layout
        BY <1>1 DEF Whole
      <4> QED BY <1>1, <1>2, <4>1, BatchBounds
    <3>4. PhaseNext # "placement"
      BY <3>2, <3>3 DEF PhaseNext
    <3>5. PhaseNext = "procurement"
      BY <2>1, <2>3, <3>1, <3>4
    <3>6. Missing # {}
      <4>1. Missing = {} => PhaseNext # "procurement"
        BY DEF PhaseNext
      <4> QED BY <3>5, <4>1
    <3> QED BY <1>1, <2>3, <3>5, <3>6, SecuredMissesNone DEF Shape
  <2> QED BY <2>1, <2>2, <2>3
<1> QED
  BY <1>3, <1>4, <1>5, <1>7, <1>8, <1>9

(* The empty checkpoint.                                                   *)
LEMMA BuildInitHolds == Init => BuildInv
<1> SUFFICES ASSUME Init PROVE BuildInv
  OBVIOUS
<1>1. Most \in Nat /\ Total \in Nat
  BY SizesArePositive
<1>2. None \in Amounts
  BY <1>1 DEF None, Amounts
<1>3. Shape
  <2>1. None \in [Materials -> Nat]
    BY DEF None
  <2>2. phase \in Phases /\ layout \in Layouts /\ counted \in BOOLEAN
    BY <1>1 DEF Init, Phases, Layouts
  <2>3. placed \in 0..Total /\ rollbacks \in Nat
    BY <1>1 DEF Init
  <2>4. reserved \in Amounts /\ required \in Amounts /\ inventory \in [Materials -> Nat]
    BY <1>2, <2>1 DEF Init
  <2> QED BY <2>2, <2>3, <2>4 DEF Shape
<1>4. CountIsTrue
  BY DEF Init, CountIsTrue
<1> QED
  BY <1>3, <1>4 DEF Init, BuildInv, InLayout, Secured, Whole

(* A building step keeps the invariant.                                    *)
LEMMA ProcessHolds ==
    ASSUME BuildInv, Process
    PROVE  BuildInv'
<1>1. Shape /\ InLayout /\ Secured /\ Whole /\ CountIsTrue
  BY DEF BuildInv
<1>2. /\ phase' = PhaseNext /\ placed' = PlacedNext(PhaseNext)
      /\ reserved' = ReservedNext /\ built' = built \cup NextBatch
      /\ counted' = TRUE
      /\ UNCHANGED <<layout, required, inventory, rollbacks>>
  BY DEF Process, survey
<1>3. /\ placed \in Nat /\ layout \in Nat /\ Total \in Nat
      /\ placed <= layout /\ layout <= Total
  BY <1>1, SizesArePositive DEF Shape, InLayout, Layouts
<1>4. /\ placed' \in Nat /\ placed' <= layout
      /\ built' = 1..placed'
      /\ (phase' = "inspection" => placed' = layout)
  <2>1. CASE NextBatch # {}
    <3>1. placed' = BatchEnd /\ phase' # "inspection"
      BY <1>2, <2>1, PhaseNextIs DEF PlacedNext
    <3>2. BatchEnd \in Nat /\ BatchEnd <= layout /\ NextBatch = (placed + 1)..BatchEnd
      BY <1>1, BatchBounds
    <3>3. placed < BatchEnd
      BY <1>3, <2>1, <3>2
    <3>4. built' = 1..BatchEnd
      BY <1>1, <1>2, <1>3, <3>2, <3>3 DEF CountIsTrue
    <3> QED BY <3>1, <3>2, <3>4
  <2>2. CASE NextBatch = {}
    <3>1. placed = layout
      BY <1>1, <2>2, BatchBounds
    <3>2. placed' = placed
      BY <1>2, <2>2, <3>1 DEF PlacedNext
    <3> QED BY <1>1, <1>2, <1>3, <2>2, <3>1, <3>2 DEF CountIsTrue
  <2> QED BY <2>1, <2>2
<1>5. Shape'
  <2>1. placed' \in 0..Total
    BY <1>3, <1>4
  <2> QED BY <1>1, <1>2, <2>1, PhaseNextIs, Reserving DEF Shape
<1>6. InLayout'
  BY <1>2, <1>4, PhaseNextIs DEF InLayout
<1>7. Secured'
  BY <1>1, <1>2, PhaseNextIs, Reserving DEF Secured
<1> QED
  BY <1>2, <1>4, <1>5, <1>6, <1>7 DEF BuildInv, Whole, CountIsTrue

(* A rollback keeps it.                                                    *)
LEMMA RollbackHolds ==
    ASSUME BuildInv, NEW tried \in 0..Batch, Rollback(phase, tried)
    PROVE  BuildInv'
<1>1. Shape /\ InLayout /\ Secured /\ CountIsTrue
  BY DEF BuildInv
<1>2. /\ phase' = PhaseBefore(phase) /\ placed' = KeptCount(phase', tried)
      /\ reserved' = IF phase' = "survey" THEN None ELSE reserved
      /\ built' = IF phase' = "survey" THEN {} ELSE {i \in built : i <= placed - tried}
      /\ rollbacks' = rollbacks + 1
      /\ UNCHANGED <<layout, required, counted, inventory>>
  BY DEF Rollback, survey
<1>3. /\ phase \in Phases /\ placed \in Nat /\ layout \in Nat /\ Total \in Nat
      /\ placed <= layout /\ layout <= Total /\ tried \in Nat
  BY <1>1, SizesArePositive DEF Shape, InLayout, Layouts
<1>4. /\ placed' \in Nat /\ placed' <= layout /\ built' = 1..placed'
      /\ (phase' = "survey" => placed' = 0)
  <2>1. CASE phase' = "survey"
    BY <1>2, <1>3, <2>1 DEF KeptCount
  <2>2. CASE phase' # "survey"
    <3>1. placed' = IF placed > tried THEN placed - tried ELSE 0
      BY <1>2, <2>2 DEF KeptCount
    <3>2. built' = {i \in 1..placed : i <= placed - tried}
      BY <1>1, <1>2, <2>2 DEF CountIsTrue
    <3> QED BY <1>3, <2>2, <3>1, <3>2
  <2> QED BY <2>1, <2>2
<1>5. Shape'
  <2>1. None \in Amounts
    BY SizesArePositive DEF None, Amounts
  <2>2. phase' \in Phases
    BY <1>2, <1>3, PhaseBeforeIs
  <2> QED BY <1>1, <1>2, <1>3, <1>4, <2>1, <2>2 DEF Shape
<1>6. InLayout'
  <2>1. phase' \in {"placement", "inspection"} => phase = "inspection"
    BY <1>2, <1>3, PhaseBeforeIs
  <2> QED BY <1>1, <1>2, <1>4, <2>1 DEF InLayout
<1>7. Secured'
  <2>1. phase' \in {"placement", "inspection"} => phase = "inspection" /\ phase' = "placement"
    BY <1>2, <1>3, PhaseBeforeIs
  <2>2. phase' = "placement" => reserved' = reserved
    BY <1>2
  <2> QED BY <1>1, <1>2, <2>1, <2>2 DEF Secured
<1>8. phase' # "inspection"
  BY <1>2, <1>3, PhaseBeforeIs
<1> QED
  BY <1>4, <1>5, <1>6, <1>7, <1>8 DEF BuildInv, Whole, CountIsTrue

(* Every step keeps the invariant.                                         *)
LEMMA BuildStepHolds == BuildInv /\ [Next]_vars => BuildInv'
<1> SUFFICES ASSUME BuildInv, [Next]_vars PROVE BuildInv'
  OBVIOUS
<1>1. Shape /\ InLayout /\ Secured /\ Whole /\ CountIsTrue
  BY DEF BuildInv
<1>2. CASE FindLayout
  <2>1. /\ layout = 0 /\ layout' \in Layouts \ {0}
        /\ UNCHANGED <<phase, reserved, placed, required, counted, inventory, built, rollbacks>>
    BY <1>2 DEF FindLayout, checkpoint
  <2>2. placed = 0 /\ phase \notin {"placement", "inspection"}
    BY <1>1, <2>1, SizesArePositive DEF InLayout, Shape
  <2>3. placed' <= layout'
    BY <2>1, <2>2, SizesArePositive DEF Layouts
  <2>4. Shape'
    BY <1>1, <2>1 DEF Shape
  <2> QED BY <1>1, <2>1, <2>2, <2>3, <2>4 DEF BuildInv, InLayout, Secured, Whole, CountIsTrue
<1>3. CASE CountMaterials
  <2>1. /\ required' \in Amounts /\ counted' = FALSE
        /\ UNCHANGED <<phase, reserved, placed, layout, inventory, built, rollbacks>>
    BY <1>3 DEF CountMaterials, checkpoint
  <2>2. Shape'
    BY <1>1, <2>1 DEF Shape
  <2> QED BY <1>1, <2>1, <2>2 DEF BuildInv, InLayout, Secured, Whole, CountIsTrue
<1>4. CASE Process
  BY <1>4, ProcessHolds
<1>5. CASE Fails
  BY <1>5, RollbackHolds DEF Fails
<1>6. ASSUME NEW x \in Materials, Gather(x) \/ Spend(x) PROVE BuildInv'
  <2>1. /\ inventory' \in [Materials -> Nat]
        /\ UNCHANGED <<phase, reserved, placed, layout, required, counted, built, rollbacks>>
    <3>1. CASE Gather(x)
      BY <1>1, <3>1 DEF Gather, Shape, checkpoint, survey
    <3>2. CASE Spend(x)
      BY <1>1, <3>2 DEF Spend, Shape, checkpoint, survey
    <3> QED BY <1>6, <3>1, <3>2
  <2>2. Shape'
    BY <1>1, <2>1 DEF Shape
  <2>3. Secured'
    BY <1>1, <2>1 DEF Secured
  <2> QED BY <1>1, <2>1, <2>2, <2>3 DEF BuildInv, InLayout, Whole, CountIsTrue
<1>7. CASE UNCHANGED vars
  <2>1. UNCHANGED <<phase, reserved, placed, layout, required, counted, inventory, built, rollbacks>>
    BY <1>7 DEF vars, checkpoint, survey
  <2>2. Shape'
    BY <1>1, <2>1 DEF Shape
  <2>3. Secured'
    BY <1>1, <2>1 DEF Secured
  <2> QED BY <1>1, <2>1, <2>2, <2>3 DEF BuildInv, InLayout, Whole, CountIsTrue
<1> QED
  BY <1>2, <1>3, <1>4, <1>5, <1>6, <1>7 DEF Next

(* The invariant holds in every state.                                     *)
THEOREM BuildInvariance == Spec => []BuildInv
<1> QED
  BY BuildInitHolds, BuildStepHolds, PTL DEF Spec

(* The blocks handed out and not taken back are the first of the layout,   *)
(* as many as the checkpoint counts, in every order of batches, shortages  *)
(* and rollbacks.                                                          *)
THEOREM CountAlwaysTrue == Spec => []CountIsTrue
<1>1. BuildInv => CountIsTrue
  BY DEF BuildInv
<1> QED
  BY <1>1, BuildInvariance, PTL

(* A building that is inspected was handed out as a whole.                 *)
THEOREM WholeWhenInspected == Spec => []InspectsAll
<1>1. BuildInv => InspectsAll
  BY DEF BuildInv, InLayout, Whole, CountIsTrue, InspectsAll
<1> QED
  BY <1>1, BuildInvariance, PTL

(* A building step takes a job back only from procurement to the survey    *)
(* without a layout, and to procurement when the requirements were changed *)
(* since the step before (transition_phase); otherwise a rollback does.    *)
THEOREM NoOtherWayBack == Spec => NoWayBack
<1> DEFINE Back == Order(phase') < Order(phase) =>
                     \/ rollbacks' # rollbacks
                     \/ phase = "procurement" /\ phase' = "survey" /\ layout = 0
                     \/ phase' = "procurement" /\ ~counted
<1>1. BuildInv /\ [Next]_vars => [Back]_vars
  <2> SUFFICES ASSUME BuildInv, Next, Order(phase') < Order(phase)
               PROVE  Back
    OBVIOUS
  <2>1. phase \in Phases /\ rollbacks \in Nat
    BY DEF BuildInv, Shape
  <2>2. Order(phase) \in Nat
    BY <2>1 DEF Phases, Order
  <2>3. phase' # phase
    BY <2>2
  <2>4. CASE Process
    <3>1. phase' = PhaseNext
      BY <2>4 DEF Process
    <3> QED BY <3>1, PhaseNextIs
  <2>5. CASE Fails
    BY <2>1, <2>5 DEF Fails, Rollback
  <2>6. CASE FindLayout \/ CountMaterials \/ \E x \in Materials : Gather(x) \/ Spend(x)
    BY <2>3, <2>6 DEF FindLayout, CountMaterials, Gather, Spend, checkpoint
  <2> QED BY <2>4, <2>5, <2>6 DEF Next
<1> QED
  BY <1>1, BuildInvariance, PTL DEF Spec, NoWayBack
=============================================================================
