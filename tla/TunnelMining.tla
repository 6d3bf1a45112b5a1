---------------------------- MODULE TunnelMining -----------------------------
(***************************************************************************)
(* One run of the tunnel mode (python/modes/tunnel.py) against the bridge  *)
(* plugin.  The miner sends one HTTP request at a time and sends it again  *)
(* when it gets no answer in time (python/bridge_client.py); the plugin    *)
(* handles each request on a thread of its own, and changes WorldGuard     *)
(* regions on the server's main thread, waiting for it with a timeout      *)
(* (BaseHandler.callSync).  A request that was given up keeps running, and *)
(* so does its task on the main thread.                                    *)
(*                                                                         *)
(* The tunnel is a row of slices.  What the blocks of a slice are is kept  *)
(* only as far as liquids go; that the window holds functional or placed   *)
(* blocks is chosen freely.  Torches and the answers of the bot, which the *)
(* miner ignores, are left out.                                            *)
(***************************************************************************)
EXTENDS Integers, FiniteSets, Sequences

CONSTANTS Length,     \* slices of the tunnel
          Window,     \* TUNNEL_WINDOW_LENGTH and frontier.window_length
          Buffer,     \* frontier.region_buffer
          Retry,      \* BRIDGE_RETRY
          MaxFaults,  \* bound: timeouts, failing tasks and reloads
          MaxFlows    \* bound: the times a liquid comes or goes

ASSUME TunnelSizes  == {Length, Window} \subseteq Nat \ {0}
ASSUME TunnelBounds  == {Buffer, Retry, MaxFaults, MaxFlows} \subseteq Nat

VARIABLES pc,        \* what the miner waits for
          step,      \* slices it believes done
          job,       \* the job it was given, 0 before
          attempts,  \* how often the current request was sent
          req,       \* the request it waits for
          late,      \* requests it no longer waits for
          tasks,     \* tasks of the main thread, first to run first
          issued,    \* the number of jobs created
          registry,  \* JobRegistry: the jobs it knows
          progress,  \* MiningJob.progress
          blocked,   \* MiningJob.blockedByLiquid
          region,    \* the progress a job's region was made for, -1 for none
          wet,       \* the slices with a liquid in them
          allowed,   \* the slices of the last evaluation that may be mined
          hazard,    \* it, or the question after it, found a reason to stop
          ended,     \* why the loop was left
          faults, flows,
          (* what the properties look back at *)
          offered,   \* the slices some batch covered
          found,     \* an evaluation met a liquid in the frontier of the job
          after      \* the batches mined since

minerVars  == <<pc, step, job, attempts, allowed, hazard, ended, offered, after>>
serverVars == <<tasks, issued, registry, progress, blocked, region, found>>
tunnelVars == <<minerVars, req, late, serverVars, wet, faults, flows>>

-----------------------------------------------------------------------------
Slices == 0..(Length - 1)
Jobs   == 1..(MaxFaults + 1)
NoRegion == -1

Smaller(a, b) == IF a <= b THEN a ELSE b

(* Mutation. *)
WindowShort(s) == s..(Smaller(s + Window, Length - 1) - 1)

(* The slices the miner asks about at step s.                              *)
AskedAt(s) == s..(Smaller(s + Window, Length) - 1)

(* The slices in the frontier of a job; one that is finished has only the  *)
(* block of its anchor.                                                    *)
Frontier(p) ==
    IF p = Length THEN {0}
    ELSE {s \in Slices : p - Buffer <= s /\ s < Smaller(p + Window, Length) + Buffer}

Ops == {"start", "eval", "coreprotect", "advance", "stop"}

NoRequest == [op |-> "start", job |-> 0, step |-> 0, n |-> 0, st |-> "none",
              ans |-> "none", mask |-> {}]

TunnelInit ==
    /\ pc = "idle" /\ step = 0 /\ job = 0 /\ attempts = 0
    /\ allowed = {} /\ hazard = FALSE /\ ended = "none" /\ offered = {} /\ after = 0
    /\ req = NoRequest /\ late = {} /\ tasks = <<>> /\ issued = 0
    /\ registry = {} /\ progress = [j \in Jobs |-> 0]
    /\ blocked = [j \in Jobs |-> FALSE] /\ region = [j \in Jobs |-> NoRegion]
    /\ found = FALSE
    /\ wet \in {{}} \union {{s} : s \in Slices}
    /\ faults = 0 /\ flows = 0

-----------------------------------------------------------------------------
(* The miner's side. *)

(* A request goes out.  It bears the number of faults so far, which tells  *)
(* apart the requests that are under way at the same time.                 *)
Request(op, j, s, n) ==
    [op |-> op, job |-> j, step |-> s, n |-> n, st |-> "sent",
     ans |-> "none", mask |-> {}]

Send(op, j, s) ==
    /\ pc' = op
    /\ req' = Request(op, j, s, faults)
    /\ attempts' = 1

(* finally: the job is stopped, for whatever reason the loop ends.         *)
StopFor(why) ==
    /\ Send("stop", job, step)
    /\ ended' = why

Run ==
    /\ pc = "idle"
    /\ Send("start", 0, 0)
    /\ UNCHANGED <<step, job, allowed, hazard, ended, offered, after, late, serverVars,
                   wet, faults, flows>>

Answered(op, answers) == pc = op /\ req.st = "done" /\ req.ans \in answers

Started ==
    /\ Answered("start", {"ok"})
    /\ job' = req.job
    /\ Send("eval", req.job, 0)
    /\ UNCHANGED <<step, allowed, hazard, ended, offered, after, late, serverVars, wet,
                   faults, flows>>

StartFailed ==
    /\ Answered("start", {"error"})
    /\ pc' = "done"
    /\ ended' = "failed"
    /\ UNCHANGED <<step, job, attempts, allowed, hazard, offered, after, req, late,
                   serverVars, wet, faults, flows>>

(* The evaluation is there; what it found stops the run only after the     *)
(* question about placed blocks.                                           *)
Evaluated ==
    /\ Answered("eval", {"ok", "unsafe"})
    /\ Send("coreprotect", job, step)
    /\ allowed' = req.mask
    /\ hazard' = (req.ans = "unsafe")
    /\ UNCHANGED <<step, job, ended, offered, after, late, serverVars, wet, faults,
                   flows>>

(* 409 with error liquid_detected, at an evaluation or an advance.         *)
LiquidStop ==
    /\ Answered(pc, {"liquid"})
    /\ pc \in {"eval", "advance"}
    /\ StopFor("liquid")
    /\ UNCHANGED <<step, job, allowed, hazard, offered, after, late, serverVars, wet,
                   faults, flows>>

(* BridgeError: leaves the loop by exception.                              *)
LoopFails ==
    /\ Answered(pc, {"error"})
    /\ pc \in {"eval", "coreprotect", "advance"}
    /\ StopFor("failed")
    /\ UNCHANGED <<step, job, allowed, hazard, offered, after, late, serverVars, wet,
                   faults, flows>>

HardStop ==
    /\ Answered("coreprotect", {"ok", "unsafe"})
    /\ hazard \/ req.ans = "unsafe"
    /\ StopFor("unsafe")
    /\ UNCHANGED <<step, job, allowed, hazard, offered, after, late, serverVars, wet,
                   faults, flows>>

(* The batch is mined, and the frontier is asked to move.                  *)
Mine ==
    /\ Answered("coreprotect", {"ok"})
    /\ ~hazard
    /\ offered' = offered \union allowed
    /\ after' = IF found THEN after + 1 ELSE after
    /\ step' = step + 1
    /\ Send("advance", job, step + 1)
    /\ UNCHANGED <<job, allowed, hazard, ended, late, serverVars, wet, faults, flows>>

Advanced ==
    /\ Answered("advance", {"ok", "finished"})
    /\ IF req.ans = "finished" \/ step >= Length
         THEN StopFor(IF req.ans = "finished" THEN "finished" ELSE "length")
         ELSE Send("eval", job, step) /\ UNCHANGED ended
    /\ UNCHANGED <<step, job, allowed, hazard, offered, after, late, serverVars, wet,
                   faults, flows>>

Stopped ==
    /\ Answered("stop", {"ok", "error"})
    /\ pc' = "done"
    /\ UNCHANGED <<step, job, attempts, allowed, hazard, ended, offered, after, req,
                   late, serverVars, wet, faults, flows>>

Abandoned == late \union (IF req.st = "done" THEN {} ELSE {req})

(* No answer within the client's timeout: the request is sent once more,   *)
(* or _request raises BridgeError.                                         *)
TimesOut ==
    /\ pc \in Ops
    /\ faults < MaxFaults
    /\ faults' = faults + 1
    /\ late' = Abandoned
    /\ IF attempts <= Retry
         THEN /\ req' = Request(req.op, IF req.op = "start" THEN 0 ELSE req.job,
                                req.step, faults + 1)
              /\ attempts' = attempts + 1
         ELSE /\ req' = [req EXCEPT !.n = faults + 1, !.st = "done", !.ans = "error"]
              /\ UNCHANGED attempts
    /\ UNCHANGED <<pc, step, job, allowed, hazard, ended, offered, after, serverVars,
                   wet, flows>>

Miner == \/ Run \/ Started \/ StartFailed \/ Evaluated \/ LiquidStop \/ LoopFails
         \/ HardStop \/ Mine \/ Advanced \/ Stopped

-----------------------------------------------------------------------------
(* The plugin's side: HTTP threads and the main thread. *)

Live == {r \in late \union {req} : r.st \in {"sent", "waiting", "ran"}}

(* Request r gets to state q; a finished one that nobody waits for is gone. *)
Become(r, q) ==
    IF r = req THEN req' = q /\ UNCHANGED late
    ELSE /\ late' = (late \ {r}) \union (IF q.st = "done" THEN {} ELSE {q})
         /\ UNCHANGED req

Reply(r, answer) == Become(r, [r EXCEPT !.st = "done", !.ans = answer])

(* callSync: the thread hands a task to the main thread and waits.         *)
HandOver(r, j) ==
    /\ Become(r, [r EXCEPT !.st = "waiting", !.job = j])
    /\ tasks' = Append(tasks, [op |-> r.op, job |-> j, n |-> r.n])

HandleStart(r) ==
    /\ r.op = "start"
    /\ issued' = issued + 1
    /\ registry' = registry \union {issued + 1}
    /\ HandOver(r, issued + 1)
    /\ UNCHANGED <<progress, blocked, found>>

HandleAdvance(r) ==
    /\ r.op = "advance"
    /\ IF r.job \notin registry THEN Reply(r, "error") /\ UNCHANGED tasks
       ELSE IF blocked[r.job] THEN Reply(r, "liquid") /\ UNCHANGED tasks
       ELSE HandOver(r, r.job)
    /\ UNCHANGED <<issued, registry, progress, blocked, found>>

(* Mutation. *)
HandleStopSilent(r) ==
    /\ r.op = "stop"
    /\ r.job \in registry
    /\ HandOver(r, r.job)
    /\ UNCHANGED <<issued, registry, progress, blocked, found>>

HandleStop(r) ==
    /\ r.op = "stop"
    /\ IF r.job \notin registry THEN Reply(r, "error") /\ UNCHANGED tasks
       ELSE HandOver(r, r.job)
    /\ UNCHANGED <<issued, registry, progress, blocked, found>>

(* Mutation. *)
UnblockForLiquid(j) == UNCHANGED blocked

BlockForLiquid(j) == blocked' = [blocked EXCEPT ![j] = TRUE]

(* A job that met a liquid stays blocked; a liquid outside its frontier is *)
(* only reported, as are functional blocks.                                *)
HandleEval(r) ==
    /\ r.op = "eval"
    /\ LET known == r.job \in registry
           zone  == IF known THEN Frontier(progress[r.job]) ELSE {}
           asked == AskedAt(r.step)
       IN IF known /\ blocked[r.job]
            THEN Reply(r, "liquid") /\ UNCHANGED <<blocked, found>>
          ELSE IF wet \intersect asked \intersect zone # {}
            THEN Reply(r, "liquid") /\ BlockForLiquid(r.job) /\ found' = TRUE
          ELSE /\ \E answer \in {"unsafe"} \union {a \in {"ok"} : wet \intersect asked = {}} :
                    Become(r, [r EXCEPT !.st = "done", !.ans = answer,
                                        !.mask = asked \intersect zone])
               /\ UNCHANGED <<blocked, found>>
    /\ UNCHANGED <<tasks, issued, registry, progress>>

HandleCoreProtect(r) ==
    /\ r.op = "coreprotect"
    /\ \E answer \in {"ok", "unsafe"} : Reply(r, answer)
    /\ UNCHANGED <<tasks, issued, registry, progress, blocked, found>>

Handle(r) ==
    /\ r.st = "sent"
    /\ \/ HandleStart(r) \/ HandleAdvance(r) \/ HandleStop(r)
       \/ HandleEval(r) \/ HandleCoreProtect(r)
    /\ UNCHANGED <<minerVars, region, wet, faults, flows>>

Farther(p) == Smaller(p + 1, Length)

(* What a task does to the job before it touches WorldGuard.               *)
MoveJob(t) ==
    progress' = IF t.op = "advance" THEN [progress EXCEPT ![t.job] = Farther(@)]
                ELSE progress

(* The thread that waits for task t, if it has not given up.               *)
Waiting(t) == {r \in Live : r.n = t.n /\ r.st = "waiting"}

Resume(t, st, answer) ==
    IF Waiting(t) = {} THEN UNCHANGED <<req, late>>
    ELSE \E r \in Waiting(t) : Become(r, [r EXCEPT !.st = st, !.ans = answer])

(* The main thread runs its next task; updateRegion makes a region that is *)
(* not there.                                                              *)
RunTask ==
    /\ tasks # <<>>
    /\ LET t == Head(tasks) IN
        /\ MoveJob(t)
        /\ region' = [region EXCEPT ![t.job] =
                         IF t.op = "stop" THEN NoRegion ELSE progress'[t.job]]
        /\ Resume(t, "ran", "none")
    /\ tasks' = Tail(tasks)
    /\ UNCHANGED <<minerVars, issued, registry, blocked, found, wet, faults, flows>>

(* WorldGuard refuses: the waiting thread gets the exception.              *)
TaskFails ==
    /\ tasks # <<>>
    /\ faults < MaxFaults
    /\ faults' = faults + 1
    /\ MoveJob(Head(tasks))
    /\ Resume(Head(tasks), "done", "error")
    /\ tasks' = Tail(tasks)
    /\ UNCHANGED <<minerVars, issued, registry, blocked, region, found, wet, flows>>

(* Mutation. *)
ForgetNothing(j) == UNCHANGED registry

RemoveJob(j) == registry' = registry \ {j}

(* The thread goes on after its task and answers.                          *)
Complete(r) ==
    /\ r.st = "ran"
    /\ IF r.op = "stop" THEN RemoveJob(r.job) ELSE UNCHANGED registry
    /\ Reply(r, IF r.op = "advance" /\ progress[r.job] >= Length THEN "finished"
                ELSE "ok")
    /\ UNCHANGED <<minerVars, tasks, issued, progress, blocked, region, found, wet,
                   faults, flows>>

(* callSync gives up; the task stays in the main thread's queue.           *)
SyncTimesOut(r) ==
    /\ r.st = "waiting"
    /\ faults < MaxFaults
    /\ faults' = faults + 1
    /\ Reply(r, "error")
    /\ UNCHANGED <<minerVars, serverVars, wet, flows>>

(* /agentbridge reload: a new, empty registry; the regions stay.           *)
Reload ==
    /\ registry # {}
    /\ faults < MaxFaults
    /\ faults' = faults + 1
    /\ registry' = {}
    /\ UNCHANGED <<minerVars, req, late, tasks, issued, progress, blocked, region,
                   found, wet, flows>>

(* A liquid comes to a slice or leaves it.                                 *)
Flow ==
    /\ flows < MaxFlows
    /\ flows' = flows + 1
    /\ \E s \in Slices :
         wet' = IF s \in wet THEN wet \ {s} ELSE wet \union {s}
    /\ UNCHANGED <<minerVars, req, late, serverVars, faults>>

Plugin == \/ \E r \in Live : Handle(r) \/ Complete(r)
          \/ RunTask

Faulty == TaskFails \/ Reload \/ \E r \in Live : SyncTimesOut(r)

TunnelNext == Miner \/ TimesOut \/ Plugin \/ Faulty \/ Flow

(* The executor's threads, the plugin's threads and the server's ticks go  *)
(* on; nothing is said of timeouts, faults and the world.                  *)
TunnelSpec == TunnelInit /\ [][TunnelNext]_tunnelVars /\ WF_tunnelVars(Miner) /\ WF_tunnelVars(Plugin)

-----------------------------------------------------------------------------
Requests == [op : Ops, job : {0} \union Jobs, step : 0..Length, n : 0..MaxFaults,
             st : {"none", "sent", "waiting", "ran", "done"},
             ans : {"none", "ok", "unsafe", "liquid", "finished", "error"},
             mask : SUBSET Slices]

(* Every variable holds a value of its type; a job is known, and has a     *)
(* region, only once it was issued.                                        *)
TunnelTypeOK ==
    /\ pc \in Ops \union {"idle", "done"}
    /\ step \in 0..Length /\ job \in 0..issued /\ attempts \in 0..(Retry + 1)
    /\ req \in Requests /\ late \subseteq Requests
    /\ tasks \in Seq([op : Ops, job : Jobs, n : 0..MaxFaults])
    /\ issued \in {0} \union Jobs /\ registry \subseteq 1..issued
    /\ progress \in [Jobs -> 0..Length] /\ blocked \in [Jobs -> BOOLEAN]
    /\ region \in [Jobs -> -1..Length]
    /\ \A j \in Jobs : region[j] # NoRegion => j <= issued
    /\ wet \subseteq Slices /\ allowed \subseteq Slices /\ offered \subseteq Slices
    /\ hazard \in BOOLEAN
    /\ ended \in {"none", "liquid", "unsafe", "failed", "finished", "length"}
    /\ faults \in 0..MaxFaults /\ flows \in 0..MaxFlows
    /\ found \in BOOLEAN /\ after \in Nat

(* After a job met a liquid the miner mines at most the batch it had       *)
(* evaluated before, however late the finding is and even if the liquid is *)
(* gone again.                                                             *)
StopsAfterLiquid == after <= 1

(* A run that ends because the bridge calls the job finished has offered   *)
(* every slice for mining, as long as there were fewer faults than slices  *)
(* in a window: each may make the plugin advance the job once too often.   *)
CoveredWhenFinished ==
    ended = "finished" /\ faults < Window => offered = Slices

(* When the run is over and the plugin idle, each job or region that is    *)
(* left behind is due to a fault of its own.                               *)
Left == registry \union {j \in Jobs : region[j] # NoRegion}

LeftoversExplained ==
    pc = "done" /\ Live = {} /\ tasks = <<>> => Cardinality(Left) <= faults

(* Every run ends, whatever is lost, late or refused.                      *)
RunEnds == pc = "start" ~> pc = "done"
=============================================================================
