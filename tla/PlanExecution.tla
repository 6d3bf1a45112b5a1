---------------------------- MODULE PlanExecution ----------------------------
(***************************************************************************)
(* One chat at a time goes from the queue's worker through the pipeline    *)
(* (python/chat_pipeline.py) to the plan executor                          *)
(* (python/orchestrator/plan_executor.py), which runs the steps of the     *)
(* plan, hands a failure to the recovery coordinator, and is called again  *)
(* by it with a new plan.  Failures are written down as reflections        *)
(* (python/memory.py), of which one at most is waiting for its verdict.    *)
(*                                                                         *)
(* Every await is a point where the worker's timeout may cancel the chat   *)
(* (Abort): pc names the await the chat is at.  What a plan says, how a    *)
(* step is classified and what the game answers are chosen freely;         *)
(* backlogs, reports, answers to the player and logs are left out.         *)
(***************************************************************************)
EXTENDS Integers, FiniteSets, Sequences

CONSTANTS MaxDepth,    \* _MAX_REPLAN_DEPTH of python/agent.py
          MaxSteps,    \* bound: the steps of a plan
          MaxRuns,     \* bound: the runs of chats, repeated ones included
          MaxCrashes   \* bound: the restarts of the process

ASSUME BoundsAreCounts ==
    {MaxDepth, MaxSteps, MaxRuns, MaxCrashes} \subseteq Nat

VARIABLES pc,        \* the await the chat is at, "idle" between chats
          chat,      \* the number of the chat, counted from 1
          kind,      \* how its text was classified
          runs,      \* the runs so far
          depth,     \* replan_depth of the executor's current call
          plan,      \* the plan that call runs, with the steps it has left
          route,     \* the handler the current step is in
          failure,   \* execution_failure_reason is set
          logs,      \* Memory._reflection_logs, in the order of creation
          active,    \* Memory._active_reflection_id, 0 for None
          disk,      \* the reflections in the store's file
          message,   \* memory["_active_chat_message"], by its class
          scope,     \* Actions._current_directive_meta is set
          ended,     \* how the last chat ended
          crashes,
          (* what the properties look back at *)
          outcomes,  \* the outcomes of the steps of this call of run
          joined,    \* followPlayer was sent for this chat
          loaded,    \* the number of reflections read at start-up
          known      \* this process has read the file whole, or written it

chatVars  == <<chat, kind, runs>>
callVars  == <<depth, plan, failure, outcomes>>
storeVars == <<logs, active, disk, loaded, known>>
vars == <<pc, chatVars, callVars, route, storeVars, message, scope, ended,
          crashes, joined>>

-----------------------------------------------------------------------------
(* A chat that calls the speaker over, one that relays or forbids such a   *)
(* call, and any other.                                                    *)
Kinds == {"come", "excluded", "free"}

(* A plan asks back (blocking, clarification_needed, next_action), or has  *)
(* steps.                                                                  *)
Plans == [ask : BOOLEAN, left : 0..MaxSteps]

NoPlan == [ask |-> FALSE, left |-> 0]

(* The fixed plan of a call that needs no LLM.                             *)
ComePlan == [ask |-> FALSE, left |-> 1]

(* The handlers a step goes through, in the order of handle_step; "coords  *)
(* join" is a step with coordinates whose directive says move_to_player.   *)
Late      == {"join", "action", "report", "unknown"}
Plain     == {"detect", "coords", "coords join", "check", "continue"} \union Late
Routes    == {"blank", "minedojo", "chat", "hybrid"} \union Plain
Scoped    == {"chat", "hybrid", "detect", "coords", "coords join", "join",
              "action", "report"}

(* The handlers that may answer None and leave the step to the later ones. *)
(* The one for MineDojo always does, as its dialogue raises (MineDojo);    *)
(* for the same reason the attempt to rescue a plan without steps by a     *)
(* dialogue, at "checking", never comes to anything.                       *)
Later(r) == CASE r \in {"minedojo", "hybrid"} -> Plain
              [] r = "continue"               -> Late
              [] OTHER                        -> {}

(* Mutation. *)
MayJoinReplanned == depth > 0 \/ message # "excluded"

(* handle_move refuses to follow when the chat it works for relays a call. *)
MayJoin == message # "excluded"

(* What each handler may answer.  "halt" asks for recovery, "terminal"     *)
(* ends the plan at once, "failed" lets the plan go on.                    *)
Outcomes(r) ==
    CASE r \in {"blank", "check"}                          -> {"skipped"}
      [] r \in {"chat", "continue", "report"}              -> {"completed"}
      [] r = "minedojo"                                    -> {}
      [] r \in {"hybrid", "unknown"}                       -> {"failed"}
      [] r = "detect"                          -> {"completed", "failed"}
      [] r \in {"coords", "action"}            -> {"completed", "halt"}
      [] r = "coords join" -> {"halt"} \union {o \in {"completed"} : MayJoin}
      [] r = "join"    -> {"terminal"} \union {o \in {"completed"} : MayJoin}

Failing == {"failed", "halt", "terminal"}

(* Mutation. *)
FailsLate(o) == o \in {"halt", "terminal"}

(* The plan's execution_failure_reason is set by the outcome.              *)
Fails(o) == o \in Failing

(* Where run goes with a plan: the question, the complaint about an empty  *)
(* plan, or the loop over the steps.                                       *)
Entry(p) == IF p.ask THEN "asking" ELSE IF p.left = 0 THEN "barring" ELSE "running"

(* The chat is inside _execute_plan.                                       *)
Executing == {"asking", "barring", "running", "acting", "finishing", "failing",
              "replanning"}

-----------------------------------------------------------------------------
(* Reflections. *)

(* Mutation. *)
PersistInPlace(contents) ==
    \/ disk' \in contents \union {<<>>} /\ known' = TRUE
    \/ UNCHANGED <<disk, known>>

(* The file is replaced by a complete new one, the last of the contents    *)
(* whose writing did not fail, or it stays.                                *)
Persist(contents) ==
    \/ disk' \in contents /\ known' = TRUE
    \/ UNCHANGED <<disk, known>>

Concluded(result) ==
    IF active = 0 THEN logs ELSE [logs EXCEPT ![active].result = result]

FinalizePending(result) ==
    /\ logs' = Concluded(result)
    /\ active' = 0
    /\ Persist(IF active = 0 THEN {} ELSE {logs'})
    /\ UNCHANGED loaded

(* Mutation. *)
BeginOnly ==
    /\ logs' = Append(logs, [chat |-> chat, result |-> "pending"])
    /\ active' = Len(logs')
    /\ Persist({logs'})
    /\ UNCHANGED loaded

(* The verdict on the last reflection and the opening of the next, with no *)
(* await in between.                                                       *)
FailThenBegin ==
    /\ logs' = Append(Concluded("failed"), [chat |-> chat, result |-> "pending"])
    /\ active' = Len(logs')
    /\ Persist({logs'} \union (IF active = 0 THEN {} ELSE {Concluded("failed")}))
    /\ UNCHANGED loaded

-----------------------------------------------------------------------------
Init ==
    /\ pc = "idle" /\ chat = 0 /\ kind = "free" /\ runs = 0
    /\ depth = 0 /\ plan = NoPlan /\ failure = FALSE
    /\ outcomes = {}
    /\ route = "blank"
    /\ logs = <<>> /\ active = 0 /\ disk = <<>> /\ loaded = 0
    /\ known = TRUE
    /\ message = "none" /\ scope = FALSE /\ ended = "none" /\ crashes = 0
    /\ joined = FALSE

(* The locals of the call are gone. *)
Forget ==
    /\ depth' = 0 /\ plan' = NoPlan /\ failure' = FALSE /\ outcomes' = {}
    /\ route' = "blank"

(* The chat's coroutine ends, by return, exception or cancellation: every  *)
(* finally on the way out runs.                                            *)
Leave(how) ==
    /\ pc' = "idle"
    /\ ended' = how
    /\ message' = "none"
    /\ scope' = FALSE
    /\ Forget

(* The worker takes the next chat, or the one that timed out once more.    *)
Take ==
    /\ pc = "idle"
    /\ runs < MaxRuns
    /\ runs' = runs + 1
    /\ \/ /\ chat' = chat + 1
          /\ kind' \in Kinds
       \/ /\ ended = "aborted"
          /\ UNCHANGED <<chat, kind>>
    /\ pc' = "priming"
    /\ ended' = "none"
    /\ joined' = FALSE
    /\ UNCHANGED <<callVars, route, storeVars, message, scope, crashes>>

(* Without the bot's state a call to come over is refused at once.         *)
RefuseCome ==
    /\ pc = "priming"
    /\ kind = "come"
    /\ Leave("done")
    /\ UNCHANGED <<chatVars, storeVars, crashes, joined>>

(* The state is known, or its lack is reported: on to the plan.            *)
Primed ==
    /\ pc = "priming"
    /\ pc' = "planning"
    /\ UNCHANGED <<chatVars, callVars, route, storeVars, message, scope, ended,
                   crashes, joined>>

(* A call of run begins with plan p.                                       *)
Call(p, d) ==
    /\ plan' = p
    /\ depth' = d
    /\ failure' = FALSE
    /\ outcomes' = {}

Planned ==
    /\ pc = "planning"
    /\ \E p \in IF kind = "come" THEN {ComePlan} ELSE Plans : Call(p, 0)
    /\ pc' = "checking"
    /\ UNCHANGED <<chatVars, route, storeVars, message, scope, ended, crashes,
                   joined>>

Relay ==
    /\ pc = "checking"
    /\ message' = kind
    /\ pc' = Entry(plan)
    /\ UNCHANGED <<chatVars, callVars, route, storeVars, scope, ended, crashes,
                   joined>>

(* The executor says the question and returns; the reflection stays.       *)
Ask ==
    /\ pc = "asking"
    /\ Leave("done")
    /\ UNCHANGED <<chatVars, storeVars, crashes, joined>>

BarEmpty ==
    /\ pc = "barring"
    /\ Leave("done")
    /\ UNCHANGED <<chatVars, storeVars, crashes, joined>>

(* The step goes to the first handler that takes it, inside the directive  *)
(* scope if that handler opens one and the step has a directive.           *)
StepBegin(r) ==
    /\ pc = "running"
    /\ kind = "come" /\ depth = 0 => r = "join"
    /\ route' = r
    /\ scope' \in IF r \in Scoped THEN BOOLEAN ELSE {FALSE}
    /\ pc' = "acting"
    /\ joined' = (joined \/ (r \in {"join", "coords join"} /\ MayJoin))
    /\ UNCHANGED <<chatVars, callVars, storeVars, message, ended, crashes>>

(* The handler answered None: the step is left to a later one.             *)
FallThrough(r) ==
    /\ pc = "acting"
    /\ r \in Later(route)
    /\ route' = r
    /\ scope' \in IF r \in Scoped THEN BOOLEAN ELSE {FALSE}
    /\ joined' = (joined \/ (r \in {"join", "coords join"} /\ MayJoin))
    /\ UNCHANGED <<pc, chatVars, callVars, storeVars, message, ended, crashes>>

(* Where the loop goes after a step.                                       *)
AfterStep(o, left) ==
    CASE o = "terminal" -> "finishing"
      [] o = "halt"     -> "failing"
      [] OTHER          -> IF left = 0 THEN "finishing" ELSE "running"

(* The plan without the step that was done.                                *)
Rest(p) == [p EXCEPT !.left = @ - 1]

StepEnd(o) ==
    /\ pc = "acting"
    /\ o \in Outcomes(route)
    /\ scope' = FALSE
    /\ outcomes' = outcomes \union {o}
    /\ failure' = (failure \/ Fails(o))
    /\ plan' = Rest(plan)
    /\ pc' = AfterStep(o, Rest(plan).left)
    /\ UNCHANGED <<chatVars, depth, route, storeVars, message, ended, crashes,
                   joined>>

(* A hybrid directive that the bot carried out: the handler then calls a   *)
(* method its owner does not have, and the exception ends the chat.        *)
HybridRaises ==
    /\ pc = "acting"
    /\ route = "hybrid"
    /\ Leave("raised")
    /\ UNCHANGED <<chatVars, storeVars, crashes, joined>>

(* The loop is over: the pending reflection gets its verdict.              *)
Finish ==
    /\ pc = "finishing"
    /\ FinalizePending(IF failure THEN "failed" ELSE "success")
    /\ Leave("done")
    /\ UNCHANGED <<chatVars, crashes, joined>>

DepthLeft == depth < MaxDepth

(* handle_failure: the barrier is reported (the await of "failing"), the   *)
(* reflections are brought up to date, and a new plan is asked for unless  *)
(* the depth is used up.                                                   *)
HandleFailure ==
    /\ pc = "failing"
    /\ FailThenBegin
    /\ IF DepthLeft
         THEN /\ pc' = "replanning"
              /\ UNCHANGED <<callVars, route, message, scope, ended>>
         ELSE Leave("done")
    /\ UNCHANGED <<chatVars, crashes, joined>>

(* The new plan arrives, and run is called with it.                        *)
Replanned ==
    /\ pc = "replanning"
    /\ \E p \in Plans :
         /\ Call(p, depth + 1)
         /\ pc' = Entry(p)
    /\ UNCHANGED <<chatVars, route, storeVars, message, scope, ended, crashes,
                   joined>>

(* The worker's timeout cancels the chat, or an await raises.              *)
Abort ==
    /\ pc # "idle"
    /\ Leave("aborted")
    /\ UNCHANGED <<chatVars, storeVars, crashes, joined>>

(* The process dies and starts again: the file is read, the id of the      *)
(* reflection in progress is not.  A file that cannot be read counts as an *)
(* empty one, and the process goes on without what it says.                *)
Reload ==
    /\ \/ logs' = disk /\ known' = TRUE
       \/ logs' = <<>> /\ known' = (disk = <<>>)
    /\ active' = 0
    /\ loaded' = Len(logs')
    /\ UNCHANGED disk

Crash ==
    /\ crashes < MaxCrashes
    /\ crashes' = crashes + 1
    /\ Reload
    /\ Leave("lost")
    /\ UNCHANGED <<chatVars, joined>>

(* What the chat does by itself, every await being answered.               *)
Progress ==
    \/ RefuseCome \/ Primed \/ Planned \/ Relay
    \/ Ask \/ BarEmpty
    \/ \E r \in Routes : StepBegin(r)
    \/ \E r \in Plain : FallThrough(r)
    \/ \E o \in {"skipped", "completed"} \union Failing : StepEnd(o)
    \/ HybridRaises
    \/ Finish \/ HandleFailure \/ Replanned

Next == Take \/ Progress \/ Abort \/ Crash

Spec == Init /\ [][Next]_vars

-----------------------------------------------------------------------------
Entries == [chat : 1..MaxRuns, result : {"pending", "failed", "success"}]

(* Every variable holds a value of its type, and while a chat is being     *)
(* executed, and only then, the handlers can look up its text; a directive *)
(* scope is open only inside a handler, however that handler was left.     *)
TypeOK ==
    /\ pc \in Executing \union {"idle", "priming", "planning", "checking"}
    /\ runs \in 0..MaxRuns /\ chat \in 0..runs /\ kind \in Kinds
    /\ depth \in Nat
    /\ plan \in Plans /\ route \in Routes /\ failure \in BOOLEAN
    /\ logs \in Seq(Entries) /\ disk \in Seq(Entries)
    /\ active \in 0..Len(logs) /\ loaded \in 0..Len(logs)
    /\ message = IF pc \in Executing THEN kind ELSE "none"
    /\ scope \in BOOLEAN /\ (scope => pc = "acting")
    /\ ended \in {"none", "done", "aborted", "raised", "lost"}
    /\ crashes \in 0..MaxCrashes
    /\ outcomes \subseteq {"skipped", "completed"} \union Failing
    /\ joined \in BOOLEAN /\ known \in BOOLEAN

(* The reflections this process opened that have no verdict are exactly    *)
(* the one Memory calls active: none is forgotten while another is opened, *)
(* and the active one is never an entry that was decided before.           *)
OnePending ==
    {i \in (loaded + 1)..Len(logs) : logs[i].result = "pending"} = {active} \ {0}

(* A reflection is called a success only at the end of a plan none of      *)
(* whose steps failed, also when the failed step neither stopped the plan  *)
(* nor was the last.  A restart calls none a success, unless the process   *)
(* before it never read the file: its entries are not those of the file.   *)
FailureNotSuccess ==
    [][\A i \in DOMAIN logs \intersect DOMAIN logs' :
         /\ logs[i].result = "pending" /\ logs'[i].result = "success"
         /\ known \/ crashes' = crashes
         => outcomes \intersect Failing = {}]_vars

(* A text that relays or forbids a call never makes the bot follow its     *)
(* speaker, whatever the LLM makes of it and in however many replans.      *)
RelayNeverJoins == kind = "excluded" => ~joined

(* What the file says is lost in one way only, by the first write of a     *)
(* process that could not read the file when it started.  Otherwise no     *)
(* entry is dropped and no verdict is changed, across failed writes, chats *)
(* cut off between two writes, and restarts.                               *)
HistoryKept ==
    [][known => /\ Len(disk) <= Len(disk')
                /\ \A i \in DOMAIN disk :
                     disk[i].result # "pending" => disk'[i] = disk[i]]_vars

=============================================================================
