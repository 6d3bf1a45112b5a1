---------------------------- MODULE ChatPlanning ----------------------------
(***************************************************************************)
(* How a chat becomes a plan: ChatPipeline.run_chat_task, the collection   *)
(* of the bot's state before it (python/runtime/status_service.py), the    *)
(* barrier notices (python/perception_service.py), the plan graph, and the *)
(* executor's way in and its replanning.  PlanExecution has what the steps *)
(* of a plan do; here they run, fail or finish as one action.              *)
(*                                                                         *)
(* Chats are processed one at a time.  MaxChats and MaxReplan bound how    *)
(* many come and how often a chat is planned again; StatusRetry is the     *)
(* setting status_refresh_retry.                                           *)
(***************************************************************************)
EXTENDS Integers, PlanGraph

CONSTANTS MaxChats, MaxReplan, StatusRetry

ASSUME ChatPlanningAssumption ==
    MaxChats \in Nat /\ MaxReplan \in Nat /\ StatusRetry \in Nat

VARIABLES
  pc,        \* where run_chat_task stands
  chats,     \* how many chats were taken
  kind,      \* what the text is: a call to come over, one that only looks like it, other
  known,     \* the details of the bot's state that memory holds
  wanted,    \* the details still to be asked for
  attempt,   \* the number of the current request
  failures,  \* the details that could not be had
  depth,     \* replan_depth
  heard,     \* what the player was told in this chat
  lost,      \* what say was called with and did not reach the bot; its answer,
             \* ok or not, is never looked at
  ended      \* how the last chat ended

statusVars == <<known, wanted, attempt, failures>>
chatVars   == <<chats, kind, depth>>
said       == <<heard, lost>>
vars       == <<planVars, pc, statusVars, chatVars, said, ended>>

Kinds   == {"come", "excluded", "free"}
Kept    == {"position", "inventory"}
Details == {"general"} \union Kept
Notices == {"cannot", "state", "ack", "resp", "question", "no plan", "failed"}

TypeOK ==
    /\ PlanTypeOK
    /\ pc \in {"idle", "status", "status barrier", "primed", "planning", "planned",
               "asking", "plan barrier", "running", "step barrier"}
    /\ chats \in 0..MaxChats
    /\ kind \in Kinds
    /\ known \subseteq Details /\ wanted \subseteq Details /\ failures \subseteq Details
    /\ attempt \in 1..(StatusRetry + 1)
    /\ depth \in 0..MaxReplan
    /\ heard \subseteq Notices /\ lost \subseteq Notices
    /\ ended \in {"none", "done", "cut"}

Init ==
    /\ PlanInit
    /\ pc = "idle" /\ chats = 0 /\ kind = "free" /\ known = {} /\ wanted = {}
    /\ attempt = 1 /\ failures = {} /\ depth = 0 /\ heard = {} /\ lost = {} /\ ended = "none"

(* say: the bot is told, or it is not reached, and nobody notices.         *)
Tell(what) ==
    \/ heard' = heard \union {what} /\ lost' = lost
    \/ lost' = lost \union {what} /\ heard' = heard

Said == heard \union lost

Leave(how) ==
    /\ pc' = "idle"
    /\ ended' = how

-----------------------------------------------------------------------------
(* The general state is asked for anew, the others when memory lacks them. *)
Take ==
    /\ pc = "idle"
    /\ chats < MaxChats
    /\ chats' = chats + 1
    /\ kind' \in Kinds
    /\ pc' = "status"
    /\ wanted' = Details \ (known \ {"general"})
    /\ known' = known \ {"general"}
    /\ attempt' = 1 /\ failures' = {} /\ depth' = 0 /\ heard' = {} /\ lost' = {} /\ ended' = "none"
    /\ node' = "out" /\ answer' = NoAnswer /\ plan' = FailurePlan /\ confirm' = FALSE
    /\ UNCHANGED priority

(* The general state first, then the position, then the inventory.         *)
Current == CHOOSE d \in wanted : \A e \in wanted :
             d = e \/ d = "general" \/ (d = "position" /\ e = "inventory")

StatusAnswered ==
    /\ pc = "status" /\ wanted # {}
    /\ known' = known \union {Current}
    /\ wanted' = wanted \ {Current}
    /\ attempt' = 1
    /\ UNCHANGED <<planVars, pc, failures, chatVars, said, ended>>

(* No answer in time, a refusal, an exception: once more after a wait.     *)
StatusRetried ==
    /\ pc = "status" /\ wanted # {}
    /\ attempt <= StatusRetry
    /\ attempt' = attempt + 1
    /\ UNCHANGED <<planVars, pc, known, wanted, failures, chatVars, said, ended>>

(* Mutation. *)
StatusForgotten ==
    /\ pc = "status" /\ wanted # {}
    /\ attempt > StatusRetry
    /\ wanted' = wanted \ {Current}
    /\ attempt' = 1
    /\ UNCHANGED <<planVars, pc, known, failures, chatVars, said, ended>>

StatusGivenUp ==
    /\ pc = "status" /\ wanted # {}
    /\ attempt > StatusRetry
    /\ failures' = failures \union {Current}
    /\ wanted' = wanted \ {Current}
    /\ attempt' = 1
    /\ UNCHANGED <<planVars, pc, known, chatVars, said, ended>>

(* A call to come over ends here without the state; the rest is told.      *)
RefuseCome ==
    /\ pc = "status" /\ wanted = {}
    /\ failures # {} /\ kind = "come"
    /\ Tell("cannot")
    /\ Leave("done")
    /\ UNCHANGED <<planVars, statusVars, chatVars>>

ReportState ==
    /\ pc = "status" /\ wanted = {}
    /\ failures # {} /\ kind # "come"
    /\ pc' = "status barrier"
    /\ UNCHANGED <<planVars, statusVars, chatVars, said, ended>>

StatusComplete ==
    /\ pc = "status" /\ wanted = {}
    /\ failures = {}
    /\ pc' = "primed"
    /\ IF kind = "come" THEN Tell("ack") ELSE UNCHANGED said
    /\ UNCHANGED <<planVars, statusVars, chatVars, ended>>

(* The LLM words the notice; without a usable answer the short text does.  *)
BarrierSaid(notice) ==
    /\ Tell(notice)
    /\ UNCHANGED planVars

StateReported ==
    /\ pc = "status barrier"
    /\ BarrierSaid("state")
    /\ pc' = "primed"
    /\ UNCHANGED <<statusVars, chatVars, ended>>

(* Block evaluations need x, y and z in the position, where the bot puts   *)
(* them one level down: they are skipped.                                  *)
CollectBlockEvaluations == UNCHANGED statusVars

PlanCome ==
    /\ pc = "primed"
    /\ CollectBlockEvaluations
    /\ kind = "come"
    /\ plan' = ComePlan
    /\ pc' = "planned"
    /\ UNCHANGED <<node, answer, confirm, priority, chatVars, said, ended>>

PlanFree ==
    /\ pc = "primed"
    /\ CollectBlockEvaluations
    /\ kind # "come"
    /\ node' = "preparing"
    /\ pc' = "planning"
    /\ UNCHANGED <<answer, plan, confirm, priority, chatVars, said, ended>>

Planning ==
    /\ pc = "planning"
    /\ GraphStep
    /\ UNCHANGED <<pc, statusVars, chatVars, said, ended>>

(* An excluded text that the LLM took for a call becomes the fixed step,   *)
(* which the action graph refuses.                                         *)
PlanReturned ==
    /\ pc = "planning" /\ node = "planned"
    /\ node' = "out"
    /\ plan' = IF kind = "excluded" /\ plan.move /\ depth = 0
                 THEN [plan EXCEPT !.steps = TRUE, !.resp = FALSE]
                 ELSE plan
    /\ pc' = "planned"
    /\ UNCHANGED <<answer, confirm, priority, statusVars, chatVars, said, ended>>

IsQuestion(p) == p.blocking \/ p.clarify \/ p.next = "chat"

(* Where PlanExecutor.run takes a plan.                                    *)
Entry(p) == IF IsQuestion(p) THEN "asking"
            ELSE IF p.steps THEN "running" ELSE "plan barrier"

(* The pipeline relays the resp of a plan that is no question; a replan's  *)
(* resp is said in any case.                                               *)
Relays(p) == p.resp /\ (~IsQuestion(p) \/ depth > 0)

(* Mutation. *)
ExecuteNothing ==
    /\ pc = "planned"
    /\ pc' = IF Entry(plan) = "plan barrier" THEN "idle" ELSE Entry(plan)
    /\ ended' = IF Entry(plan) = "plan barrier" THEN "done" ELSE ended
    /\ IF Relays(plan) THEN Tell("resp") ELSE UNCHANGED said
    /\ UNCHANGED <<planVars, statusVars, chatVars>>

Execute ==
    /\ pc = "planned"
    /\ pc' = Entry(plan)
    /\ IF Relays(plan) THEN Tell("resp") ELSE UNCHANGED said
    /\ UNCHANGED <<planVars, statusVars, chatVars, ended>>

(* The resp, or the standard question.                                     *)
Ask ==
    /\ pc = "asking"
    /\ Tell("question")
    /\ Leave("done")
    /\ UNCHANGED <<planVars, statusVars, chatVars>>

NoPlanReported ==
    /\ pc = "plan barrier"
    /\ BarrierSaid("no plan")
    /\ Leave("done")
    /\ UNCHANGED <<statusVars, chatVars>>

(* What steps do to the remembered state: status steps set it, a failed    *)
(* refresh before equipping empties the inventory.                         *)
Learn == known' \in {(known \ erased) \union learnt :
                       erased \in SUBSET {"inventory"}, learnt \in SUBSET Kept}

StepsDone ==
    /\ pc = "running"
    /\ Learn
    /\ Leave("done")
    /\ UNCHANGED <<planVars, wanted, attempt, failures, chatVars, said>>

StepHalts ==
    /\ pc = "running"
    /\ Learn
    /\ pc' = "step barrier"
    /\ UNCHANGED <<planVars, wanted, attempt, failures,
                   chatVars, said, ended>>

Replan ==
    /\ pc = "step barrier"
    /\ Tell("failed")
    /\ \/ /\ depth < MaxReplan
          /\ depth' = depth + 1
          /\ node' = "preparing"
          /\ pc' = "planning"
          /\ UNCHANGED ended
       \/ /\ depth >= MaxReplan
          /\ Leave("done")
          /\ UNCHANGED <<depth, node>>
    /\ UNCHANGED <<answer, plan, confirm, priority, statusVars, chats, kind>>

(* The worker's timeout cancels the chat at any await, or one raises.      *)
Abort ==
    /\ pc # "idle"
    /\ Leave("cut")
    /\ node' = "out"
    /\ UNCHANGED <<answer, plan, confirm, priority, statusVars, chatVars, said>>

Next ==
    \/ Take
    \/ StatusAnswered \/ StatusRetried \/ StatusGivenUp
    \/ RefuseCome \/ ReportState \/ StatusComplete \/ StateReported
    \/ PlanCome \/ PlanFree \/ Planning \/ PlanReturned
    \/ Execute \/ Ask \/ NoPlanReported
    \/ StepsDone \/ StepHalts \/ Replan
    \/ Abort

Spec == Init /\ [][Next]_vars

-----------------------------------------------------------------------------
(* Nothing runs on an unsure plan, the first or a replan: the LLM answered *)
(* readably, with steps, without a question, and was sure; only the fixed  *)
(* plan of a call to come over does without.                               *)
UnsureNeverRuns ==
    pc = "running" /\ ~(kind = "come" /\ depth = 0) =>
        /\ answer.form \in Readable
        /\ answer.plan.steps /\ answer.plan.sure
        /\ ~answer.plan.blocking /\ ~answer.plan.clarify

(* A first plan is made on the whole state of the bot, or after a notice   *)
(* that something is missing; a call to come over is planned only on the   *)
(* whole state.  Whether the notice reached the player is not known.       *)
PlannedOnState ==
    pc \in {"planning", "planned", "asking", "plan barrier"} /\ depth = 0 =>
        Details \subseteq known \/ (kind # "come" /\ "state" \in Said)

(* A chat that was not cut off and ran no step was answered in the end, or *)
(* an answer was at least sent to a bot that could not be reached: no end  *)
(* of the pipeline is without a say.  A promise (resp, ack) or a notice of *)
(* missing state is no answer.                                             *)
NeverSilent ==
    pc = "idle" /\ ended = "done" =>
        \/ Said \intersect {"cannot", "question", "no plan", "failed"} # {}
        \/ plan.steps /\ ~IsQuestion(plan)
=============================================================================
