------------------------------ MODULE PlanGraph ------------------------------
(***************************************************************************)
(* The plan graph of the planner (python/planner/graph.py), the calls of   *)
(* the LLM it makes (python/llm/client.py) and the plan priority           *)
(* (python/planner/priority.py).                                           *)
(*                                                                         *)
(* An action is one node of the graph up to its await.  A plan is what the *)
(* executor looks at; prompts, texts, coordinates, the trace, directives,  *)
(* the backlog and the outcomes that are logged for each call are left     *)
(* out.  A client can be built: the key is configured.                     *)
(***************************************************************************)

VARIABLES
  node,      \* the node of the graph that runs next, or awaits the LLM
  answer,    \* what the LLM last answered
  plan,      \* plan_out, or the fallback plan
  confirm,   \* confirmation_required
  priority   \* PlanPriorityManager._priority

planVars == <<node, answer, plan, confirm, priority>>

(* steps: plan[] is not empty.  sure: confidence above the threshold.      *)
(* move: the intent is move_to_player.                                     *)
Plan == [steps : BOOLEAN, resp : BOOLEAN, blocking : BOOLEAN, clarify : BOOLEAN,
         sure : BOOLEAN, move : BOOLEAN, next : {"execute", "chat"}]

(* What the LLM writes, and how: it fits the wire model or the runtime     *)
(* model; only after normalisation; not even then; not at all.             *)
Forms   == {"fit", "repairable", "beyond repair", "unfit"}
Readable == {"fit", "repairable"}

(* PlanOut(plan=[], resp=...), the defaults for the rest.                  *)
FailurePlan == [steps |-> FALSE, resp |-> TRUE, blocking |-> FALSE, clarify |-> FALSE,
                sure |-> FALSE, move |-> FALSE, next |-> "execute"]

RefusalPlan == [FailurePlan EXCEPT !.blocking = TRUE, !.clarify = TRUE, !.next = "chat"]

(* The pipeline's own plan for a call to come over.                        *)
ComePlan == [FailurePlan EXCEPT !.steps = TRUE, !.resp = FALSE, !.move = TRUE]

NoAnswer == [form |-> "unfit", plan |-> FailurePlan]

Answers == [form : Readable, plan : Plan]
           \union [form : Forms \ Readable, plan : {FailurePlan}]

PlanInit ==
    /\ node = "out" /\ answer = NoAnswer /\ plan = FailurePlan /\ confirm = FALSE
    /\ priority = "normal"

-----------------------------------------------------------------------------
PreparePayload ==
    /\ node = "preparing"
    /\ node' = "calling"
    /\ confirm' = FALSE
    /\ answer' = NoAnswer
    /\ UNCHANGED <<plan, priority>>

CallAnswered ==
    /\ node = "calling"
    /\ answer' \in Answers
    /\ node' = "parsing"
    /\ UNCHANGED <<plan, confirm, priority>>

(* A timeout, a failed request, or a refusal, which brings its own plan.   *)
CallFails ==
    /\ node = "calling"
    /\ plan' \in {FailurePlan, RefusalPlan}
    /\ node' = "falling back"
    /\ priority' = "high"
    /\ UNCHANGED <<answer, confirm>>

ParseFails ==
    /\ node = "parsing"
    /\ answer.form \notin Readable
    /\ plan' = FailurePlan
    /\ node' = "falling back"
    /\ priority' = "high"
    /\ UNCHANGED <<answer, confirm>>

(* A plan without steps becomes a question.                                *)
ParseEmpty ==
    /\ node = "parsing"
    /\ answer.form \in Readable
    /\ ~answer.plan.steps
    /\ plan' = [answer.plan EXCEPT !.blocking = TRUE, !.clarify = TRUE,
                                   !.resp = TRUE, !.next = "chat"]
    /\ node' = "reviewing"
    /\ priority' = "high"
    /\ UNCHANGED <<answer, confirm>>

ParsePlan ==
    /\ node = "parsing"
    /\ answer.form \in Readable
    /\ answer.plan.steps
    /\ plan' = answer.plan
    /\ node' = "reviewing"
    /\ priority' = "normal"
    /\ UNCHANGED <<answer, confirm>>

NeedsReview(p) == ~p.blocking /\ ~p.clarify /\ ~p.sure

(* The LLM is asked for a question to the player.                          *)
PreActionReview ==
    /\ node = "reviewing"
    /\ node' = IF NeedsReview(plan) THEN "asking" ELSE "negotiating"
    /\ UNCHANGED <<answer, plan, confirm, priority>>

(* Whatever becomes of that call, there is a text to ask with.             *)
FollowUp ==
    /\ node = "asking"
    /\ plan' = [plan EXCEPT !.resp = TRUE, !.next = "chat"]
    /\ confirm' = TRUE
    /\ node' = "negotiating"
    /\ UNCHANGED <<answer, priority>>

(* Mutation. *)
AsksByPlan == plan.blocking \/ plan.clarify

Asks == plan.blocking \/ plan.clarify \/ confirm

(* The LLM's own next_action is replaced.                                  *)
IntentNegotiation ==
    /\ node = "negotiating"
    /\ confirm' = Asks
    /\ plan' = [plan EXCEPT !.next = IF Asks THEN "chat" ELSE "execute"]
    /\ node' = "planned"
    /\ UNCHANGED <<answer, priority>>

(* Straight to the end: no review, no negotiation.                         *)
FallbackPlan ==
    /\ node = "falling back"
    /\ node' = "planned"
    /\ UNCHANGED <<answer, plan, confirm, priority>>

GraphStep ==
    \/ PreparePayload \/ CallAnswered \/ CallFails
    \/ ParseFails \/ ParseEmpty \/ ParsePlan
    \/ PreActionReview \/ FollowUp \/ IntentNegotiation \/ FallbackPlan

PlanTypeOK ==
    /\ node \in {"out", "preparing", "calling", "parsing", "reviewing", "asking",
                 "negotiating", "falling back", "planned"}
    /\ answer \in Answers
    /\ plan \in Plan
    /\ confirm \in BOOLEAN
    /\ priority \in {"normal", "high"}
=============================================================================
