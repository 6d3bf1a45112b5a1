------------------------ MODULE ChatPlanningProofs ------------------------
(***************************************************************************)
(* What becomes of a chat, for any number of chats, replans and retries.   *)
(* The invariant follows the answer of the LLM through the nodes of the    *)
(* plan graph to the executor, and the details of the state from the       *)
(* request to the plan.                                                    *)
(***************************************************************************)
EXTENDS ChatPlanning, TLAPS

(* The answer may be acted upon.                                           *)
SureAnswer ==
    /\ answer.form \in Readable
    /\ answer.plan.steps /\ answer.plan.sure
    /\ ~answer.plan.blocking /\ ~answer.plan.clarify

(* What each node of the graph leaves to the next: an unsure plan becomes  *)
(* a question at the latest in the negotiation, and a plan without an      *)
(* answer is one of the two fixed ones.                                    *)
GraphInv ==
    /\ node = "reviewing" =>
         /\ answer.form \in Readable
         /\ plan.blocking \/ (plan = answer.plan /\ plan.steps)
    /\ node = "asking" => answer.form \in Readable
    /\ node = "negotiating" => plan.blocking \/ plan.clarify \/ confirm \/ SureAnswer
    /\ node = "falling back" => plan \in {FailurePlan, RefusalPlan}
    /\ node = "planned" => plan \in {FailurePlan, RefusalPlan} \/ IsQuestion(plan) \/ SureAnswer

(* The plan of the pipeline's own, for a call to come over.                *)
OwnPlan == kind = "come" /\ depth = 0

(* What the executor is given, and what it runs.                           *)
RunsOnlySure ==
    /\ pc = "planned" /\ ~OwnPlan /\ plan.steps => IsQuestion(plan) \/ SureAnswer
    /\ pc = "running" => plan.steps /\ ~IsQuestion(plan)
    /\ UnsureNeverRuns

(* Before the first plan, a detail of the state is known, still wanted or  *)
(* has failed, and a failed one is told.                                   *)
StateInv ==
    /\ pc \in {"status", "status barrier", "primed"} => depth = 0 /\ node = "out"
    /\ pc = "status" => Details \subseteq known \union wanted \union failures
    /\ pc = "status barrier" => kind # "come"
    /\ pc = "primed" => Details \subseteq known \/ (kind # "come" /\ "state" \in Said)
    /\ PlannedOnState

PlanningInv == TypeOK /\ GraphInv /\ RunsOnlySure /\ StateInv /\ NeverSilent
-----------------------------------------------------------------------------
(* The plan graph. *)

LEMMA FixedPlans ==
  /\ FailurePlan \in Plan /\ RefusalPlan \in Plan /\ ComePlan \in Plan /\ NoAnswer \in Answers
  /\ ~FailurePlan.steps /\ ~RefusalPlan.steps /\ ~FailurePlan.move /\ ~RefusalPlan.move
  /\ ComePlan.steps /\ ~IsQuestion(ComePlan)
BY DEF FailurePlan, RefusalPlan, ComePlan, NoAnswer, Plan, Answers, Forms, Readable, IsQuestion

LEMMA AnswersTyped ==
  ASSUME NEW a \in Answers PROVE a.plan \in Plan
BY FixedPlans DEF Answers

LEMMA GraphStepHolds ==
  ASSUME PlanTypeOK, GraphInv, GraphStep
  PROVE  PlanTypeOK' /\ GraphInv'
<1>1. CASE PreparePayload
  BY <1>1, FixedPlans DEF PreparePayload, PlanTypeOK, GraphInv
<1>2. CASE CallAnswered
  BY <1>2 DEF CallAnswered, PlanTypeOK, GraphInv
<1>3. CASE CallFails
  BY <1>3, FixedPlans DEF CallFails, PlanTypeOK, GraphInv
<1>4. CASE ParseFails
  BY <1>4, FixedPlans DEF ParseFails, PlanTypeOK, GraphInv
<1>5. CASE ParseEmpty
  <2>1. plan' \in Plan /\ plan'.blocking
    BY <1>5, AnswersTyped DEF ParseEmpty, PlanTypeOK, Plan
  <2> QED BY <1>5, <2>1 DEF ParseEmpty, PlanTypeOK, GraphInv
<1>6. CASE ParsePlan
  BY <1>6, AnswersTyped DEF ParsePlan, PlanTypeOK, GraphInv
<1>7. CASE PreActionReview
  BY <1>7 DEF PreActionReview, NeedsReview, PlanTypeOK, GraphInv, SureAnswer
<1>8. CASE FollowUp
  <2>1. plan' \in Plan
    BY <1>8 DEF FollowUp, PlanTypeOK, Plan
  <2> QED BY <1>8, <2>1 DEF FollowUp, PlanTypeOK, GraphInv
<1>9. CASE IntentNegotiation
  <2>1. plan' \in Plan /\ confirm' \in BOOLEAN
    BY <1>9 DEF IntentNegotiation, Asks, PlanTypeOK, Plan
  <2>2. CASE Asks
    <3>1. plan'.next = "chat"
      BY <1>9, <2>2 DEF IntentNegotiation, PlanTypeOK, Plan
    <3> QED BY <1>9, <2>1, <3>1 DEF IntentNegotiation, PlanTypeOK, GraphInv, IsQuestion
  <2>3. CASE ~Asks
    BY <1>9, <2>1, <2>3 DEF IntentNegotiation, Asks, PlanTypeOK, GraphInv, SureAnswer
  <2> QED BY <2>2, <2>3
<1>10. CASE FallbackPlan
  BY <1>10 DEF FallbackPlan, PlanTypeOK, GraphInv
<1> QED BY <1>1, <1>2, <1>3, <1>4, <1>5, <1>6, <1>7, <1>8, <1>9, <1>10 DEF GraphStep

-----------------------------------------------------------------------------
(* The pipeline. *)

LEMMA CurrentIsWanted ==
  ASSUME wanted \subseteq Details, wanted # {} PROVE Current \in wanted
<1> DEFINE First(d) == \A e \in wanted :
             d = e \/ d = "general" \/ (d = "position" /\ e = "inventory")
<1>1. \E d \in wanted : First(d)
  <2>1. CASE "general" \in wanted
    BY <2>1
  <2>2. CASE "general" \notin wanted /\ "position" \in wanted
    BY <2>2 DEF Details, Kept
  <2>3. CASE "general" \notin wanted /\ "position" \notin wanted
    BY <2>3 DEF Details, Kept
  <2> QED BY <2>1, <2>2, <2>3
<1> QED BY <1>1 DEF Current

LEMMA Bounds ==
  /\ MaxChats \in Nat /\ MaxReplan \in Nat /\ StatusRetry \in Nat
  /\ \A n \in 0..MaxChats : n < MaxChats => n + 1 \in 0..MaxChats
  /\ \A n \in 0..MaxReplan : n < MaxReplan => n + 1 \in 0..MaxReplan /\ n + 1 # 0
  /\ \A n \in 1..(StatusRetry + 1) : n <= StatusRetry => n + 1 \in 1..(StatusRetry + 1)
  /\ 1 \in 1..(StatusRetry + 1) /\ 0 \in 0..MaxReplan /\ 0 \in 0..MaxChats
BY ChatPlanningAssumption DEF ChatPlanningAssumption

(* What is said is told or lost; nothing that was said is forgotten.       *)
LEMMA Saying ==
  /\ UNCHANGED said => heard' = heard /\ lost' = lost /\ Said' = Said
  /\ \A what \in Notices : TypeOK /\ Tell(what) =>
       heard' \subseteq Notices /\ lost' \subseteq Notices /\ Said' = Said \union {what}
BY DEF said, Said, Tell, TypeOK

LEMMA PlanningStart == Init => PlanningInv
<1> SUFFICES ASSUME Init PROVE PlanningInv
  OBVIOUS
<1>1. TypeOK
  <2>1. PlanTypeOK
    BY FixedPlans DEF Init, PlanInit, PlanTypeOK
  <2>2. attempt \in 1..(StatusRetry + 1) /\ depth \in 0..MaxReplan /\ chats \in 0..MaxChats
    BY Bounds DEF Init
  <2> QED BY <2>1, <2>2 DEF Init, TypeOK, Kinds
<1> QED BY <1>1 DEF Init, PlanInit, PlanningInv, GraphInv, RunsOnlySure, UnsureNeverRuns,
     StateInv, PlannedOnState, NeverSilent

(* Before the plan: the state of the bot. *)
LEMMA StatusStep ==
  ASSUME PlanningInv,
         \/ Take \/ StatusAnswered \/ StatusRetried \/ StatusGivenUp
         \/ RefuseCome \/ ReportState \/ StatusComplete \/ StateReported
  PROVE  PlanningInv'
<1>1. CASE Take
  <2>1. PlanTypeOK' /\ GraphInv'
    BY <1>1, FixedPlans DEF Take, PlanningInv, TypeOK, PlanTypeOK, GraphInv
  <2>2. TypeOK'
    <3>1. chats' \in 0..MaxChats /\ attempt' \in 1..(StatusRetry + 1) /\ depth' \in 0..MaxReplan
      BY <1>1, Bounds DEF Take, PlanningInv, TypeOK
    <3>2. known' \subseteq Details /\ wanted' \subseteq Details /\ failures' \subseteq Details
      BY <1>1 DEF Take, PlanningInv, TypeOK
    <3> QED BY <1>1, <2>1, <3>1, <3>2 DEF Take, TypeOK
  <2> QED BY <1>1, <2>1, <2>2 DEF Take, PlanningInv, RunsOnlySure, UnsureNeverRuns, StateInv,
               PlannedOnState, NeverSilent
<1>2. CASE StatusAnswered \/ StatusRetried \/ StatusGivenUp
  <2>1. /\ UNCHANGED <<planVars, pc, chatVars, said, ended>> /\ pc = "status"
        /\ Details \subseteq known' \union wanted' \union failures'
    BY <1>2 DEF StatusAnswered, StatusRetried, StatusGivenUp, PlanningInv, StateInv
  <2>2. /\ known' \subseteq Details /\ wanted' \subseteq Details /\ failures' \subseteq Details
        /\ attempt' \in 1..(StatusRetry + 1)
    <3>1. /\ known \subseteq Details /\ wanted \subseteq Details /\ failures \subseteq Details
          /\ attempt \in 1..(StatusRetry + 1) /\ {Current} \subseteq Details
      BY <1>2, CurrentIsWanted DEF StatusAnswered, StatusRetried, StatusGivenUp, PlanningInv, TypeOK
    <3>2. CASE StatusAnswered
      BY <3>1, <3>2, Bounds DEF StatusAnswered
    <3>3. CASE StatusRetried
      BY <3>1, <3>3, Bounds DEF StatusRetried
    <3>4. CASE StatusGivenUp
      BY <3>1, <3>4, Bounds DEF StatusGivenUp
    <3> QED BY <1>2, <3>2, <3>3, <3>4
  <2>3. TypeOK'
    BY <2>1, <2>2 DEF said, Said, planVars, chatVars, PlanningInv, TypeOK, PlanTypeOK
  <2>4. GraphInv'
    BY <2>1 DEF planVars, PlanningInv, GraphInv, IsQuestion, SureAnswer
  <2>5. RunsOnlySure' /\ NeverSilent'
    BY <2>1 DEF planVars, chatVars, PlanningInv, RunsOnlySure, UnsureNeverRuns, NeverSilent
  <2>6. StateInv'
    BY <2>1 DEF planVars, chatVars, PlanningInv, StateInv, PlannedOnState
  <2> QED BY <2>3, <2>4, <2>5, <2>6 DEF PlanningInv
<1>3. CASE RefuseCome \/ ReportState \/ StatusComplete \/ StateReported
  <2>1. /\ UNCHANGED <<planVars, statusVars, chatVars>> /\ pc \in {"status", "status barrier"}
    BY <1>3 DEF RefuseCome, ReportState, StatusComplete, StateReported, BarrierSaid
  <2>4. TypeOK'
    <3>1. UNCHANGED said \/ \E what \in Notices : Tell(what)
      BY <1>3 DEF RefuseCome, ReportState, StatusComplete, StateReported, BarrierSaid, Notices
    <3>2. heard' \subseteq Notices /\ lost' \subseteq Notices
      BY <3>1, Saying DEF PlanningInv, TypeOK
    <3>3. /\ pc' \in {"idle", "status barrier", "primed"} /\ ended' \in {ended, "done"}
      BY <1>3 DEF RefuseCome, ReportState, StatusComplete, StateReported, Leave
    <3> QED BY <2>1, <3>2, <3>3 DEF PlanningInv, TypeOK, planVars, statusVars, chatVars, PlanTypeOK
  <2>2. GraphInv'
    BY <2>1 DEF planVars, PlanningInv, GraphInv, SureAnswer, IsQuestion
  <2>3. /\ pc' \in {"idle", "status barrier", "primed"} /\ ended' \in {ended, "done"}
        /\ pc' = "idle" => "cannot" \in Said'
        /\ pc' = "status barrier" => kind # "come"
        /\ pc' = "primed" => Details \subseteq known \/ (kind # "come" /\ "state" \in Said')
    BY <1>3 DEF said, Said, RefuseCome, ReportState, StatusComplete, StateReported, BarrierSaid, Tell, Leave,
                PlanningInv, StateInv
  <2> QED BY <2>1, <2>2, <2>3, <2>4 DEF planVars, statusVars, chatVars, PlanningInv,
               RunsOnlySure, UnsureNeverRuns, StateInv, PlannedOnState, NeverSilent
<1> QED BY <1>1, <1>2, <1>3

(* The plan, and what the executor makes of it. *)
LEMMA PlanStep ==
  ASSUME PlanningInv,
         PlanCome \/ PlanFree \/ Planning \/ PlanReturned \/ Execute
  PROVE  PlanningInv'
<1> USE DEF PlanningInv
<1>1. CASE PlanCome
  <2>1. PlanTypeOK' /\ GraphInv' /\ TypeOK'
    <3>1. node # "planned" /\ node # "reviewing" /\ node # "negotiating" /\ node # "falling back"
      BY <1>1 DEF PlanCome, StateInv
    <3>2. PlanTypeOK'
      BY <1>1, FixedPlans DEF PlanCome, TypeOK, PlanTypeOK
    <3>3. TypeOK'
      BY <1>1, <3>2 DEF said, Said, PlanCome, CollectBlockEvaluations, statusVars, chatVars, TypeOK
    <3>4. GraphInv'
      BY <1>1, <3>1 DEF PlanCome, GraphInv
    <3> QED BY <3>2, <3>3, <3>4
  <2>2. OwnPlan'
    BY <1>1 DEF PlanCome, chatVars, OwnPlan, StateInv
  <2> QED BY <1>1, <2>1, <2>2 DEF PlanCome, CollectBlockEvaluations, statusVars, chatVars,
               RunsOnlySure, UnsureNeverRuns, StateInv, PlannedOnState, NeverSilent
<1>2. CASE PlanFree
  BY <1>2 DEF said, Said, PlanFree, CollectBlockEvaluations, statusVars, chatVars, TypeOK, PlanTypeOK, GraphInv,
     RunsOnlySure, UnsureNeverRuns, StateInv, PlannedOnState, NeverSilent
<1>3. CASE Planning
  <2>1. PlanTypeOK' /\ GraphInv'
    BY <1>3, GraphStepHolds DEF Planning, TypeOK
  <2> QED BY <1>3, <2>1 DEF said, Said, Planning, statusVars, chatVars, TypeOK, RunsOnlySure, UnsureNeverRuns,
               StateInv, PlannedOnState, NeverSilent
<1>4. CASE PlanReturned
  <2>1. plan' \in Plan /\ (plan' = plan \/ plan.move)
    BY <1>4 DEF PlanReturned, TypeOK, PlanTypeOK, Plan
  <2>2. IsQuestion(plan) => IsQuestion(plan)'
    BY <1>4 DEF PlanReturned, IsQuestion, TypeOK, PlanTypeOK, Plan
  <2>3. TypeOK' /\ GraphInv'
    BY <1>4, <2>1 DEF said, Said, PlanReturned, statusVars, chatVars, TypeOK, PlanTypeOK, GraphInv
  <2>4. plan'.steps => IsQuestion(plan)' \/ SureAnswer'
    BY <1>4, <2>1, <2>2, FixedPlans DEF PlanReturned, GraphInv, SureAnswer
  <2> QED BY <1>4, <2>3, <2>4 DEF said, Said, PlanReturned, statusVars, chatVars, RunsOnlySure,
               UnsureNeverRuns, StateInv, PlannedOnState, NeverSilent
<1>5. CASE Execute
  <2>1. /\ pc = "planned" /\ pc' = Entry(plan) /\ UNCHANGED <<planVars, statusVars, chatVars, ended>>
        /\ pc' \in {"asking", "running", "plan barrier"}
        /\ pc' = "running" => plan.steps /\ ~IsQuestion(plan)
        /\ heard' \subseteq Notices /\ lost' \subseteq Notices /\ Said \subseteq Said'
    BY <1>5, Saying DEF Execute, Entry, TypeOK, Notices
  <2>2. TypeOK' /\ GraphInv'
    <3>1. TypeOK'
      BY <2>1 DEF planVars, statusVars, chatVars, TypeOK, PlanTypeOK
    <3>2. GraphInv'
      BY <2>1 DEF planVars, GraphInv, IsQuestion, SureAnswer
    <3> QED BY <3>1, <3>2
  <2>3. RunsOnlySure'
    <3>1. pc' = "running" /\ ~OwnPlan => SureAnswer
      BY <2>1 DEF RunsOnlySure
    <3> QED BY <2>1, <3>1 DEF planVars, chatVars, RunsOnlySure, UnsureNeverRuns, OwnPlan,
                 SureAnswer, IsQuestion
  <2> QED BY <2>1, <2>2, <2>3 DEF statusVars, chatVars, StateInv, PlannedOnState, NeverSilent
<1> QED BY <1>1, <1>2, <1>3, <1>4, <1>5

(* After the plan: the ends, and planning again. *)
LEMMA RunStep ==
  ASSUME PlanningInv,
         Ask \/ NoPlanReported \/ StepsDone \/ StepHalts \/ Replan \/ Abort
  PROVE  PlanningInv'
<1> USE DEF PlanningInv
<1>1. CASE Ask \/ NoPlanReported
  <2>1. /\ UNCHANGED <<planVars, statusVars, chatVars>> /\ pc' = "idle" /\ ended' = "done"
        /\ Tell("question") \/ Tell("no plan")
    BY <1>1 DEF Ask, NoPlanReported, BarrierSaid, Leave
  <2>2. /\ heard' \subseteq Notices /\ lost' \subseteq Notices
        /\ "question" \in Said' \/ "no plan" \in Said'
    BY <2>1, Saying DEF Notices
  <2>3. TypeOK'
    BY <2>1, <2>2 DEF planVars, statusVars, chatVars, TypeOK, PlanTypeOK
  <2>4. GraphInv'
    BY <2>1 DEF planVars, GraphInv, IsQuestion, SureAnswer
  <2> QED BY <2>1, <2>2, <2>3, <2>4 DEF RunsOnlySure, UnsureNeverRuns, StateInv,
               PlannedOnState, NeverSilent
<1>2. CASE StepsDone \/ StepHalts
  <2>1. known' \subseteq Details
    <3>1. Learn
      BY <1>2 DEF StepsDone, StepHalts
    <3>2. ASSUME NEW S, S \in {(known \ erased) \union learnt :
                                erased \in SUBSET {"inventory"}, learnt \in SUBSET Kept}
          PROVE  S \subseteq known \union Kept
      BY <3>2
    <3>3. known' \subseteq known \union Kept
      BY <3>1, <3>2 DEF Learn
    <3> QED BY <3>3 DEF TypeOK, Details
  <2>2. /\ UNCHANGED <<planVars, wanted, attempt, failures, chatVars, said>> /\ pc = "running"
        /\ (pc' = "idle" /\ ended' = "done") \/ (pc' = "step barrier" /\ ended' = ended)
    BY <1>2 DEF StepsDone, StepHalts, Leave
  <2>3. TypeOK'
    BY <2>1, <2>2 DEF said, Said, planVars, chatVars, TypeOK, PlanTypeOK
  <2>4. GraphInv'
    BY <2>2 DEF planVars, GraphInv, IsQuestion, SureAnswer
  <2>5. RunsOnlySure' /\ StateInv'
    BY <2>2 DEF RunsOnlySure, UnsureNeverRuns, StateInv, PlannedOnState
  <2>6. NeverSilent'
    BY <2>2 DEF planVars, RunsOnlySure, NeverSilent, IsQuestion
  <2> QED BY <2>3, <2>4, <2>5, <2>6
<1>3. CASE Replan
  <2>1. /\ pc = "step barrier" /\ Said' = Said \union {"failed"}
        /\ heard' \subseteq Notices /\ lost' \subseteq Notices
        /\ UNCHANGED <<answer, plan, confirm, priority, statusVars, chats, kind>>
    BY <1>3, Saying DEF Replan, Notices
  <2>2. CASE /\ depth < MaxReplan /\ depth' = depth + 1 /\ node' = "preparing"
             /\ pc' = "planning" /\ UNCHANGED ended
    <3>1. depth' \in 0..MaxReplan /\ depth' # 0
      BY <2>2, Bounds DEF TypeOK
    <3> QED BY <2>1, <2>2, <3>1 DEF statusVars, TypeOK, PlanTypeOK, GraphInv, RunsOnlySure,
                 UnsureNeverRuns, StateInv, PlannedOnState, NeverSilent
  <2>3. CASE pc' = "idle" /\ ended' = "done" /\ UNCHANGED <<depth, node>>
    <3>1. TypeOK'
      BY <2>1, <2>3 DEF statusVars, TypeOK, PlanTypeOK
    <3>2. GraphInv'
      BY <2>1, <2>3 DEF GraphInv, IsQuestion, SureAnswer
    <3> QED BY <2>1, <2>3, <3>1, <3>2 DEF RunsOnlySure, UnsureNeverRuns, StateInv, PlannedOnState,
                 NeverSilent
  <2> QED BY <1>3, <2>2, <2>3 DEF Replan, Leave
<1>4. CASE Abort
  <2>1. TypeOK'
    BY <1>4 DEF said, Said, Abort, Leave, statusVars, chatVars, TypeOK, PlanTypeOK
  <2>2. GraphInv'
    BY <1>4 DEF Abort, GraphInv
  <2> QED BY <1>4, <2>1, <2>2 DEF Abort, Leave, RunsOnlySure, UnsureNeverRuns, StateInv,
               PlannedOnState, NeverSilent
<1> QED BY <1>1, <1>2, <1>3, <1>4

LEMMA PlanningStep == PlanningInv /\ [Next]_vars => PlanningInv'
<1> SUFFICES ASSUME PlanningInv, [Next]_vars PROVE PlanningInv'
  OBVIOUS
<1>1. CASE UNCHANGED vars
  <2> USE DEF PlanningInv
  <2>1. UNCHANGED <<planVars, pc, statusVars, chatVars, said, ended>>
    BY <1>1 DEF vars
  <2>2. TypeOK'
    BY <2>1 DEF said, Said, planVars, statusVars, chatVars, TypeOK, PlanTypeOK
  <2>3. GraphInv'
    BY <2>1 DEF planVars, GraphInv, IsQuestion, SureAnswer
  <2>4. RunsOnlySure' /\ NeverSilent'
    BY <2>1 DEF said, Said, planVars, chatVars, RunsOnlySure, OwnPlan, IsQuestion, SureAnswer, UnsureNeverRuns,
       NeverSilent
  <2>5. StateInv'
    BY <2>1 DEF said, Said, planVars, statusVars, chatVars, StateInv, PlannedOnState
  <2> QED BY <2>2, <2>3, <2>4, <2>5
<1> QED BY <1>1, StatusStep, PlanStep, RunStep DEF Next

-----------------------------------------------------------------------------
(* In every reachable state, the graph, the executor and the state of the  *)
(* bot fit together.                                                       *)
THEOREM Invariance == Spec => []PlanningInv
BY PlanningStart, PlanningStep, PTL DEF Spec

(* Steps run only on an answer of the LLM that was readable, sure and      *)
(* asked nothing (graph.py, plan_executor.py), whatever fell back, was     *)
(* reviewed or was planned again; the fixed plan of a call is the one      *)
(* exception.                                                              *)
THEOREM UnsureNeverRunsEver == Spec => []UnsureNeverRuns
<1>1. PlanningInv => UnsureNeverRuns
  BY DEF PlanningInv, RunsOnlySure
<1> QED BY <1>1, Invariance, PTL

(* A first plan is made with every detail of the bot's state, or after a   *)
(* notice was sent that some are missing; only a call to come over is not  *)
(* planned without them (status_service.py, chat_pipeline.py), for any     *)
(* number of retries and whatever earlier chats left in memory.            *)
THEOREM AlwaysPlannedOnState == Spec => []PlannedOnState
<1>1. PlanningInv => PlannedOnState
  BY DEF PlanningInv, StateInv
<1> QED BY <1>1, Invariance, PTL

(* A chat that ends without having run a step, and was not cut off, ends   *)
(* with a say: that it is refused, a question, that there is no plan or    *)
(* that it failed.  Whether the bot could say it is not known to it        *)
(* (chat_pipeline.py, perception_service.py).                              *)
THEOREM NeverSilentEver == Spec => []NeverSilent
<1>1. PlanningInv => NeverSilent
  BY DEF PlanningInv
<1> QED BY <1>1, Invariance, PTL

===========================================================================
