------------------------- MODULE PlanExecutionProofs -------------------------
(***************************************************************************)
(* What PlanExecution promises of the reflections, of their file and of    *)
(* the chats that only pass on a call, for every depth of replanning and   *)
(* every number of steps, runs and crashes.                                *)
(*                                                                         *)
(* The pieces of IInv lean on each other: that a verdict is only added     *)
(* (HistoryKept) needs that the active reflection is undecided             *)
(* (PendingIs), and that a restart turns no pending reflection into a      *)
(* success (FailureNotSuccess) needs that the file is never ahead of the   *)
(* memory of a process that knows it (FileBehind).                         *)
(***************************************************************************)
EXTENDS PlanExecution, SequenceTheorems, TLAPS

Results == {"pending", "failed", "success"}
Reflections == [chat : Nat, result : Results]

Shape ==
    /\ logs \in Seq(Reflections)
    /\ disk \in Seq(Reflections)
    /\ active \in Nat
    /\ loaded \in 0..Len(logs)

(* OnePending, entry by entry.                                             *)
PendingIs ==
    /\ active # 0 => /\ active \in (loaded + 1)..Len(logs)
                     /\ logs[active].result = "pending"
    /\ \A i \in (loaded + 1)..Len(logs) : logs[i].result = "pending" => i = active

(* The file lacks at most the newest entries and the newest verdicts, if   *)
(* this process knows the file at all.                                     *)
FileBehind ==
    known => /\ Len(disk) <= Len(logs)
             /\ \A i \in 1..Len(disk) : disk[i].result # "pending" => disk[i] = logs[i]

(* The plan remembers a failed step to its end.                            *)
FailureKept == outcomes \intersect Failing # {} => failure

(* The handlers decide by the class of the text in work.                   *)
MessageIs == pc \in Executing => message = kind

StoreInv == Shape /\ PendingIs /\ FileBehind
ChatInv  == chat \in Nat /\ FailureKept /\ MessageIs /\ RelayNeverJoins

IInv == StoreInv /\ ChatInv

-----------------------------------------------------------------------------
(* PendingIs says the same as OnePending.                                  *)
LEMMA PendingIsOnePending ==
    ASSUME Shape, PendingIs PROVE OnePending
<1>1. ASSUME active = 0 PROVE OnePending
  <2>1. \A i \in (loaded + 1)..Len(logs) : logs[i].result # "pending"
    BY <1>1 DEF Shape, PendingIs
  <2> QED BY <1>1, <2>1 DEF OnePending
<1>2. ASSUME active # 0 PROVE OnePending
  BY <1>2 DEF PendingIs, OnePending
<1> QED BY <1>1, <1>2

(* A verdict changes the active reflection and nothing else.               *)
LEMMA ConcludedIs ==
    ASSUME Shape, PendingIs, NEW r \in Results
    PROVE  /\ Concluded(r) \in Seq(Reflections)
           /\ Len(Concluded(r)) = Len(logs)
           /\ \A i \in 1..Len(logs) :
                /\ i # active => Concluded(r)[i] = logs[i]
                /\ i = active => /\ Concluded(r)[i].result = r
                                 /\ logs[i].result = "pending"
<1>1. Len(logs) \in Nat /\ loaded \in Nat /\ active \in Nat
  BY DEF Shape
<1>2. CASE active = 0
  BY <1>1, <1>2 DEF Concluded, Shape
<1>3. CASE active # 0
  <2>1. active \in 1..Len(logs) /\ logs[active].result = "pending"
    BY <1>1, <1>3 DEF PendingIs
  <2>2. logs[active] \in Reflections
    BY <2>1 DEF Shape
  <2> DEFINE e == [logs[active] EXCEPT !.result = r]
  <2>3. e \in Reflections /\ e.result = r
    BY <2>2 DEF Reflections
  <2>4. Concluded(r) = [logs EXCEPT ![active] = e]
    BY <1>3 DEF Concluded
  <2> HIDE DEF e
  <2>5. /\ Concluded(r) \in Seq(Reflections)
        /\ Len(Concluded(r)) = Len(logs)
        /\ \A i \in 1..Len(logs) : Concluded(r)[i] = IF i = active THEN e ELSE logs[i]
    BY <2>1, <2>3, <2>4, ExceptSeq DEF Shape
  <2> QED BY <2>1, <2>3, <2>5
<1> QED BY <1>2, <1>3

(* The plan is over: the pending reflection gets its verdict.              *)
LEMMA FinalizeHolds ==
    ASSUME StoreInv, NEW r \in {"failed", "success"}, FinalizePending(r)
    PROVE  StoreInv'
<1> USE DEF StoreInv
<1>1. /\ logs' = Concluded(r) /\ active' = 0 /\ loaded' = loaded
      /\ disk' = logs' \/ (disk' = disk /\ known' = known)
  BY DEF FinalizePending, Persist
<1>2. r \in Results
  BY DEF Results
<1>3. /\ logs' \in Seq(Reflections) /\ Len(logs') = Len(logs)
      /\ \A i \in 1..Len(logs) :
           /\ i # active => logs'[i] = logs[i]
           /\ i = active => logs'[i].result = r /\ logs[i].result = "pending"
  BY <1>1, <1>2, ConcludedIs
<1>4. Len(logs) \in Nat /\ Len(disk) \in Nat
  BY DEF Shape
<1>5. Shape'
  BY <1>1, <1>3 DEF Shape
<1>6. PendingIs'
  BY <1>1, <1>3, <1>4 DEF Shape, PendingIs
<1>7. FileBehind'
  <2>1. CASE disk' = logs'
    BY <1>3, <1>4, <2>1 DEF FileBehind
  <2>2. CASE disk' = disk /\ known' = known
    BY <1>3, <1>4, <2>2 DEF FileBehind
  <2> QED BY <1>1, <2>1, <2>2
<1> QED BY <1>5, <1>6, <1>7

(* A failure: the verdict on the last reflection, and the next one opened. *)
LEMMA FailThenBeginHolds ==
    ASSUME StoreInv, chat \in Nat, FailThenBegin
    PROVE  StoreInv'
<1> USE DEF StoreInv
<1> DEFINE decided == Concluded("failed")
           entry == [chat |-> chat, result |-> "pending"]
<1>1. /\ logs' = Append(decided, entry) /\ active' = Len(logs') /\ loaded' = loaded
      /\ disk' \in {logs', decided} \/ (disk' = disk /\ known' = known)
  BY DEF FailThenBegin, Persist
<1>2. /\ decided \in Seq(Reflections) /\ Len(decided) = Len(logs)
      /\ \A i \in 1..Len(logs) :
           /\ i # active => decided[i] = logs[i]
           /\ i = active => decided[i].result = "failed" /\ logs[i].result = "pending"
  <2>1. "failed" \in Results
    BY DEF Results
  <2> QED BY <2>1, ConcludedIs
<1>3. entry \in Reflections /\ entry.result = "pending"
  BY DEF Reflections, Results
<1>4. Len(logs) \in Nat /\ Len(disk) \in Nat /\ loaded \in 0..Len(logs)
  BY DEF Shape
<1> HIDE DEF decided, entry
<1>5. /\ logs' \in Seq(Reflections) /\ Len(logs') = Len(logs) + 1
      /\ logs'[Len(logs) + 1] = entry
      /\ \A i \in 1..Len(logs) : logs'[i] = decided[i]
  BY <1>1, <1>2, <1>3
<1>6. Shape'
  <2>1. active' \in Nat /\ loaded' \in 0..Len(logs')
    BY <1>1, <1>4, <1>5
  <2>2. disk' \in Seq(Reflections)
    BY <1>1, <1>2, <1>5 DEF Shape
  <2> QED BY <1>5, <2>1, <2>2 DEF Shape
<1>7. PendingIs'
  <2>1. \A i \in (loaded + 1)..Len(logs) : logs'[i].result # "pending"
    BY <1>2, <1>4, <1>5 DEF PendingIs
  <2> QED BY <1>1, <1>3, <1>4, <1>5, <2>1 DEF PendingIs
<1>8. FileBehind'
  <2>1. CASE disk' = logs'
    BY <1>4, <1>5, <2>1 DEF FileBehind
  <2>2. CASE disk' = decided
    BY <1>2, <1>4, <1>5, <2>2 DEF FileBehind
  <2>3. CASE disk' = disk /\ known' = known
    BY <1>2, <1>4, <1>5, <2>3 DEF FileBehind
  <2> QED BY <1>1, <2>1, <2>2, <2>3
<1> QED BY <1>6, <1>7, <1>8

(* A restart knows what the file says, or nothing, and no reflection of    *)
(* its own.                                                                *)
LEMMA ReloadHolds ==
    ASSUME StoreInv, Reload PROVE StoreInv'
<1> USE DEF StoreInv
<1>1. /\ active' = 0 /\ loaded' = Len(logs') /\ disk' = disk
      /\ logs' = disk \/ (logs' = <<>> /\ (known' => disk = <<>>))
  BY DEF Reload
<1>2. logs' \in Seq(Reflections) /\ Len(logs') \in Nat
  <2>1. CASE logs' = disk
    BY <2>1 DEF Shape
  <2>2. CASE logs' = <<>>
    BY <2>2
  <2> QED BY <1>1, <2>1, <2>2
<1>3. Shape' /\ PendingIs'
  BY <1>1, <1>2 DEF Shape, PendingIs
<1>4. known' => logs' = disk'
  BY <1>1
<1>5. FileBehind'
  BY <1>2, <1>4 DEF FileBehind
<1> QED BY <1>3, <1>5

LEMMA StoreKept ==
    ASSUME StoreInv, UNCHANGED storeVars PROVE StoreInv'
BY DEF StoreInv, storeVars, Shape, PendingIs, FileBehind

(* A chat that is over keeps what it did, and nothing else.                *)
LEMMA LeaveHolds ==
    ASSUME ChatInv, NEW how, Leave(how), UNCHANGED chatVars, joined' = joined
    PROVE  ChatInv'
<1>1. pc' \notin Executing /\ outcomes' = {} /\ chat' = chat /\ kind' = kind
  BY DEF Leave, Forget, Executing, chatVars
<1> QED BY <1>1 DEF ChatInv, FailureKept, MessageIs, RelayNeverJoins

LEMMA InitHolds == Init => IInv
<1> SUFFICES ASSUME Init PROVE IInv
  OBVIOUS
<1>1. Shape /\ PendingIs /\ FileBehind
  BY DEF Init, Shape, PendingIs, FileBehind
<1>2. ChatInv
  BY DEF Init, ChatInv, FailureKept, MessageIs, RelayNeverJoins, Executing
<1> QED BY <1>1, <1>2 DEF IInv, StoreInv

(* Where a step sends the chat, it is still being executed.                *)
LEMMA Destinations ==
    /\ \A p \in Plans : Entry(p) \in Executing
    /\ \A o, n : AfterStep(o, n) \in Executing
BY DEF Entry, AfterStep, Executing

LEMMA StepHolds == IInv /\ [Next]_vars => IInv'
<1> SUFFICES ASSUME IInv, [Next]_vars PROVE IInv'
  OBVIOUS
<1> USE DEF IInv
<1>1. CASE Take
  <2>1. StoreInv'
    BY <1>1, StoreKept DEF Take
  <2>2. chat' \in Nat
    BY <1>1 DEF Take, ChatInv
  <2>3. pc' = "priming" /\ joined' = FALSE /\ UNCHANGED callVars
    BY <1>1 DEF Take
  <2>4. ChatInv'
    BY <2>2, <2>3 DEF ChatInv, FailureKept, MessageIs, RelayNeverJoins, Executing, callVars
  <2> QED BY <2>1, <2>4
<1>2. CASE RefuseCome \/ Ask \/ BarEmpty \/ HybridRaises \/ Abort
  <2>1. UNCHANGED storeVars /\ UNCHANGED chatVars /\ joined' = joined /\ \E how : Leave(how)
    BY <1>2 DEF RefuseCome, Ask, BarEmpty, HybridRaises, Abort
  <2> QED BY <2>1, StoreKept, LeaveHolds
<1>3. CASE Primed
  BY <1>3, StoreKept DEF Primed, ChatInv, FailureKept, MessageIs, RelayNeverJoins, Executing,
     chatVars, callVars
<1>4. CASE Planned
  <2>1. /\ pc' = "checking" /\ outcomes' = {} /\ UNCHANGED <<chatVars, storeVars, joined>>
    BY <1>4 DEF Planned, Call
  <2> QED BY <2>1, StoreKept DEF ChatInv, FailureKept, MessageIs, RelayNeverJoins, Executing, chatVars
<1>5. CASE Relay
  BY <1>5, StoreKept DEF Relay, ChatInv, FailureKept, MessageIs, RelayNeverJoins, chatVars, callVars
<1>6. ASSUME NEW r \in Routes, StepBegin(r) \/ FallThrough(r) PROVE IInv'
  <2>1. /\ pc \in Executing /\ pc' \in Executing /\ UNCHANGED <<chatVars, callVars, storeVars, message>>
        /\ joined' = (joined \/ (r \in {"join", "coords join"} /\ MayJoin))
    BY <1>6 DEF StepBegin, FallThrough, Executing
  <2>2. message = kind /\ message' = kind'
    BY <2>1 DEF ChatInv, MessageIs, chatVars
  <2>3. RelayNeverJoins'
    BY <2>1, <2>2 DEF ChatInv, RelayNeverJoins, MayJoin, chatVars
  <2> QED BY <2>1, <2>2, <2>3, StoreKept DEF ChatInv, FailureKept, MessageIs, chatVars, callVars
<1>7. ASSUME NEW o, StepEnd(o) PROVE IInv'
  <2>1. /\ pc \in Executing /\ pc' \in Executing /\ UNCHANGED <<chatVars, storeVars, message, joined>>
        /\ outcomes' = outcomes \union {o} /\ failure' = (failure \/ Fails(o))
    BY <1>7, Destinations DEF StepEnd, Executing
  <2>2. FailureKept'
    BY <2>1 DEF ChatInv, FailureKept, Fails
  <2> QED BY <2>1, <2>2, StoreKept DEF ChatInv, MessageIs, RelayNeverJoins, chatVars
<1>8. CASE Finish
  <2>1. \E r \in {"failed", "success"} : FinalizePending(r)
    BY <1>8 DEF Finish
  <2>2. StoreInv'
    BY <2>1, FinalizeHolds
  <2> QED BY <1>8, <2>2, LeaveHolds DEF Finish
<1>9. CASE HandleFailure
  <2>1. StoreInv'
    BY <1>9, FailThenBeginHolds DEF HandleFailure, ChatInv
  <2>2. ChatInv'
    <3>1. CASE DepthLeft
      <4>1. pc \in Executing /\ UNCHANGED <<chatVars, callVars, message, joined>>
        BY <1>9, <3>1 DEF HandleFailure, Executing
      <4> QED BY <4>1 DEF ChatInv, FailureKept, MessageIs, RelayNeverJoins, chatVars, callVars
    <3>2. CASE ~DepthLeft
      BY <1>9, <3>2, LeaveHolds DEF HandleFailure
    <3> QED BY <3>1, <3>2
  <2> QED BY <2>1, <2>2
<1>10. CASE Replanned
  <2>1. /\ pc \in Executing /\ outcomes' = {} /\ UNCHANGED <<chatVars, storeVars, message, joined>>
    BY <1>10 DEF Replanned, Call, Executing
  <2> QED BY <2>1, StoreKept DEF ChatInv, FailureKept, MessageIs, RelayNeverJoins, chatVars
<1>11. CASE Crash
  BY <1>11, ReloadHolds, LeaveHolds DEF Crash
<1>12. CASE UNCHANGED vars
  BY <1>12, StoreKept DEF vars, ChatInv, FailureKept, MessageIs, RelayNeverJoins, chatVars, callVars
<1>13. Plain \subseteq Routes
  BY DEF Routes
<1> QED BY <1>1, <1>2, <1>3, <1>4, <1>5, <1>6, <1>7, <1>8, <1>9, <1>10, <1>11, <1>12, <1>13
       DEF Next, Progress

THEOREM Invariance == Spec => []IInv
BY InitHolds, StepHolds, PTL DEF Spec

(* Restarts are counted, so that a step can be told from one.              *)
Counted == crashes \in Nat

LEMMA CrashesCounted == Spec => []Counted
<1>1. Init => Counted
  BY DEF Init, Counted
<1>2. Counted /\ [Next]_vars => Counted'
  <2> SUFFICES ASSUME Counted, [Next]_vars PROVE Counted'
    OBVIOUS
  <2>1. CASE Crash
    BY <2>1 DEF Crash, Counted
  <2>2. ASSUME ~Crash PROVE crashes' = crashes
    BY <2>2 DEF Next, Progress, Take, RefuseCome, Primed, Planned, Relay, Ask, BarEmpty, StepBegin,
       FallThrough, StepEnd, HybridRaises, Finish, HandleFailure, Replanned, Abort, vars
  <2> QED BY <2>1, <2>2 DEF Counted
<1> QED BY <1>1, <1>2, PTL DEF Spec

-----------------------------------------------------------------------------
(* At most one reflection of this process awaits its verdict, and it is    *)
(* the one Memory calls active (memory.py, recovery_coordinator.py 75).    *)
THEOREM OneVerdictAwaited == Spec => []OnePending
<1>1. IInv => OnePending
  BY PendingIsOnePending DEF IInv, StoreInv
<1> QED BY Invariance, <1>1, PTL

(* A chat that only passes on a call, or forbids it, moves nobody          *)
(* (move_handler.py 115), however often it is planned again.               *)
THEOREM RelayMovesNobody == Spec => []RelayNeverJoins
<1>1. IInv => RelayNeverJoins
  BY DEF IInv, ChatInv
<1> QED BY Invariance, <1>1, PTL

(* Which steps give a verdict at all: Finish gives its own, a failure      *)
(* "failed", and a restart only what the file knew already.                *)
LEMMA SuccessStep ==
    ASSUME IInv, Counted, [Next]_vars,
           NEW i \in DOMAIN logs \intersect DOMAIN logs',
           logs[i].result = "pending", logs'[i].result = "success",
           known \/ crashes' = crashes
    PROVE  outcomes \intersect Failing = {}
<1> USE DEF IInv, StoreInv
<1>1. i \in 1..Len(logs) /\ Len(logs) \in Nat /\ logs' # logs
  BY DEF Shape
<1>2. Finish \/ HandleFailure \/ Crash
  BY <1>1 DEF Next, Progress, Take, RefuseCome, Primed, Planned, Relay, Ask, BarEmpty, StepBegin,
     FallThrough, StepEnd, HybridRaises, Replanned, Abort, storeVars, vars
<1>3. CASE Finish
  <2>1. CASE failure
    <3>1. logs' = Concluded("failed") /\ "failed" \in Results
      BY <1>3, <2>1 DEF Finish, FinalizePending, Results
    <3> QED BY <1>1, <3>1, ConcludedIs
  <2>2. CASE ~failure
    BY <2>2 DEF ChatInv, FailureKept
  <2> QED BY <2>1, <2>2
<1>4. CASE HandleFailure
  <2>1. logs' = Append(Concluded("failed"), [chat |-> chat, result |-> "pending"])
    BY <1>4 DEF HandleFailure, FailThenBegin
  <2>2. "failed" \in Results
    BY DEF Results
  <2>3. /\ Concluded("failed") \in Seq(Reflections) /\ Len(Concluded("failed")) = Len(logs)
        /\ Concluded("failed")[i].result # "success"
    BY <1>1, <2>2, ConcludedIs
  <2>4. logs'[i] = Concluded("failed")[i]
    BY <1>1, <2>1, <2>3
  <2> QED BY <2>3, <2>4
<1>5. CASE Crash
  <2>1. known
    <3>1. crashes' = crashes + 1
      BY <1>5 DEF Crash
    <3> QED BY <3>1 DEF Counted
  <2>2. logs' = disk \/ logs' = <<>>
    BY <1>5 DEF Crash, Reload
  <2>3. logs' = disk /\ i \in 1..Len(disk)
    BY <2>2 DEF Shape
  <2> QED BY <2>1, <2>3 DEF FileBehind
<1> QED BY <1>2, <1>3, <1>4, <1>5

(* No reflection becomes a success at the end of a plan with a failed step *)
(* (plan_executor.py 201, 233), or by a restart.                           *)
THEOREM SuccessIsEarned == Spec => FailureNotSuccess
<1>1. IInv /\ Counted /\ [Next]_vars =>
        [\A i \in DOMAIN logs \intersect DOMAIN logs' :
           /\ logs[i].result = "pending" /\ logs'[i].result = "success"
           /\ known \/ crashes' = crashes
           => outcomes \intersect Failing = {}]_vars
  BY SuccessStep
<1> QED BY Invariance, CrashesCounted, <1>1, PTL DEF Spec, FailureNotSuccess

(* A step writes the whole list of reflections, a part of it or nothing,   *)
(* and only the undecided one can have changed in it.                      *)
LEMMA FileStep ==
    ASSUME IInv, [Next]_vars, known
    PROVE  /\ Len(disk) <= Len(disk')
           /\ \A i \in DOMAIN disk : disk[i].result # "pending" => disk'[i] = disk[i]
<1> USE DEF IInv, StoreInv
<1>1. /\ Len(disk) \in Nat /\ Len(logs) \in Nat /\ DOMAIN disk = 1..Len(disk)
  BY DEF Shape
<1>2. CASE disk' = disk
  BY <1>1, <1>2
<1>3. CASE disk' # disk
  <2>1. Finish \/ HandleFailure
    BY <1>3 DEF Next, Progress, Take, RefuseCome, Primed, Planned, Relay, Ask, BarEmpty, StepBegin,
       FallThrough, StepEnd, HybridRaises, Replanned, Abort, Crash, Reload, storeVars, vars
  <2>2. \E r \in Results : \/ disk' = Concluded(r)
                           \/ disk' = Append(Concluded(r), [chat |-> chat, result |-> "pending"])
    <3>1. CASE Finish
      BY <1>3, <3>1 DEF Finish, FinalizePending, Persist, Results
    <3>2. CASE HandleFailure
      BY <1>3, <3>2 DEF HandleFailure, FailThenBegin, Persist, Results
    <3> QED BY <2>1, <3>1, <3>2
  <2>3. PICK r \in Results : \/ disk' = Concluded(r)
                            \/ disk' = Append(Concluded(r), [chat |-> chat, result |-> "pending"])
    BY <2>2
  <2>4. /\ Concluded(r) \in Seq(Reflections) /\ Len(Concluded(r)) = Len(logs)
        /\ \A i \in 1..Len(logs) : logs[i].result # "pending" => Concluded(r)[i] = logs[i]
    BY ConcludedIs
  <2>5. /\ Len(logs) <= Len(disk')
        /\ \A i \in 1..Len(logs) : disk'[i] = Concluded(r)[i]
    BY <1>1, <2>3, <2>4
  <2> QED BY <1>1, <2>4, <2>5 DEF FileBehind
<1> QED BY <1>2, <1>3

(* What is on file stays: no crash, failed write or restart loses an entry *)
(* or changes a verdict (reflection_store.py 70), except that the first    *)
(* write after an unread file (reflection_store.py 46) replaces it.        *)
THEOREM FileKeepsHistory == Spec => HistoryKept
<1>1. IInv /\ [Next]_vars =>
        [known => /\ Len(disk) <= Len(disk')
                  /\ \A i \in DOMAIN disk :
                       disk[i].result # "pending" => disk'[i] = disk[i]]_vars
  BY FileStep
<1> QED BY Invariance, <1>1, PTL DEF Spec, HistoryKept

=============================================================================
