--------------------------- MODULE ForestryProofs ---------------------------
(***************************************************************************)
(* Forestry: what ForestryGuard promises on the server, for every number of*)
(* trees, logs, bots and changes and every reach of invalidateNear, and what*)
(* WoodCollection promises on the Node side, for every set of kinds of cargo*)
(* and every number of items, targets, jobs and requests.                  *)
(*                                                                         *)
(* The guard: LedgerNatural alone is not inductive, since the record is    *)
(* written a tick after the growth, from what the event saw.               *)
(* FreshSeesGrowth says of the tasks still to run that one whose version is*)
(* the current one sees nothing but grown logs and air, because every      *)
(* watched change counts the version up.                                   *)
(*                                                                         *)
(* The collection: that gathered cargo lies above the stock on disk is not *)
(* inductive either.  WoodInv also says at which steps memory and disk agree,*)
(* that an open job has the stock its start noted, that nothing is owed    *)
(* before the job is saved, and that what is still to be stored lies above *)
(* that stock, unless the bot died.  A dig is guarded because the last     *)
(* request was answered and no other waits.                                *)
(***************************************************************************)
EXTENDS WoodCollection, ForestryGuard, SequenceTheorems, TLAPS

(* ForestryGuard *)

GuardShape ==
  /\ block \in [Trees -> [Logs -> {"air", "grown", "placed"}]]
  /\ ledger \in [Trees -> SUBSET Logs]
  /\ version \in Nat
  /\ \A g \in pending : g.tree \in Trees /\ g.version \in Nat /\ g.version <= version

Unplaced(t) == \A i \in Logs : block[t][i] \in {"grown", "air"}
FreshSeesGrowth == \A g \in pending : g.version = version => Unplaced(g.tree)

GuardInv == GuardShape /\ LedgerNatural /\ FreshSeesGrowth

(* A step in which the version and the tasks stay, and each cell stays or  *)
(* turns into grown or air, keeps the invariant when the ledger does not   *)
(* grow.                                                                   *)
LEMMA QuietStep ==
  ASSUME GuardInv,
         block' \in [Trees -> [Logs -> {"air", "grown", "placed"}]],
         \A t \in Trees, i \in Logs : block'[t][i] = block[t][i] \/ block'[t][i] \in {"grown", "air"},
         ledger' \in [Trees -> SUBSET Logs],
         \A t \in Trees : ledger'[t] \subseteq ledger[t],
         version' = version,
         pending' \subseteq pending
  PROVE  GuardInv'
BY DEF GuardInv, GuardShape, LedgerNatural, FreshSeesGrowth, Unplaced

(* A watched change: the version counts up, the tree's record is dropped,  *)
(* and only cells of that tree turn into anything.                         *)
LEMMA WatchedStep ==
  ASSUME GuardInv, NEW t \in Trees, Changed(t),
         block' \in [Trees -> [Logs -> {"air", "grown", "placed"}]],
         \A u \in Trees : u # t => block'[u] = block[u]
  PROVE  GuardInv'
<1>1. version' = version + 1 /\ pending' = pending /\ version' \in Nat
  BY DEF Changed, GuardInv, GuardShape
<1>2. ledger' = [u \in Trees |-> IF u \in Near[t] THEN {} ELSE ledger[u]]
  BY DEF Changed, InvalidateNear
<1>3. \A g \in pending' : g.version # version' /\ g.version <= version'
  BY <1>1 DEF GuardInv, GuardShape
<1>4. GuardShape'
  BY <1>1, <1>2, <1>3 DEF GuardInv, GuardShape
<1>5. LedgerNatural'
  BY <1>2, ForestryAssumption DEF GuardInv, LedgerNatural, ForestryAssumption
<1>6. FreshSeesGrowth'
  BY <1>3 DEF FreshSeesGrowth
<1> QED BY <1>4, <1>5, <1>6 DEF GuardInv

(* Nothing is on record and no task waits at the start.                    *)
LEMMA GuardStarts == GuardInit => GuardInv
BY DEF GuardInit, GuardInv, GuardShape, LedgerNatural, FreshSeesGrowth

(* Every action keeps the invariant.                                       *)
LEMMA GuardStep == GuardInv /\ [GuardNext]_guardVars => GuardInv'
<1> SUFFICES ASSUME GuardInv, [GuardNext]_guardVars PROVE GuardInv'
  OBVIOUS
<1>1. ASSUME NEW t \in Trees, Grow(t) \/ GrowCancelled(t) PROVE GuardInv'
  <2>1. \A i \in Logs : block[t][i] = "air"
    BY <1>1 DEF Grow, GrowCancelled
  <2>2. block' \in [Trees -> [Logs -> {"air", "grown", "placed"}]]
    BY <1>1 DEF Grow, GrowCancelled, world, GuardInv, GuardShape
  <2>3. \A u \in Trees, i \in Logs : block'[u][i] = block[u][i] \/ block'[u][i] \in {"grown", "air"}
    BY <1>1 DEF Grow, GrowCancelled, world, GuardInv, GuardShape
  <2>4. \A i \in Logs : block'[t][i] \in {"grown", "air"}
    BY <1>1, <2>1 DEF Grow, GrowCancelled, world, GuardInv, GuardShape
  <2>5. /\ pending' = pending \cup {[tree |-> t, version |-> version]}
        /\ ledger' = ledger /\ version' = version
    BY <1>1 DEF Grow, GrowCancelled
  <2>6. GuardShape'
    BY <2>2, <2>5 DEF GuardInv, GuardShape
  <2>7. LedgerNatural'
    BY <2>3, <2>5 DEF GuardInv, GuardShape, LedgerNatural
  <2>8. FreshSeesGrowth'
    BY <2>3, <2>4, <2>5 DEF GuardInv, GuardShape, FreshSeesGrowth, Unplaced
  <2> QED BY <2>6, <2>7, <2>8 DEF GuardInv
<1>2. ASSUME NEW g \in pending, NextTick(g) PROVE GuardInv'
  <2>1. g.tree \in Trees /\ pending' \subseteq pending
    BY <1>2 DEF NextTick, GuardInv, GuardShape
  <2>2. UNCHANGED <<block, version>>
    BY <1>2 DEF NextTick, world
  <2>3. ledger' \in [Trees -> SUBSET Logs]
    BY <1>2, <2>1 DEF NextTick, GuardInv, GuardShape
  <2>4. GuardShape'
    BY <2>1, <2>2, <2>3 DEF GuardInv, GuardShape
  <2>5. LedgerNatural'
    <3>1. CASE Confirmed(g)
      <4>1. Unplaced(g.tree)
        BY <3>1 DEF Confirmed, GuardInv, FreshSeesGrowth
      <4>2. ledger' = [ledger EXCEPT ![g.tree] = Logs]
        BY <1>2, <3>1 DEF NextTick
      <4> QED BY <4>1, <4>2, <2>1, <2>2 DEF GuardInv, GuardShape, LedgerNatural, Unplaced
    <3>2. CASE ~Confirmed(g)
      BY <1>2, <3>2, <2>2 DEF NextTick, GuardInv, LedgerNatural
    <3> QED BY <3>1, <3>2
  <2>6. FreshSeesGrowth'
    BY <2>1, <2>2 DEF GuardInv, FreshSeesGrowth, Unplaced
  <2> QED BY <2>4, <2>5, <2>6 DEF GuardInv
<1>3. ASSUME NEW t \in Trees, Place(t) PROVE GuardInv'
  <2>1. Changed(t) BY <1>3 DEF Place
  <2>2. block' \in [Trees -> [Logs -> {"air", "grown", "placed"}]]
    BY <1>3 DEF Place, GuardInv, GuardShape
  <2>3. \A u \in Trees : u # t => block'[u] = block[u]
    BY <1>3 DEF Place, GuardInv, GuardShape
  <2> QED BY <2>1, <2>2, <2>3, WatchedStep
<1>4. ASSUME NEW t \in Trees, Piston(t) PROVE GuardInv'
  <2>1. Changed(t) BY <1>4 DEF Piston
  <2>2. block' \in [Trees -> [Logs -> {"air", "grown", "placed"}]]
    BY <1>4 DEF Piston, GuardInv, GuardShape
  <2>3. \A u \in Trees : u # t => block'[u] = block[u]
    BY <1>4 DEF Piston, GuardInv, GuardShape
  <2> QED BY <2>1, <2>2, <2>3, WatchedStep
<1>5. ASSUME NEW t \in Trees, Explode(t) PROVE GuardInv'
  <2>1. Changed(t) BY <1>5 DEF Explode
  <2>2. block' \in [Trees -> [Logs -> {"air", "grown", "placed"}]]
    BY <1>5 DEF Explode, GuardInv, GuardShape
  <2>3. \A u \in Trees : u # t => block'[u] = block[u]
    BY <1>5 DEF Explode, GuardInv, GuardShape
  <2> QED BY <2>1, <2>2, <2>3, WatchedStep
<1>6. ASSUME NEW t \in Trees, BreakUnguarded(t) PROVE GuardInv'
  <2>1. Changed(t) BY <1>6 DEF BreakUnguarded
  <2>2. block' \in [Trees -> [Logs -> {"air", "grown", "placed"}]]
    BY <1>6 DEF BreakUnguarded, GuardInv, GuardShape
  <2>3. \A u \in Trees : u # t => block'[u] = block[u]
    BY <1>6 DEF BreakUnguarded, GuardInv, GuardShape
  <2> QED BY <2>1, <2>2, <2>3, WatchedStep
<1>7. ASSUME NEW t \in Trees, NEW i \in Logs, Burn(t, i) PROVE GuardInv'
  <2>1. block' \in [Trees -> [Logs -> {"air", "grown", "placed"}]]
    BY <1>7 DEF Burn, GuardInv, GuardShape
  <2>2. \A u \in Trees, j \in Logs : block'[u][j] = block[u][j] \/ block'[u][j] \in {"grown", "air"}
    BY <1>7 DEF Burn, GuardInv, GuardShape
  <2>3. UNCHANGED <<ledger, pending, version>>
    BY <1>7 DEF Burn
  <2>4. ledger \in [Trees -> SUBSET Logs]
    BY DEF GuardInv, GuardShape
  <2> QED BY <2>1, <2>2, <2>3, <2>4, QuietStep
<1>8. ASSUME NEW b \in Bots, NEW t \in Trees, NEW i \in Logs, Break(b, t, i) PROVE GuardInv'
  <2>1. CASE UNCHANGED <<block, ledger, version>>
    BY <1>8, <2>1 DEF Break, GuardInv, GuardShape, LedgerNatural, FreshSeesGrowth, Unplaced
  <2>2. CASE /\ version' = version + 1
             /\ block' = [block EXCEPT ![t][i] = "air"]
             /\ ledger' = [ledger EXCEPT ![t] = @ \ {i}]
    <3>1. pending' = pending BY <1>8 DEF Break
    <3>2. GuardShape' BY <2>2, <3>1 DEF GuardInv, GuardShape
    <3>3. LedgerNatural' BY <2>2 DEF GuardInv, GuardShape, LedgerNatural
    <3>4. FreshSeesGrowth' BY <2>2, <3>1 DEF GuardInv, GuardShape, FreshSeesGrowth
    <3> QED BY <3>2, <3>3, <3>4 DEF GuardInv
  <2> QED BY <1>8, <2>1, <2>2 DEF Break
<1>9. ASSUME Restart PROVE GuardInv'
  BY <1>9 DEF Restart, world, GuardInv, GuardShape, LedgerNatural, FreshSeesGrowth
<1>10. ASSUME UNCHANGED <<block, ledger, pending, version>> PROVE GuardInv'
  BY <1>10 DEF GuardInv, GuardShape, LedgerNatural, FreshSeesGrowth, Unplaced
<1>11. ASSUME NEW b \in Bots, NEW t \in Trees, NEW i \in Logs, Grant(b, t, i) PROVE GuardInv'
  BY <1>10, <1>11 DEF Grant, world
<1>12. ASSUME NEW b \in Bots, Expire(b) \/ Release(b) PROVE GuardInv'
  BY <1>10, <1>12 DEF Expire, Release, world
<1>13. CASE UNCHANGED guardVars
  BY <1>10, <1>13 DEF guardVars, world
<1> QED BY <1>1, <1>2, <1>3, <1>4, <1>5, <1>6, <1>7, <1>8, <1>9, <1>11, <1>12, <1>13 DEF GuardNext

(* The invariant holds for ever.                                           *)
THEOREM GuardInvariance == GuardSpec => []GuardInv
BY GuardStarts, GuardStep, PTL DEF GuardSpec

(* Only logs that grew are ever on record: no interleaving of growth,      *)
(* change and the next tick lets a placed log in (ForestryGuard.java       *)
(* 36-56).                                                                 *)
THEOREM OnlyGrownOnRecord == GuardSpec => []LedgerNatural
<1>1. GuardInv => LedgerNatural BY DEF GuardInv
<1> QED BY GuardInvariance, <1>1, PTL

(* A step in which a guarded bot breaks a log is the step Break with a     *)
(* permit for it that held.                                                *)
LEMMA BreakNeedsPermit ==
  ASSUME GuardInv, GuardNext, NEW b \in guarded, NEW t \in Trees, NEW i \in Logs, Breaks(b, t, i)
  PROVE  block[t][i] = "grown" /\ ~beside[t]
<1>1. block' # block /\ permits' # permits
  BY DEF Breaks
<1>3. ~(UNCHANGED block) /\ ~(UNCHANGED permits)
  BY <1>1
<1>4. \E c \in Bots, u \in Trees, j \in Logs : Break(c, u, j)
  BY <1>3 DEF GuardNext, Grow, GrowCancelled, Place, Piston, Explode, BreakUnguarded, Changed,
              Burn, NextTick, Grant, Expire, Release, Restart, world
<1>5. PICK c \in Bots, u \in Trees, j \in Logs : Break(c, u, j)
  BY <1>4
<1>6. MayBreak(c, u, j) /\ block' = [block EXCEPT ![u][j] = "air"]
  BY <1>3, <1>5 DEF Break
<1>7. u = t /\ j = i
  BY <1>6 DEF Breaks, GuardInv, GuardShape
<1>8. i \in ledger[t] /\ ~beside[t]
  BY <1>6, <1>7 DEF MayBreak, Allowed
<1>9. block[t][i] \in {"grown", "air"}
  BY <1>8 DEF GuardInv, LedgerNatural
<1> QED BY <1>8, <1>9 DEF Breaks

(* A log that a guarded bot breaks grew by itself and has nothing built    *)
(* beside it (ForestryGuard.java 57-62).                                   *)
THEOREM OnlyNaturalFelled == GuardSpec => FellsNatural
<1>1. GuardInv /\ [GuardNext]_guardVars =>
        [\A b \in guarded, t \in Trees, i \in Logs :
           Breaks(b, t, i) => block[t][i] = "grown" /\ ~beside[t]]_guardVars
  BY BreakNeedsPermit
<1> QED BY GuardInvariance, <1>1, PTL DEF GuardSpec, FellsNatural

-----------------------------------------------------------------------------
(* WoodCollection *)

(* The types, without the bounds of the model.                             *)
Amounts == [Kinds -> Nat]
Entries == [registered : BOOLEAN, pending : BOOLEAN, baseline : Amounts, job : 0..Jobs]
Tasks == [at : Steps, collect : BOOLEAN, auto : BOOLEAN, targets : Int, wanted : Int,
          logs : Int, todo : Amounts, kind : Kinds]

WoodTyped ==
  /\ disk \in Entries /\ record \in Entries /\ prior \in Entries
  /\ task \in Tasks
  /\ requests \in Seq({"grant", "release"})
  /\ carried \in Amounts /\ owed \in Amounts /\ room \in Nat /\ drops \in Nat
  /\ startStock \in [1..Jobs -> Amounts]

(* What a step of run() says about the service.                            *)
OneTask ==
  /\ busy <=> task.at # "none"
  /\ task.at # "none" => status = "ready"
  /\ task.at \in {"previewing", "savingStart"} \cup Searching \cup Harvesting => task.collect
  /\ phase \in {"searching", "harvesting"} => task.at \in Searching \cup Harvesting
  /\ drops > 0 => task.collect /\ task.at \in Searching \cup Harvesting \cup Storing

(* An open job, in memory or on disk, has the stock that its start noted.  *)
JobNoted ==
  /\ \A entry \in {disk, record} :
       entry.pending => entry.job \in 1..Jobs /\ entry.baseline = startStock[entry.job]
  /\ ~prior.pending
  /\ task.at \in {"previewing", "savingBase"} => ~record.pending
  /\ task.at \in {"savingStart"} \cup Searching \cup Harvesting \cup (Storing \ {"savingEnd"})
       => record.pending

(* CargoOnRecord, and the memory agrees: a service that decides on it does *)
(* not forget cargo.                                                       *)
CargoNoted == \A k \in Kinds : owed[k] > 0 =>
  /\ disk.pending /\ disk.baseline[k] + owed[k] <= carried[k]
  /\ status = "ready" /\ task.at # "savingReset" => record.pending /\ record.baseline = disk.baseline

(* Before the job is on disk there is no cargo; after that, what is        *)
(* gathered lies above the stock, until the bot dies.                      *)
CargoAbove ==
  /\ task.at = "savingStart" =>
       /\ \A k \in Kinds : owed[k] = 0
       /\ interrupted \/ carried = record.baseline
  /\ task.collect /\ task.at \in Searching \cup Harvesting \cup {"returning"} /\ ~interrupted =>
       /\ disk.pending /\ record.pending /\ record.baseline = disk.baseline
       /\ \A k \in Kinds : disk.baseline[k] + owed[k] <= carried[k]

(* What is still to be stored lies above the stock, unless it is lost.     *)
TodoAbove ==
  task.at \in {"depositing", "moving", "savingDeposit"} =>
    \A k \in Kinds : task.todo[k] > 0 /\ carried[k] > 0 =>
       record.baseline[k] + task.todo[k] <= carried[k]

(* A permit that was given is the answer to the last request.              *)
Permitted ==
  /\ task.at = "digging" => requests = <<>>
  /\ task.at = "asking" /\ answer = "allowed" => requests = <<>> /\ (interrupted \/ watched)
  /\ DigGuarded

WoodInv == WoodTyped /\ OneTask /\ JobNoted /\ CargoNoted /\ CargoAbove /\ TodoAbove /\ Permitted

-----------------------------------------------------------------------------
(* What the pieces do to the task. *)

LEMMA Phases ==
  /\ Searching \cup Harvesting \cup Storing \subseteq Running /\ Running \subseteq Steps
  /\ {"none", "finishing", "savingBase", "savingReset"} \cap Running = {}
  /\ {"none", "finishing", "savingBase", "savingReset"} \subseteq Steps
BY DEF Searching, Harvesting, Storing, Running, Steps

LEMMA GoesTo ==
  ASSUME task \in Tasks, NEW step \in Steps, Goto(step)
  PROVE  /\ task' \in Tasks /\ task'.at = step /\ task'.collect = task.collect
         /\ task'.todo = task.todo /\ task'.kind = task.kind
BY DEF Goto, Tasks

LEMMA NoTaskIsTask ==
  NoTask \in Tasks /\ NoTask.at = "none" /\ ~NoTask.collect
<1>1. (CHOOSE k \in Kinds : TRUE) \in Kinds
  BY WoodAssumption DEF WoodAssumption
<1> QED BY <1>1 DEF NoTask, Tasks, Steps, Nothing, Amounts

LEMMA FinishEnds ==
  ASSUME WoodTyped, Finish
  PROVE  /\ task' \in Tasks /\ task'.at = "finishing" /\ ~task'.collect
         /\ requests' \in Seq({"grant", "release"}) /\ watched' = watched
         /\ answer' = "none" /\ drops' = 0
<1>1. task' \in Tasks /\ task'.at = "finishing" /\ ~task'.collect
  BY NoTaskIsTask, Phases DEF Finish, Tasks
<1>2. requests' = requests \/ requests' = Append(requests, "release")
  BY DEF Finish
<1>3. requests' \in Seq({"grant", "release"})
  BY <1>2, AppendProperties DEF WoodTyped
<1> QED BY <1>1, <1>3 DEF Finish

LEMMA FailEnds ==
  ASSUME WoodTyped, NEW recoverable, Fail(recoverable)
  PROVE  /\ task' \in Tasks /\ requests' \in Seq({"grant", "release"})
         /\ watched' = watched /\ answer' = "none"
         /\ \/ /\ AutoReturns(recoverable) /\ phase' = "returning"
               /\ task'.at = "returning" /\ task'.collect = task.collect
               /\ UNCHANGED <<requests, drops>>
            \/ /\ ~AutoReturns(recoverable) /\ phase' = "blocked"
               /\ task'.at = "finishing" /\ ~task'.collect /\ drops' = 0
<1>1. CASE AutoReturns(recoverable)
  <2>1. task' = [task EXCEPT !.at = "returning", !.auto = TRUE, !.logs = 0]
    BY <1>1 DEF Fail
  <2>2. task \in Tasks /\ "returning" \in Steps
    BY DEF WoodTyped, Steps, Running, Storing
  <2>3. task'.at = "returning" /\ task'.collect = task.collect
    BY <2>1, <2>2 DEF Tasks
  <2>4. task' \in Tasks
    <3>1. \A s \in Tasks : [s EXCEPT !.logs = 0] \in Tasks
      BY DEF Tasks
    <3>2. \A s \in Tasks : [s EXCEPT !.auto = TRUE] \in Tasks
      BY DEF Tasks
    <3>3. [task EXCEPT !.at = "returning"] \in Tasks
      BY <2>2 DEF Tasks
    <3>4. [[[task EXCEPT !.at = "returning"] EXCEPT !.logs = 0] EXCEPT !.auto = TRUE] \in Tasks
      BY <3>1, <3>2, <3>3
    <3>5. task' = [[[task EXCEPT !.at = "returning"] EXCEPT !.logs = 0] EXCEPT !.auto = TRUE]
      BY <2>1, <2>2 DEF Tasks
    <3> QED BY <3>4, <3>5
  <2> QED BY <1>1, <2>3, <2>4 DEF Fail, WoodTyped
<1>2. CASE ~AutoReturns(recoverable)
  <2>1. phase' = "blocked" /\ Finish
    BY <1>2 DEF Fail
  <2> QED BY <1>2, <2>1, FinishEnds
<1> QED BY <1>1, <1>2

(* A step of run() that goes on, and that moves no cargo and forgets no    *)
(* record.                                                                 *)
OnTheWay == Searching \cup Harvesting \cup (Storing \ {"savingEnd"})

LEMMA RunGoesOn ==
  ASSUME WoodInv,
         task.at \in {"savingStart"} \cup OnTheWay, task'.at \in OnTheWay,
         task' \in Tasks, task'.collect = task.collect,
         UNCHANGED <<record, status, busy, interrupted, prior, startStock, watched, carried, owed, room>>,
         disk' \in {disk, record}, task.at = "savingStart" => disk' = record,
         requests' \in Seq({"grant", "release"}), drops' \in Nat,
         phase' \in {"searching", "harvesting"} => task'.at \in Searching \cup Harvesting,
         drops' > 0 => drops > 0 \/ task.at = "digging",
         task'.at \in Searching \cup Harvesting =>
           task.at \in {"savingStart"} \cup Searching \cup Harvesting,
         task'.at = "returning" => task.at \in Searching \cup Harvesting \cup {"returning"},
         task'.at \in {"depositing", "moving", "savingDeposit"} =>
           \/ task.at \in {"depositing", "moving", "savingDeposit"} /\ task'.todo = task.todo
           \/ task'.todo = Delta,
         task'.at = "digging" => task.at = "asking" /\ answer = "allowed" /\ requests' = requests,
         task'.at = "asking" => answer' = "none"
  PROVE  WoodInv'
<1>1. WoodTyped'
  BY DEF WoodInv, WoodTyped
<1>2. OneTask'
  BY DEF WoodInv, OneTask, OnTheWay, Searching, Harvesting, Storing
<1>3. JobNoted'
  BY DEF WoodInv, JobNoted, OnTheWay, Searching, Harvesting, Storing
<1>4. status = "ready" /\ task.at # "savingReset"
  BY DEF WoodInv, OneTask, OnTheWay, Searching, Harvesting, Storing
<1>5. CargoNoted'
  BY <1>4 DEF WoodInv, CargoNoted
<1>6. CargoAbove'
  <2>1. CASE task.at = "savingStart"
    <3>1. record.pending /\ record \in Entries
      BY <2>1 DEF WoodInv, JobNoted, WoodTyped
    <3>2. \A k \in Kinds : owed[k] = 0
      BY <2>1 DEF WoodInv, CargoAbove
    <3>3. ~interrupted => carried = record.baseline
      BY <2>1 DEF WoodInv, CargoAbove
    <3>4. \A k \in Kinds : ~interrupted => record.baseline[k] + owed[k] <= carried[k]
      BY <3>1, <3>2, <3>3 DEF Entries, Amounts
    <3> QED BY <2>1, <3>1, <3>4 DEF CargoAbove, OnTheWay, Searching, Harvesting, Storing
  <2>2. CASE task.at # "savingStart"
    <3>1. task'.collect /\ task'.at \in Searching \cup Harvesting \cup {"returning"} /\ ~interrupted =>
            /\ disk.pending /\ record.pending /\ record.baseline = disk.baseline
            /\ \A k \in Kinds : disk.baseline[k] + owed[k] <= carried[k]
      BY <2>2 DEF WoodInv, CargoAbove
    <3> QED BY <3>1 DEF CargoAbove, OnTheWay, Searching, Harvesting, Storing
  <2> QED BY <2>1, <2>2
<1>7. TodoAbove'
  <2>1. \A k \in Kinds : Delta[k] > 0 => record.baseline[k] + Delta[k] <= carried[k]
    BY DEF WoodInv, WoodTyped, Entries, Amounts, Delta
  <2>2. CASE task'.todo = Delta
    BY <2>1, <2>2 DEF TodoAbove
  <2>3. CASE task.at \in {"depositing", "moving", "savingDeposit"} /\ task'.todo = task.todo
    BY <2>3 DEF WoodInv, TodoAbove
  <2> QED BY <2>2, <2>3 DEF TodoAbove
<1>8. Permitted'
  BY DEF WoodInv, Permitted, DigGuarded, At
<1> QED BY <1>1, <1>2, <1>3, <1>5, <1>6, <1>7, <1>8 DEF WoodInv

(* The end of run(): cargo may sink into the chest, what the job owes      *)
(* first.                                                                  *)
LEMMA RunEnds ==
  ASSUME WoodInv,
         task.at \in Running, task' \in Tasks, task'.at = "finishing",
         UNCHANGED <<record, status, busy, interrupted, prior, startStock>>,
         disk' \in {disk, record}, phase' \in {"idle", "blocked"},
         requests' \in Seq({"grant", "release"}), drops' = 0,
         carried' \in Amounts, owed' \in Amounts, room' \in Nat,
         \A k \in Kinds : owed'[k] > 0 => owed[k] > 0 /\ carried'[k] - owed'[k] >= carried[k] - owed[k]
  PROVE  WoodInv'
<1>1. WoodTyped'
  BY DEF WoodInv, WoodTyped
<1>2. OneTask'
  BY DEF WoodInv, OneTask, Running, Searching, Harvesting, Storing
<1>3. JobNoted'
  BY DEF WoodInv, JobNoted, Searching, Harvesting, Storing
<1>4. status = "ready" /\ task.at # "savingReset"
  BY DEF WoodInv, OneTask, Running, Searching, Harvesting, Storing
<1>5. CargoNoted'
  <2> SUFFICES ASSUME NEW k \in Kinds, owed'[k] > 0
               PROVE  /\ disk'.pending /\ disk'.baseline[k] + owed'[k] <= carried'[k]
                      /\ record'.pending /\ record'.baseline = disk'.baseline
    BY DEF CargoNoted
  <2>1. /\ disk.pending /\ disk.baseline[k] + owed[k] <= carried[k]
        /\ record.pending /\ record.baseline = disk.baseline
    BY <1>4 DEF WoodInv, CargoNoted
  <2>2. /\ disk.baseline[k] \in Nat /\ owed[k] \in Nat /\ carried[k] \in Nat
        /\ owed'[k] \in Nat /\ carried'[k] \in Nat
    BY DEF WoodInv, WoodTyped, Entries, Amounts
  <2>3. disk'.pending /\ record'.pending /\ record'.baseline = disk'.baseline
    BY <2>1
  <2>4. disk'.baseline[k] = disk.baseline[k]
    BY <2>1
  <2>5. disk'.baseline[k] + owed'[k] <= carried'[k]
    BY <2>1, <2>2, <2>4
  <2> QED BY <2>3, <2>5
<1>6. CargoAbove' /\ TodoAbove' /\ Permitted'
  BY DEF CargoAbove, TodoAbove, Permitted, DigGuarded, At, Searching, Harvesting
<1> QED BY <1>1, <1>2, <1>3, <1>5, <1>6 DEF WoodInv
-----------------------------------------------------------------------------
(* The steps of run() that go on. *)

LEMMA Stepped ==
  /\ {"searching", "walking", "savingTrail", "looking", "approaching", "savingTree", "felling",
      "asking", "digging", "gathering", "savingPickup", "returning", "opening", "depositing",
      "moving", "savingDeposit", "savingEnd", "previewing", "savingStart"} \subseteq Steps
  /\ \A s \in Tasks, step \in Steps : [s EXCEPT !.at = step] \in Tasks
  /\ \A s \in Tasks, n \in Int : [s EXCEPT !.logs = n] \in Tasks
  /\ \A s \in Tasks, n \in Int : [s EXCEPT !.wanted = n] \in Tasks
  /\ \A s \in Tasks, n \in Int : [s EXCEPT !.targets = n] \in Tasks
  /\ \A s \in Tasks, todo \in Amounts : [s EXCEPT !.todo = todo] \in Tasks
  /\ \A s \in Tasks, k \in Kinds : [s EXCEPT !.kind = k] \in Tasks
<1>1. /\ \A s \in Tasks, step \in Steps : [s EXCEPT !.at = step] \in Tasks
      /\ \A s \in Tasks, n \in Int : [s EXCEPT !.logs = n] \in Tasks
      /\ \A s \in Tasks, n \in Int : [s EXCEPT !.wanted = n] \in Tasks
      /\ \A s \in Tasks, n \in Int : [s EXCEPT !.targets = n] \in Tasks
      /\ \A s \in Tasks, todo \in Amounts : [s EXCEPT !.todo = todo] \in Tasks
      /\ \A s \in Tasks, k \in Kinds : [s EXCEPT !.kind = k] \in Tasks
  BY DEF Tasks
<1> QED BY <1>1 DEF Steps, Running, Searching, Harvesting, Storing

LEMMA OnwardTo ==
  ASSUME WoodInv, NEW step \in {"searching", "walking", "savingTrail", "looking", "approaching",
           "savingTree", "felling", "asking", "digging", "gathering", "savingPickup", "returning",
           "opening", "depositing", "moving", "savingDeposit", "savingEnd"}, Goto(step)
  PROVE  /\ task' \in Tasks /\ task'.at = step /\ task'.collect = task.collect
         /\ task'.todo = task.todo /\ task'.kind = task.kind
BY Stepped, GoesTo DEF WoodInv, WoodTyped

LEMMA SaveStep ==
  ASSUME WoodInv, Save
  PROVE  WoodInv'
<1>1. PICK from \in {"savingStart", "savingTrail", "savingTree", "savingPickup", "savingDeposit"},
           step \in {"searching", "looking", "felling", "depositing"} :
        /\ At(from) /\ Goto(step) /\ disk' = record
        /\ step \in {"searching", "felling"} => from \in {"savingStart", "savingTree"}
        /\ step = "looking" => from \in {"savingTrail", "savingPickup"}
        /\ step = "depositing" <=> from = "savingDeposit"
        /\ phase' # phase => step = "felling"
  BY DEF Save, Saved
<1>2. task' \in Tasks /\ task'.at = step /\ task'.collect = task.collect /\ task'.todo = task.todo
  BY <1>1, OnwardTo
<1>3. requests' \in Seq({"grant", "release"}) /\ drops' \in Nat
  BY DEF Save, server, cargo, WoodInv, WoodTyped
<1>4. UNCHANGED <<record, status, busy, interrupted, prior, startStock, watched, carried, owed, room,
                  requests, answer, drops>>
  BY DEF Save, server, cargo
<1>5. phase' \in {"searching", "harvesting"} => task'.at \in Searching \cup Harvesting
  <2>1. CASE phase' = phase
    BY <2>1, <1>1, <1>2 DEF WoodInv, OneTask, At, Searching, Harvesting
  <2>2. CASE step = "felling"
    BY <2>2, <1>2 DEF Harvesting
  <2> QED BY <1>1, <2>1, <2>2
<1>6. task.at = from
  BY <1>1 DEF At
<1> QED
  BY <1>1, <1>2, <1>3, <1>4, <1>5, <1>6, RunGoesOn DEF OnTheWay, Searching, Harvesting, Storing

LEMMA SearchStep ==
  ASSUME WoodInv, Search
  PROVE  WoodInv'
<1>1. task \in Tasks
  BY DEF WoodInv, WoodTyped
<1>2. /\ task' \in Tasks /\ task'.collect = task.collect
      /\ \/ task.at = "searching" /\ task'.at = "walking" /\ phase' = "searching"
         \/ task.at = "searching" /\ task'.at = "returning" /\ phase' = "returning"
         \/ /\ task.at \in {"walking", "looking", "approaching"} /\ phase' = phase
            /\ task'.at \in {"savingTrail", "searching", "approaching", "savingTree"}
  <2>1. CASE task' = [task EXCEPT !.at = "walking", !.targets = @ - 1]
             /\ At("searching") /\ phase' = "searching"
    <3>1. task' = [[task EXCEPT !.at = "walking"] EXCEPT !.targets = task.targets - 1]
      BY <1>1, <2>1 DEF Tasks
    <3>2. task.targets - 1 \in Int
      BY <1>1 DEF Tasks
    <3>3. task' \in Tasks
      BY <1>1, <3>1, <3>2, Stepped
    <3> QED BY <1>1, <2>1, <3>3 DEF Tasks, At
  <2>2. CASE At("searching") /\ phase' = "returning" /\ Goto("returning")
    BY <2>2, OnwardTo DEF At
  <2>3. CASE At("walking") /\ UNCHANGED phase
             /\ \E step \in {"savingTrail", "searching"} : Goto(step)
    BY <2>3, OnwardTo DEF At
  <2>4. CASE At("looking") /\ UNCHANGED phase /\ Goto("searching")
    BY <2>4, OnwardTo DEF At
  <2>5. ASSUME At("looking"), UNCHANGED phase, NEW n \in 1..task.wanted,
               task' = [task EXCEPT !.at = "approaching", !.logs = n, !.wanted = @ - n]
        PROVE  /\ task' \in Tasks /\ task'.collect = task.collect
               /\ task.at = "looking" /\ phase' = phase /\ task'.at = "approaching"
    <3>1. task' = [[[task EXCEPT !.at = "approaching"] EXCEPT !.logs = n] EXCEPT !.wanted = task.wanted - n]
      BY <1>1, <2>5 DEF Tasks
    <3>2. n \in Int /\ task.wanted - n \in Int
      BY <1>1, <2>5 DEF Tasks
    <3>3. task' \in Tasks
      BY <1>1, <3>1, <3>2, Stepped
    <3> QED BY <1>1, <2>5, <3>3 DEF Tasks, At
  <2>6. CASE At("approaching") /\ UNCHANGED phase /\ Goto("savingTree")
    BY <2>6, OnwardTo DEF At
  <2> QED BY <2>1, <2>2, <2>3, <2>4, <2>5, <2>6 DEF Search
<1>3. requests' \in Seq({"grant", "release"}) /\ drops' \in Nat
  BY DEF Search, server, cargo, WoodInv, WoodTyped
<1>4. UNCHANGED <<disk, record, status, busy, interrupted, prior, startStock, watched, carried, owed,
                  room, requests, answer, drops>>
  BY DEF Search, server, cargo
<1>5. phase' \in {"searching", "harvesting"} => task'.at \in Searching \cup Harvesting
  BY <1>2 DEF Searching
<1> QED
  BY <1>2, <1>3, <1>4, <1>5, RunGoesOn DEF OnTheWay, Searching, Harvesting, Storing
LEMMA HarvestSteps ==
  ASSUME WoodInv, AskPermit \/ DigBegins \/ DigEnds \/ Gather
  PROVE  WoodInv'
<1>1. task \in Tasks /\ requests \in Seq({"grant", "release"}) /\ drops \in Nat
  BY DEF WoodInv, WoodTyped
<1>2. CASE AskPermit
  <2>1. task.at = "felling" /\ task' \in Tasks /\ task'.at = "asking" /\ task'.collect = task.collect
    BY <1>2, OnwardTo DEF AskPermit, At
  <2>2. requests' \in Seq({"grant", "release"})
    BY <1>1, <1>2, AppendProperties DEF AskPermit
  <2>3. UNCHANGED <<disk, record, status, busy, phase, interrupted, prior, startStock, watched, carried,
                    owed, room, drops>> /\ answer' = "none"
    BY <1>2 DEF AskPermit, service, cargo
  <2>4. phase' \in {"searching", "harvesting"} => task'.at \in Searching \cup Harvesting
    BY <2>1 DEF Harvesting
  <2> QED
    BY <1>1, <2>1, <2>2, <2>3, <2>4, RunGoesOn DEF OnTheWay, Searching, Harvesting, Storing
<1>3. CASE DigBegins
  <2>1. task.at = "asking" /\ task' \in Tasks /\ task'.at = "digging" /\ task'.collect = task.collect
    BY <1>3, OnwardTo DEF DigBegins, At
  <2>2. UNCHANGED <<disk, record, status, busy, phase, interrupted, prior, startStock, watched, carried,
                    owed, room, drops, requests>> /\ answer = "allowed"
    BY <1>3 DEF DigBegins, service, cargo
  <2>3. phase' \in {"searching", "harvesting"} => task'.at \in Searching \cup Harvesting
    BY <2>1 DEF Harvesting
  <2> QED
    BY <1>1, <2>1, <2>2, <2>3, RunGoesOn DEF OnTheWay, Searching, Harvesting, Storing
<1>4. CASE DigEnds
  <2>1. task' = [[task EXCEPT !.at = "felling"] EXCEPT !.logs = task.logs - 1]
    BY <1>1, <1>4 DEF DigEnds, Tasks
  <2>2. task.logs - 1 \in Int
    BY <1>1 DEF Tasks
  <2>3. task' \in Tasks
    BY <1>1, <2>1, <2>2, Stepped
  <2>4. task.at = "digging" /\ task'.at = "felling" /\ task'.collect = task.collect
    BY <1>1, <1>4, <2>1 DEF Tasks, DigEnds, At
  <2>5. UNCHANGED <<disk, record, status, busy, phase, interrupted, prior, startStock, watched, carried,
                    owed, room, requests>>
    BY <1>4 DEF DigEnds, service, server
  <2>6. drops' \in Nat
    BY <1>1, <1>4, WoodAssumption DEF DigEnds, WoodAssumption
  <2>7. phase' \in {"searching", "harvesting"} => task'.at \in Searching \cup Harvesting
    BY <2>4 DEF Harvesting
  <2> QED
    BY <1>1, <2>3, <2>4, <2>5, <2>6, <2>7, RunGoesOn DEF OnTheWay, Searching, Harvesting, Storing
<1>5. CASE Gather
  <2>1. /\ task.at \in {"felling", "gathering"} /\ task'.at \in {"gathering", "savingPickup"}
        /\ task' \in Tasks /\ task'.collect = task.collect
    BY <1>5, OnwardTo DEF Gather, At
  <2>2. UNCHANGED <<disk, record, status, busy, phase, interrupted, prior, startStock, watched, carried,
                    owed, room, drops, requests>>
    BY <1>5 DEF Gather, service, server, cargo
  <2>3. phase' \in {"searching", "harvesting"} => task'.at \in Searching \cup Harvesting
    BY <2>1 DEF Harvesting
  <2> QED
    BY <1>1, <2>1, <2>2, <2>3, RunGoesOn DEF OnTheWay, Searching, Harvesting, Storing
<1> QED BY <1>2, <1>3, <1>4, <1>5

LEMMA StoreSteps ==
  ASSUME WoodInv, ArriveHome \/ ChestOpens \/ DepositBegins
  PROVE  WoodInv'
<1>1. task \in Tasks /\ requests \in Seq({"grant", "release"}) /\ drops \in Nat
  BY DEF WoodInv, WoodTyped
<1>2. CASE ArriveHome
  <2>1. task.at = "returning" /\ task' \in Tasks /\ task'.at = "opening" /\ task'.collect = task.collect
    BY <1>2, OnwardTo DEF ArriveHome, At
  <2>2. UNCHANGED <<disk, record, status, busy, interrupted, prior, startStock, watched, carried,
                    owed, room, drops, requests>> /\ phase' = "depositing"
    BY <1>2 DEF ArriveHome, server, cargo
  <2> QED
    BY <1>1, <2>1, <2>2, RunGoesOn DEF OnTheWay, Searching, Harvesting, Storing
<1>3. CASE ChestOpens \/ DepositBegins
  <2>1. UNCHANGED <<disk, record, status, busy, phase, interrupted, prior, startStock, watched, carried,
                    owed, room, drops, requests>>
    BY <1>3 DEF ChestOpens, DepositBegins, service, server, cargo
  <2>2. task.at \in {"opening", "depositing"}
    BY <1>3 DEF ChestOpens, DepositBegins, At
  <2>3. phase' \notin {"searching", "harvesting"}
    BY <2>1, <2>2 DEF WoodInv, OneTask, Searching, Harvesting
  <2>4. /\ task' \in Tasks /\ task'.collect = task.collect
        /\ task'.at \in {"depositing", "moving"}
        /\ task'.todo = Delta \/ (task.at = "depositing" /\ task'.todo = task.todo)
    <3>1. CASE ChestOpens
      <4>1. Delta \in Amounts
        BY DEF Delta, WoodInv, WoodTyped, Entries, Amounts
      <4>2. task' = [[task EXCEPT !.at = "depositing"] EXCEPT !.todo = Delta]
        BY <1>1, <3>1 DEF ChestOpens, Tasks
      <4>3. task' \in Tasks
        BY <1>1, <4>1, <4>2, Stepped
      <4> QED BY <1>1, <4>2, <4>3 DEF Tasks
    <3>2. CASE DepositBegins
      <4>1. PICK k \in Kinds : task' = [task EXCEPT !.at = "moving", !.kind = k]
        BY <3>2 DEF DepositBegins
      <4>2. task' = [[task EXCEPT !.at = "moving"] EXCEPT !.kind = k]
        BY <1>1, <4>1 DEF Tasks
      <4>3. task' \in Tasks
        BY <1>1, <4>2, Stepped
      <4> QED BY <1>1, <2>2, <3>2, <4>2, <4>3 DEF Tasks, DepositBegins, At
    <3> QED BY <1>3, <3>1, <3>2
  <2> QED
    BY <1>1, <2>1, <2>2, <2>3, <2>4, RunGoesOn DEF OnTheWay, Searching, Harvesting, Storing
<1> QED BY <1>2, <1>3

-----------------------------------------------------------------------------
(* Deposits, failures and the end of run(). *)

(* A deposit of n items sinks the cargo, what the job owes first.          *)
LEMMA MovesSink ==
  ASSUME WoodInv, NEW n \in Nat, Moves(n)
  PROVE  /\ carried' \in Amounts /\ owed' \in Amounts /\ room' \in Nat
         /\ \A k \in Kinds : k # task.kind => carried'[k] = carried[k] /\ owed'[k] = owed[k]
         /\ carried'[task.kind] = carried[task.kind] - n
         /\ \A k \in Kinds : owed'[k] > 0 =>
              owed[k] > 0 /\ carried'[k] - owed'[k] >= carried[k] - owed[k]
<1> DEFINE kind == task.kind
<1>1. kind \in Kinds /\ carried \in Amounts /\ owed \in Amounts /\ room \in Nat
  BY DEF WoodInv, WoodTyped, Tasks
<1>2. /\ n <= room /\ n <= carried[kind] /\ room' = room - n
      /\ carried' = [carried EXCEPT ![kind] = carried[kind] - n]
      /\ owed' = [owed EXCEPT ![kind] = owed[kind] - Min2(n, owed[kind])]
  BY DEF Moves
<1> HIDE DEF kind
<1>3. /\ carried[kind] - n \in Nat /\ room' \in Nat
      /\ owed[kind] - Min2(n, owed[kind]) \in Nat
      /\ owed[kind] - Min2(n, owed[kind]) > 0 =>
           owed[kind] > 0 /\ owed[kind] - Min2(n, owed[kind]) = owed[kind] - n
  BY <1>1, <1>2 DEF Amounts, Min2
<1>4. carried' \in Amounts /\ owed' \in Amounts
  BY <1>1, <1>2, <1>3 DEF Amounts
<1>5. /\ \A k \in Kinds : k # kind => carried'[k] = carried[k] /\ owed'[k] = owed[k]
      /\ carried'[kind] = carried[kind] - n
      /\ owed'[kind] = owed[kind] - Min2(n, owed[kind])
  BY <1>1, <1>2 DEF Amounts
<1>6. \A k \in Kinds : owed'[k] > 0 =>
              owed[k] > 0 /\ carried'[k] - owed'[k] >= carried[k] - owed[k]
  BY <1>1, <1>3, <1>5 DEF Amounts
<1> QED BY <1>3, <1>4, <1>5, <1>6 DEF kind
LEMMA DepositSteps ==
  ASSUME WoodInv, DepositEnds \/ DepositFails
  PROVE  WoodInv'
<1>1. task.at = "moving" /\ task \in Tasks /\ requests \in Seq({"grant", "release"}) /\ task.kind \in Kinds
  BY DEF DepositEnds, DepositFails, At, WoodInv, WoodTyped, Tasks
<1>2. UNCHANGED <<disk, record, status, busy, stopped, interrupted, prior, online, startStock>>
  BY DEF DepositEnds, DepositFails, service
<1>3. CASE DepositFails
  <2>1. PICK n \in 0..task.todo[task.kind] : Moves(n)
    BY <1>3 DEF DepositFails
  <2>2. n \in Nat
    BY <1>1 DEF Tasks, Amounts
  <2>3. Fail(FALSE) /\ ~AutoReturns(FALSE)
    BY <1>3 DEF DepositFails, AutoReturns
  <2>4. /\ task' \in Tasks /\ requests' \in Seq({"grant", "release"})
        /\ phase' = "blocked" /\ task'.at = "finishing" /\ drops' = 0
    BY <2>3, FailEnds DEF WoodInv
  <2>5. /\ carried' \in Amounts /\ owed' \in Amounts /\ room' \in Nat
        /\ \A k \in Kinds : owed'[k] > 0 =>
             owed[k] > 0 /\ carried'[k] - owed'[k] >= carried[k] - owed[k]
    BY <2>1, <2>2, MovesSink
  <2>6. task.at \in Running
    BY <1>1 DEF Running, Storing
  <2> QED BY <1>2, <2>4, <2>5, <2>6, RunEnds
<1>4. CASE DepositEnds
  <2> DEFINE kind == task.kind
  <2>1. /\ task.todo \in Amounts /\ task.todo[kind] \in Nat
    BY <1>1 DEF Tasks, Amounts
  <2>2. /\ carried' \in Amounts /\ owed' \in Amounts /\ room' \in Nat
        /\ \A k \in Kinds : k # kind => carried'[k] = carried[k] /\ owed'[k] = owed[k]
        /\ \A k \in Kinds : owed'[k] > 0 =>
             owed[k] > 0 /\ carried'[k] - owed'[k] >= carried[k] - owed[k]
    BY <1>4, <2>1, MovesSink DEF DepositEnds
  <2>3. task' = [[task EXCEPT !.at = "savingDeposit"] EXCEPT !.todo = [task.todo EXCEPT ![kind] = 0]]
    BY <1>1, <1>4 DEF DepositEnds, Tasks
  <2>4. [task.todo EXCEPT ![kind] = 0] \in Amounts
    BY <2>1 DEF Amounts
  <2>5. task' \in Tasks
    BY <1>1, <2>3, <2>4, Stepped
  <2>6. /\ task'.at = "savingDeposit" /\ task'.collect = task.collect
        /\ task'.todo = [task.todo EXCEPT ![kind] = 0]
    BY <1>1, <2>3 DEF Tasks
  <2>7. UNCHANGED <<phase, watched, requests, answer, drops>>
    BY <1>4 DEF DepositEnds, service, server
  <2>8. WoodTyped'
    BY <1>2, <2>2, <2>5, <2>7 DEF WoodInv, WoodTyped
  <2>9. OneTask'
    BY <1>1, <1>2, <2>6, <2>7 DEF WoodInv, OneTask, Searching, Harvesting, Storing
  <2>10. JobNoted'
    BY <1>1, <1>2, <2>6 DEF WoodInv, JobNoted, Searching, Harvesting, Storing
  <2>11. CargoNoted'
    <3> SUFFICES ASSUME NEW k \in Kinds, owed'[k] > 0
                 PROVE  /\ disk.pending /\ disk.baseline[k] + owed'[k] <= carried'[k]
                        /\ record.pending /\ record.baseline = disk.baseline
      BY <1>2 DEF CargoNoted
    <3>1. /\ disk.pending /\ disk.baseline[k] + owed[k] <= carried[k]
          /\ record.pending /\ record.baseline = disk.baseline
      BY <1>1, <2>2 DEF WoodInv, CargoNoted, OneTask
    <3>2. /\ disk.baseline[k] \in Nat /\ owed[k] \in Nat /\ carried[k] \in Nat
          /\ owed'[k] \in Nat /\ carried'[k] \in Nat
      BY <2>2 DEF WoodInv, WoodTyped, Entries, Amounts
    <3> QED BY <2>2, <3>1, <3>2
  <2>12. CargoAbove'
    BY <2>6 DEF CargoAbove, Searching, Harvesting
  <2>13. TodoAbove'
    <3> SUFFICES ASSUME NEW k \in Kinds, task'.todo[k] > 0, carried'[k] > 0
                 PROVE  record.baseline[k] + task'.todo[k] <= carried'[k]
      BY <1>2 DEF TodoAbove
    <3>1. k # kind /\ task'.todo[k] = task.todo[k]
      BY <2>1, <2>6 DEF Amounts
    <3> QED BY <1>1, <2>2, <3>1 DEF WoodInv, TodoAbove
  <2>14. Permitted'
    BY <2>6 DEF Permitted, DigGuarded, At
  <2> QED BY <2>8, <2>9, <2>10, <2>11, <2>12, <2>13, <2>14 DEF WoodInv
<1> QED BY <1>3, <1>4

LEMMA SaveEndStep ==
  ASSUME WoodInv, SaveEnd
  PROVE  WoodInv'
<1>1. task.at = "savingEnd" /\ task.at \in Running
  BY DEF SaveEnd, At, Running, Storing
<1>2. Finish /\ phase' = "idle" /\ disk' = record
  BY DEF SaveEnd
<1>3. task' \in Tasks /\ task'.at = "finishing" /\ requests' \in Seq({"grant", "release"}) /\ drops' = 0
  BY <1>2, FinishEnds DEF WoodInv
<1>4. UNCHANGED <<record, status, busy, interrupted, prior, startStock, carried, room, owed>>
  BY DEF SaveEnd
<1>5. carried' \in Amounts /\ owed' \in Amounts /\ room' \in Nat
  BY <1>4 DEF WoodInv, WoodTyped
<1>6. \A k \in Kinds : owed'[k] > 0 => owed[k] > 0 /\ carried'[k] - owed'[k] >= carried[k] - owed[k]
  BY <1>4 DEF WoodInv, WoodTyped, Amounts
<1> QED BY <1>1, <1>2, <1>3, <1>4, <1>5, <1>6, RunEnds

LEMMA FailureStep ==
  ASSUME WoodInv, StepFails
  PROVE  WoodInv'
<1>1. PICK recoverable \in BOOLEAN :
        Fail(recoverable /\ task.at \notin {"savingTrail", "savingTree", "savingPickup"})
  BY DEF StepFails
<1> DEFINE excused == recoverable /\ task.at \notin {"savingTrail", "savingTree", "savingPickup"}
<1>2. task.at \in Running
  BY DEF StepFails
<1>3. UNCHANGED <<disk, record, status, busy, stopped, interrupted, prior, online, carried, room, owed,
                  startStock>>
  BY DEF StepFails
<1>4. /\ task' \in Tasks /\ requests' \in Seq({"grant", "release"})
      /\ watched' = watched /\ answer' = "none"
      /\ \/ /\ AutoReturns(excused) /\ phase' = "returning"
            /\ task'.at = "returning" /\ task'.collect = task.collect
            /\ UNCHANGED <<requests, drops>>
         \/ /\ phase' = "blocked" /\ task'.at = "finishing" /\ drops' = 0
  BY <1>1, FailEnds DEF WoodInv
<1> HIDE DEF excused
<1>5. CASE AutoReturns(excused) /\ phase' = "returning" /\ task'.at = "returning"
           /\ task'.collect = task.collect /\ UNCHANGED <<requests, drops>>
  <2>1. task.at \in Searching \cup Harvesting
    BY <1>5 DEF AutoReturns, WoodInv, OneTask
  <2>2. task.at \in OnTheWay /\ task'.at \in OnTheWay /\ task.at # "savingStart"
    BY <1>5, <2>1 DEF OnTheWay, Searching, Harvesting, Storing
  <2>3. drops' \in Nat
    BY <1>5 DEF WoodInv, WoodTyped
  <2>4. task'.at \notin Searching \cup Harvesting
    BY <1>5 DEF Searching, Harvesting
  <2> QED BY <1>3, <1>4, <1>5, <2>1, <2>2, <2>3, <2>4, RunGoesOn
<1>6. CASE phase' = "blocked" /\ task'.at = "finishing" /\ drops' = 0
  <2>1. carried' \in Amounts /\ owed' \in Amounts /\ room' \in Nat
    BY <1>3 DEF WoodInv, WoodTyped
  <2>2. \A k \in Kinds : owed'[k] > 0 => owed[k] > 0 /\ carried'[k] - owed'[k] >= carried[k] - owed[k]
    BY <1>3 DEF WoodInv, WoodTyped, Amounts
  <2> QED BY <1>2, <1>3, <1>4, <1>6, <2>1, <2>2, RunEnds
<1> QED BY <1>4, <1>5, <1>6

LEMMA AllStoredStep ==
  ASSUME WoodInv, AllStored
  PROVE  WoodInv'
<1>1. task.at = "depositing" /\ status = "ready"
  BY DEF AllStored, At, WoodInv, OneTask
<1>2. task' \in Tasks /\ task'.at = "savingEnd" /\ task'.collect = task.collect
  BY OnwardTo DEF AllStored
<1>3. UNCHANGED <<disk, status, busy, phase, interrupted, prior, startStock, watched, requests, answer,
                  carried, room, drops, owed>>
  BY DEF AllStored, service, server, cargo
<1>4. record' = [record EXCEPT !.pending = FALSE]
  BY DEF AllStored
<1>5. record' \in Entries /\ ~record'.pending
  BY <1>4 DEF WoodInv, WoodTyped, Entries
<1>6. \A k \in Kinds : owed[k] = 0
  <2> SUFFICES ASSUME NEW k \in Kinds, owed[k] # 0
               PROVE  FALSE
    OBVIOUS
  <2>1. /\ record.baseline[k] \in Nat /\ owed[k] \in Nat /\ carried[k] \in Nat
    BY DEF WoodInv, WoodTyped, Entries, Amounts
  <2>2. record.baseline[k] + owed[k] <= carried[k]
    BY <1>1, <2>1 DEF WoodInv, CargoNoted
  <2>3. Delta[k] = 0
    BY DEF AllStored, Nothing
  <2>4. carried[k] <= record.baseline[k]
    BY <2>1, <2>3 DEF Delta
  <2> QED BY <2>1, <2>2, <2>4
<1>7. WoodTyped'
  BY <1>2, <1>3, <1>5 DEF WoodInv, WoodTyped
<1>8. OneTask'
  BY <1>1, <1>2, <1>3 DEF WoodInv, OneTask, Searching, Harvesting, Storing
<1>9. JobNoted'
  BY <1>2, <1>3, <1>5 DEF WoodInv, JobNoted, Searching, Harvesting, Storing
<1>10. CargoNoted'
  BY <1>3, <1>6 DEF CargoNoted
<1>11. CargoAbove' /\ TodoAbove' /\ Permitted'
  BY <1>2 DEF CargoAbove, TodoAbove, Permitted, DigGuarded, At, Searching, Harvesting
<1> QED BY <1>7, <1>8, <1>9, <1>10, <1>11 DEF WoodInv
-----------------------------------------------------------------------------
(* The commands, the start of the process, and the end of a command. *)

(* No run, no cargo on the ground.                                         *)
LEMMA Idle ==
  ASSUME WoodInv, task.at \in {"none", "finishing", "savingBase", "savingReset", "previewing"}
  PROVE  drops = 0 /\ phase \notin {"searching", "harvesting"}
<1>1. task.at \notin Searching \cup Harvesting \cup Storing
  BY DEF Searching, Harvesting, Storing
<1> QED BY <1>1 DEF WoodInv, WoodTyped, OneTask

LEMMA OwnsNothing ==
  ASSUME WoodInv, ~record.pending, status = "ready", task.at # "savingReset"
  PROVE  \A k \in Kinds : owed[k] = 0
<1> TAKE k \in Kinds
<1>1. ~(owed[k] > 0)
  BY DEF WoodInv, CargoNoted
<1>2. owed[k] \in Nat
  BY DEF WoodInv, WoodTyped, Amounts
<1> QED BY <1>1, <1>2

LEMMA LoadStep ==
  ASSUME WoodInv, Load
  PROVE  WoodInv'
<1>1. task.at = "none" /\ status = "loading"
  BY DEF Load, WoodInv, OneTask
<1>2. UNCHANGED <<disk, busy, interrupted, task, prior, startStock, watched, requests, answer,
                  carried, room, drops, owed>>
  BY DEF Load, server, cargo
<1>3. record' \in {disk, record} /\ (status' = "error" \/ record' = disk)
  BY DEF Load
<1>4. phase' \notin {"searching", "harvesting"}
  BY <1>1, Idle DEF Load
<1>5. WoodTyped'
  BY <1>2, <1>3 DEF WoodInv, WoodTyped
<1>6. OneTask'
  BY <1>1, <1>2, <1>4 DEF WoodInv, OneTask, Searching, Harvesting, Storing
<1>7. JobNoted'
  BY <1>1, <1>2, <1>3 DEF WoodInv, JobNoted, Searching, Harvesting, Storing
<1>8. CargoNoted'
  BY <1>2, <1>3 DEF WoodInv, CargoNoted
<1>9. CargoAbove' /\ TodoAbove' /\ Permitted'
  BY <1>1, <1>2 DEF CargoAbove, TodoAbove, Permitted, DigGuarded, At, Searching, Harvesting
<1> QED BY <1>5, <1>6, <1>7, <1>8, <1>9 DEF WoodInv

LEMMA BaseSteps ==
  ASSUME WoodInv, Base \/ BaseEnds
  PROVE  WoodInv'
<1>1. UNCHANGED <<status, phase, interrupted, startStock, watched, requests, answer, carried, room,
                  drops, owed>>
  BY DEF Base, BaseEnds, server, cargo
<1>2. task.at \in {"none", "savingBase"} /\ ~record.pending /\ status = "ready"
  BY DEF Base, BaseEnds, Accepts, At, WoodInv, OneTask, JobNoted
<1>3. /\ task' \in Tasks /\ task'.at \in {"none", "savingBase"}
      /\ busy' <=> task'.at # "none"
  <2>1. CASE Base
    BY <2>1, GoesTo DEF Base, Steps, WoodInv, WoodTyped
  <2>2. CASE BaseEnds
    BY <2>2, NoTaskIsTask DEF BaseEnds
  <2> QED BY <2>1, <2>2
<1>4. /\ record' \in Entries /\ ~record'.pending /\ prior' \in Entries /\ ~prior'.pending
      /\ disk' \in {disk, record, prior}
  <2>1. Nothing \in Amounts
    BY DEF Nothing, Amounts
  <2>2. NoRecord \in Entries /\ ~NoRecord.pending
    BY <2>1, WoodAssumption DEF NoRecord, Entries, WoodAssumption
  <2>3. [registered |-> TRUE, pending |-> FALSE, baseline |-> Nothing, job |-> 0] \in Entries
    BY <2>1, WoodAssumption DEF Entries, WoodAssumption
  <2>4. record \in Entries /\ prior \in Entries /\ ~prior.pending
    BY DEF WoodInv, WoodTyped, JobNoted
  <2>5. CASE Base
    BY <1>2, <2>3, <2>4, <2>5 DEF Base
  <2>6. CASE BaseEnds
    BY <1>2, <2>2, <2>4, <2>6 DEF BaseEnds
  <2> QED BY <2>5, <2>6
<1>5. \A k \in Kinds : owed[k] = 0
  BY <1>2, OwnsNothing
<1>6. drops = 0 /\ phase \notin {"searching", "harvesting"}
  BY <1>2, Idle
<1>7. WoodTyped'
  BY <1>1, <1>3, <1>4 DEF WoodInv, WoodTyped
<1>8. OneTask'
  BY <1>1, <1>2, <1>3, <1>6 DEF OneTask, Searching, Harvesting, Storing
<1>9. JobNoted'
  <2>1. task'.at \notin {"savingStart"} \cup Searching \cup Harvesting \cup (Storing \ {"savingEnd"})
    BY <1>3 DEF Searching, Harvesting, Storing
  <2>2. \A entry \in {disk', record'} :
          entry.pending => entry.job \in 1..Jobs /\ entry.baseline = startStock'[entry.job]
    BY <1>1, <1>2, <1>4 DEF WoodInv, JobNoted
  <2> QED BY <1>4, <2>1, <2>2 DEF JobNoted
<1>10. CargoNoted'
  BY <1>1, <1>5 DEF CargoNoted
<1>11. CargoAbove' /\ TodoAbove' /\ Permitted'
  BY <1>3 DEF CargoAbove, TodoAbove, Permitted, DigGuarded, At, Searching, Harvesting
<1> QED BY <1>7, <1>8, <1>9, <1>10, <1>11 DEF WoodInv

LEMMA ResetSteps ==
  ASSUME WoodInv, Reset \/ ResetEnds
  PROVE  WoodInv'
<1>1. UNCHANGED <<interrupted, prior, startStock, watched, requests, answer, carried, room, drops>>
  BY DEF Reset, ResetEnds, server, cargo
<1>2. task.at \in {"none", "savingReset"} /\ status = "ready"
  BY DEF Reset, ResetEnds, Accepts, At, WoodInv, OneTask
<1>3. drops = 0 /\ phase \notin {"searching", "harvesting"}
  BY <1>2, Idle
<1>4. Nothing \in Amounts
  BY DEF Nothing, Amounts
<1>5. CASE Reset
  <2>1. UNCHANGED <<disk, status, phase, owed>> /\ busy'
    BY <1>5 DEF Reset, cargo
  <2>2. task' \in Tasks /\ task'.at = "savingReset"
    BY <1>5, GoesTo DEF Reset, Steps, WoodInv, WoodTyped
  <2>3. record' \in Entries /\ ~record'.pending
    BY <1>4, <1>5 DEF Reset, WoodInv, WoodTyped, Entries
  <2>4. WoodTyped'
    BY <1>1, <2>1, <2>2, <2>3 DEF WoodInv, WoodTyped
  <2>5. OneTask'
    BY <1>1, <1>2, <1>3, <2>1, <2>2 DEF OneTask, Searching, Harvesting, Storing
  <2>6. JobNoted'
    BY <1>1, <2>1, <2>2, <2>3 DEF WoodInv, JobNoted, Searching, Harvesting, Storing
  <2>7. CargoNoted'
    BY <1>1, <2>1, <2>2 DEF WoodInv, CargoNoted
  <2>8. CargoAbove' /\ TodoAbove' /\ Permitted'
    BY <2>2 DEF CargoAbove, TodoAbove, Permitted, DigGuarded, At, Searching, Harvesting
  <2> QED BY <2>4, <2>5, <2>6, <2>7, <2>8 DEF WoodInv
<1>6. CASE ResetEnds
  <2>1. UNCHANGED record /\ ~busy' /\ busy' \in BOOLEAN
    BY <1>6 DEF ResetEnds
  <2>2. task' \in Tasks /\ task'.at = "none"
    BY <1>6, NoTaskIsTask DEF ResetEnds
  <2>3. \/ disk' = record /\ phase' = "idle" /\ owed' = Nothing
        \/ status' = "error" /\ UNCHANGED <<disk, phase, owed>>
    BY <1>6 DEF ResetEnds
  <2>4. phase' \notin {"searching", "harvesting"}
    BY <1>3, <2>3
  <2>5. WoodTyped'
    BY <1>1, <1>4, <2>1, <2>2, <2>3 DEF WoodInv, WoodTyped
  <2>6. OneTask'
    BY <1>1, <1>3, <2>1, <2>2, <2>4 DEF OneTask, Searching, Harvesting, Storing
  <2>7. JobNoted'
    BY <1>1, <2>1, <2>2, <2>3 DEF WoodInv, JobNoted, Searching, Harvesting, Storing
  <2>8. CargoNoted'
    <3>1. CASE owed' = Nothing
      BY <3>1 DEF CargoNoted, Nothing
    <3>2. CASE status' = "error" /\ UNCHANGED <<disk, owed>>
      BY <1>1, <3>2 DEF WoodInv, CargoNoted
    <3> QED BY <2>3, <3>1, <3>2
  <2>9. CargoAbove' /\ TodoAbove' /\ Permitted'
    BY <2>2 DEF CargoAbove, TodoAbove, Permitted, DigGuarded, At, Searching, Harvesting
  <2> QED BY <2>5, <2>6, <2>7, <2>8, <2>9 DEF WoodInv
<1> QED BY <1>5, <1>6
LEMMA BeginSteps ==
  ASSUME WoodInv, Collect \/ Return
  PROVE  WoodInv'
<1>1. PICK collect \in BOOLEAN, step \in {"previewing", "returning"} :
        /\ Begin(collect, step)
        /\ IF collect THEN step = "previewing" /\ ~record.pending /\ phase' = phase
                      ELSE step = "returning" /\ record.pending /\ phase' = "returning"
  BY DEF Collect, Return
<1>2. task.at = "none" /\ status = "ready"
  BY <1>1 DEF Begin, Accepts, WoodInv, OneTask
<1>3. UNCHANGED <<disk, record, status, prior, startStock, watched, requests, answer, carried, room,
                  drops, owed>> /\ busy' /\ ~interrupted'
  BY <1>1 DEF Begin, server, cargo
<1>4. /\ task' \in Tasks /\ task'.at = step /\ task'.collect = collect
  <2>1. NoTask \in Tasks /\ step \in Steps
    BY NoTaskIsTask, Stepped
  <2>2. \A s \in Tasks : [s EXCEPT !.collect = collect] \in Tasks
    BY DEF Tasks
  <2>3. task' = [[[[NoTask EXCEPT !.at = step] EXCEPT !.collect = collect] EXCEPT !.targets = Targets]
                   EXCEPT !.wanted = Amount]
    BY <1>1, <2>1 DEF Begin, Tasks
  <2>4. Targets \in Int /\ Amount \in Int
    BY WoodAssumption DEF WoodAssumption
  <2>5. task' \in Tasks
    BY <2>1, <2>2, <2>3, <2>4, Stepped
  <2> QED BY <2>1, <2>3, <2>5 DEF Tasks
<1>5. drops = 0 /\ phase \notin {"searching", "harvesting"}
  BY <1>2, Idle
<1>6. WoodTyped'
  BY <1>3, <1>4 DEF WoodInv, WoodTyped
<1>7. OneTask'
  BY <1>1, <1>2, <1>3, <1>4, <1>5 DEF OneTask, Searching, Harvesting, Storing
<1>8. JobNoted'
  BY <1>1, <1>3, <1>4 DEF WoodInv, JobNoted, Searching, Harvesting, Storing
<1>9. CargoNoted'
  BY <1>2, <1>3 DEF WoodInv, CargoNoted
<1>10. CargoAbove' /\ TodoAbove' /\ Permitted'
  BY <1>1, <1>4 DEF CargoAbove, TodoAbove, Permitted, DigGuarded, At, Searching, Harvesting
<1> QED BY <1>6, <1>7, <1>8, <1>9, <1>10 DEF WoodInv

(* The job goes on record, in memory, before it is on disk: nothing is     *)
(* owed yet.                                                               *)
LEMMA PreviewStep ==
  ASSUME WoodInv, PreviewOk
  PROVE  WoodInv'
<1>1. task.at = "previewing" /\ status = "ready" /\ ~record.pending /\ task.collect
  BY DEF PreviewOk, At, WoodInv, OneTask, JobNoted
<1>2. task' \in Tasks /\ task'.at = "savingStart" /\ task'.collect = task.collect
  BY GoesTo, Stepped DEF PreviewOk, WoodInv, WoodTyped
<1>3. UNCHANGED <<disk, status, busy, phase, interrupted, prior, watched, requests, answer, carried,
                  room, drops, owed>>
  BY DEF PreviewOk, service, server, cargo
<1>4. /\ NextJob \in 1..Jobs /\ disk.job < NextJob
  BY DEF PreviewOk, NextJob, WoodInv, WoodTyped, Entries
<1>5. /\ record' = [registered |-> TRUE, pending |-> TRUE, baseline |-> carried, job |-> NextJob]
      /\ startStock' = [startStock EXCEPT ![NextJob] = carried]
  BY DEF PreviewOk
<1> HIDE DEF NextJob
<1>6. carried \in Amounts /\ startStock \in [1..Jobs -> Amounts] /\ disk \in Entries /\ prior \in Entries
  BY DEF WoodInv, WoodTyped
<1>7. record' \in Entries /\ startStock' \in [1..Jobs -> Amounts]
  BY <1>4, <1>5, <1>6, WoodAssumption DEF Entries, WoodAssumption
<1>8. \A k \in Kinds : owed[k] = 0
  BY <1>1, OwnsNothing
<1>9. drops = 0 /\ phase \notin {"searching", "harvesting"}
  BY <1>1, Idle
<1>10. WoodTyped'
  BY <1>2, <1>3, <1>7 DEF WoodInv, WoodTyped
<1>11. OneTask'
  BY <1>1, <1>2, <1>3, <1>9 DEF WoodInv, OneTask, Searching, Harvesting, Storing
<1>12. JobNoted'
  <2>1. disk.pending => disk.job \in 1..Jobs /\ disk.baseline = startStock'[disk.job]
    BY <1>4, <1>5, <1>6 DEF WoodInv, JobNoted
  <2>2. record'.pending /\ record'.job \in 1..Jobs /\ record'.baseline = startStock'[record'.job]
    BY <1>4, <1>5, <1>6
  <2>3. ~prior'.pending /\ task'.at \notin {"previewing", "savingBase"}
    BY <1>2, <1>3 DEF WoodInv, JobNoted
  <2> QED BY <1>3, <2>1, <2>2, <2>3 DEF JobNoted
<1>13. CargoNoted'
  BY <1>3, <1>8 DEF CargoNoted
<1>14. CargoAbove'
  BY <1>2, <1>3, <1>5, <1>8 DEF CargoAbove, Searching, Harvesting
<1>15. TodoAbove' /\ Permitted'
  BY <1>2 DEF TodoAbove, Permitted, DigGuarded, At
<1> QED BY <1>10, <1>11, <1>12, <1>13, <1>14, <1>15 DEF WoodInv

LEMMA TaskEndStep ==
  ASSUME WoodInv, TaskEnds
  PROVE  WoodInv'
<1>1. task.at = "finishing"
  BY DEF TaskEnds, At
<1>2. UNCHANGED <<disk, record, status, phase, interrupted, prior, startStock, watched, requests, answer,
                  carried, room, drops, owed>> /\ busy' = FALSE
  BY DEF TaskEnds, server, cargo
<1>3. task' \in Tasks /\ task'.at = "none"
  BY NoTaskIsTask DEF TaskEnds
<1>4. drops = 0 /\ phase \notin {"searching", "harvesting"}
  BY <1>1, Idle
<1>5. WoodTyped'
  BY <1>2, <1>3 DEF WoodInv, WoodTyped
<1>6. OneTask'
  BY <1>2, <1>3, <1>4 DEF OneTask, Searching, Harvesting, Storing
<1>7. JobNoted'
  BY <1>2, <1>3 DEF WoodInv, JobNoted, Searching, Harvesting, Storing
<1>8. CargoNoted'
  BY <1>1, <1>2 DEF WoodInv, CargoNoted
<1>9. CargoAbove' /\ TodoAbove' /\ Permitted'
  BY <1>3 DEF CargoAbove, TodoAbove, Permitted, DigGuarded, At, Searching, Harvesting
<1> QED BY <1>5, <1>6, <1>7, <1>8, <1>9 DEF WoodInv
-----------------------------------------------------------------------------
(* The server and the world. *)

(* Only the guard, its requests and the answer change: what stays to show  *)
(* is that the permit still holds.                                         *)
LEMMA ServerStep ==
  ASSUME WoodInv,
         UNCHANGED <<disk, record, status, busy, phase, task, prior, startStock, carried, room, drops, owed>>,
         interrupted => interrupted',
         requests' \in Seq({"grant", "release"}),
         Permitted'
  PROVE  WoodInv'
<1>1. WoodTyped'
  BY DEF WoodInv, WoodTyped
<1>2. OneTask'
  BY DEF WoodInv, OneTask
<1>3. JobNoted'
  BY DEF WoodInv, JobNoted
<1>4. CargoNoted'
  BY DEF WoodInv, CargoNoted
<1>5. CargoAbove'
  BY DEF WoodInv, CargoAbove
<1>6. TodoAbove'
  BY DEF WoodInv, TodoAbove
<1> QED BY <1>1, <1>2, <1>3, <1>4, <1>5, <1>6 DEF WoodInv

LEMMA FirstHandled ==
  ASSUME requests \in Seq({"grant", "release"}), NEW i \in Due, HandleRequest(i)
  PROVE  /\ i = 1 /\ requests # <<>> /\ requests' \in Seq({"grant", "release"})
         /\ i = Len(requests) => requests' = <<>>
<1>1. i = 1 /\ 1 \in DOMAIN requests /\ Len(requests) \in Nat /\ DOMAIN requests = 1..Len(requests)
  BY DEF Due
<1>2. Len(requests) >= 1 /\ requests # <<>>
  BY <1>1
<1> DEFINE before == SubSeq(requests, 1, 0)
           after  == SubSeq(requests, 2, Len(requests))
<1>3. requests' = before \o after
  BY <1>1 DEF HandleRequest
<1>4. before = <<>> /\ after \in Seq({"grant", "release"}) /\ before \in Seq({"grant", "release"})
  BY <1>1, <1>2
<1>5. Len(requests) = 1 => after = <<>>
  BY <1>1, <1>2
<1> HIDE DEF before, after
<1>6. requests' = after
  BY <1>3, <1>4, ConcatEmptySeq
<1> QED BY <1>1, <1>2, <1>4, <1>5, <1>6

LEMMA ServerSteps ==
  ASSUME WoodInv, (\E i \in Due : HandleRequest(i)) \/ Disconnect \/ Connect \/ Stop
  PROVE  WoodInv'
<1>1. requests \in Seq({"grant", "release"})
  BY DEF WoodInv, WoodTyped
<1>2. ASSUME NEW i \in Due, HandleRequest(i)
      PROVE  WoodInv'
  <2>1. /\ requests # <<>> /\ requests' \in Seq({"grant", "release"})
        /\ i = Len(requests) => requests' = <<>>
    BY <1>1, <1>2, FirstHandled
  <2>2. UNCHANGED <<disk, record, status, busy, phase, stopped, interrupted, task, prior, online,
                    startStock, carried, room, drops, owed>>
    BY <1>2 DEF HandleRequest, service, cargo
  <2>3. task.at # "digging" /\ ~(task.at = "asking" /\ answer = "allowed")
    BY <2>1 DEF WoodInv, Permitted
  <2>4. task.at = "asking" /\ answer' = "allowed" => requests' = <<>> /\ watched'
    <3> HAVE task.at = "asking" /\ answer' = "allowed"
    <3>1. requests[i] = "grant" /\ i = Len(requests) /\ online
      BY <1>2, <2>3 DEF HandleRequest, At
    <3> QED BY <1>2, <2>1, <3>1 DEF HandleRequest
  <2>5. Permitted'
    BY <2>2, <2>3, <2>4 DEF Permitted, DigGuarded, At
  <2> QED BY <2>1, <2>2, <2>5, ServerStep
<1>3. CASE Disconnect
  <2>1. UNCHANGED <<disk, record, status, busy, phase, task, prior, requests, answer,
                    startStock, carried, room, drops, owed>> /\ Interrupt
    BY <1>3 DEF Disconnect, cargo
  <2>2. task.at \in {"asking", "digging"} => interrupted'
    BY <2>1 DEF Interrupt, Running, Harvesting
  <2>3. Permitted'
    BY <2>1, <2>2 DEF WoodInv, Permitted, DigGuarded, At
  <2> QED BY <1>1, <2>1, <2>3, ServerStep DEF Interrupt
<1>4. CASE Connect \/ Stop
  <2>1. UNCHANGED <<disk, record, status, busy, phase, interrupted, task, prior, watched, requests, answer,
                    startStock, carried, room, drops, owed>>
    BY <1>4 DEF Connect, Stop, service, server, cargo
  <2>2. Permitted'
    BY <2>1 DEF WoodInv, Permitted, DigGuarded, At
  <2> QED BY <1>1, <2>1, <2>2, ServerStep
<1> QED BY <1>2, <1>3, <1>4

LEMMA PickUpStep ==
  ASSUME WoodInv, PickUp
  PROVE  WoodInv'
<1>1. PICK k \in Kinds : /\ carried' = [carried EXCEPT ![k] = @ + 1]
                         /\ owed' = [owed EXCEPT ![k] = @ + 1]
  BY DEF PickUp
<1>2. UNCHANGED <<disk, record, status, busy, phase, interrupted, task, prior, watched, requests, answer,
                  room, startStock>>
  BY DEF PickUp, service, server
<1>3. drops > 0 /\ drops' = drops - 1 /\ task.at \in Searching \cup Harvesting \cup {"returning"} /\ ~interrupted
  BY DEF PickUp, Valid
<1>4. carried \in Amounts /\ owed \in Amounts /\ drops \in Nat /\ disk \in Entries
  BY DEF WoodInv, WoodTyped
<1>5. carried' \in Amounts /\ owed' \in Amounts /\ drops' \in Nat
  BY <1>1, <1>3, <1>4 DEF Amounts
<1>6. \A kind \in Kinds : carried'[kind] - owed'[kind] = carried[kind] - owed[kind]
  BY <1>1, <1>4 DEF Amounts
<1>7. task.collect
  BY <1>3 DEF WoodInv, OneTask
<1>8. disk.pending /\ record.pending /\ record.baseline = disk.baseline
      /\ \A kind \in Kinds : disk.baseline[kind] + owed[kind] <= carried[kind]
  BY <1>3, <1>7 DEF WoodInv, CargoAbove
<1>9. \A kind \in Kinds : disk.baseline[kind] + owed'[kind] <= carried'[kind]
  <2> TAKE kind \in Kinds
  <2>1. disk.baseline[kind] + owed[kind] <= carried[kind]
    BY <1>8
  <2>2. carried'[kind] - owed'[kind] = carried[kind] - owed[kind]
    BY <1>6
  <2>3. disk.pending /\ disk.baseline[kind] \in Nat /\ carried[kind] \in Nat /\ owed[kind] \in Nat
        /\ carried'[kind] \in Nat /\ owed'[kind] \in Nat
    BY <1>4, <1>5, <1>8 DEF Entries, Amounts
  <2> QED BY <2>1, <2>2, <2>3
<1>10. WoodTyped'
  BY <1>2, <1>5 DEF WoodInv, WoodTyped
<1>11. OneTask'
  BY <1>2, <1>3 DEF WoodInv, OneTask
<1>12. JobNoted'
  BY <1>2 DEF WoodInv, JobNoted
<1>13. CargoNoted'
  BY <1>2, <1>8, <1>9 DEF CargoNoted
<1>14. CargoAbove'
  BY <1>2, <1>3, <1>8, <1>9 DEF CargoAbove, Searching, Harvesting
<1>15. TodoAbove'
  BY <1>2, <1>3 DEF TodoAbove, Searching, Harvesting
<1>16. Permitted'
  BY <1>2 DEF WoodInv, Permitted, DigGuarded, At
<1> QED BY <1>10, <1>11, <1>12, <1>13, <1>14, <1>15, <1>16 DEF WoodInv

LEMMA OtherWorkStep ==
  ASSUME WoodInv, OtherWork
  PROVE  WoodInv'
<1>1. PICK k \in Kinds :
        \/ /\ carried' = [carried EXCEPT ![k] = @ + 1] /\ UNCHANGED owed
        \/ /\ carried[k] > 0 /\ carried' = [carried EXCEPT ![k] = @ - 1]
           /\ owed' = [owed EXCEPT ![k] = @ - Min2(1, @)]
  BY DEF OtherWork
<1>2. UNCHANGED <<disk, record, status, busy, phase, interrupted, task, prior, watched, requests, answer,
                  room, drops, startStock>>
  BY DEF OtherWork, service, server
<1>3. task.at = "none"
  BY DEF OtherWork, WoodInv, OneTask
<1>4. carried \in Amounts /\ owed \in Amounts /\ disk \in Entries
  BY DEF WoodInv, WoodTyped
<1> DEFINE less == owed[k] - Min2(1, owed[k])
<1>5. /\ carried[k] \in Nat /\ owed[k] \in Nat /\ less \in Nat
      /\ less > 0 => owed[k] > 0 /\ less = owed[k] - 1
  BY <1>4 DEF Amounts, Min2
<1>6. \/ /\ carried' = [carried EXCEPT ![k] = carried[k] + 1] /\ UNCHANGED owed
       \/ /\ carried[k] > 0 /\ carried' = [carried EXCEPT ![k] = carried[k] - 1]
          /\ owed' = [owed EXCEPT ![k] = less]
  BY <1>1
<1> HIDE DEF less
<1>7. carried[k] + 1 \in Nat /\ (carried[k] > 0 => carried[k] - 1 \in Nat)
  BY <1>5
<1>8. carried' \in Amounts /\ owed' \in Amounts
  BY <1>4, <1>5, <1>6, <1>7 DEF Amounts
<1>9. \A kind \in Kinds : owed'[kind] > 0 =>
        owed[kind] > 0 /\ carried'[kind] - owed'[kind] >= carried[kind] - owed[kind]
  <2> SUFFICES ASSUME NEW kind \in Kinds, owed'[kind] > 0
               PROVE  owed[kind] > 0 /\ carried'[kind] - owed'[kind] >= carried[kind] - owed[kind]
    OBVIOUS
  <2>1. CASE kind # k
    BY <1>4, <1>6, <2>1 DEF Amounts
  <2>2. CASE kind = k
    BY <1>4, <1>5, <1>6, <2>2 DEF Amounts
  <2> QED BY <2>1, <2>2
<1>10. WoodTyped'
  BY <1>2, <1>8 DEF WoodInv, WoodTyped
<1>11. OneTask'
  BY <1>2 DEF WoodInv, OneTask
<1>12. JobNoted'
  BY <1>2 DEF WoodInv, JobNoted
<1>13. CargoNoted'
  <2> SUFFICES ASSUME NEW kind \in Kinds, owed'[kind] > 0
               PROVE  /\ disk.pending /\ disk.baseline[kind] + owed'[kind] <= carried'[kind]
                      /\ status = "ready" => record.pending /\ record.baseline = disk.baseline
    BY <1>2, <1>3 DEF CargoNoted
  <2>1. /\ disk.pending /\ disk.baseline[kind] + owed[kind] <= carried[kind]
        /\ status = "ready" => record.pending /\ record.baseline = disk.baseline
    BY <1>3, <1>9 DEF WoodInv, CargoNoted
  <2>2. /\ disk.baseline[kind] \in Nat /\ carried[kind] \in Nat /\ owed[kind] \in Nat
        /\ carried'[kind] \in Nat /\ owed'[kind] \in Nat
    BY <1>4, <1>8 DEF Entries, Amounts
  <2>3. carried'[kind] - owed'[kind] >= carried[kind] - owed[kind]
    BY <1>9
  <2> QED BY <2>1, <2>2, <2>3
<1>14. CargoAbove' /\ TodoAbove' /\ Permitted'
  BY <1>2, <1>3 DEF CargoAbove, TodoAbove, Permitted, DigGuarded, At, Searching, Harvesting
<1> QED BY <1>10, <1>11, <1>12, <1>13, <1>14 DEF WoodInv

(* Death and a crash take the cargo, or the memory.                        *)
LEMMA LossSteps ==
  ASSUME WoodInv, Die \/ Crash
  PROVE  WoodInv'
<1>1. CASE Die
  <2>1. /\ UNCHANGED <<disk, record, status, busy, phase, task, prior, watched, requests, answer,
                       room, drops, startStock>>
        /\ carried' = Nothing /\ owed' = Nothing /\ Interrupt
    BY <1>1 DEF Die, server
  <2>2. Nothing \in Amounts
    BY DEF Nothing, Amounts
  <2>3. \A k \in Kinds : ~(owed'[k] > 0) /\ owed'[k] = 0 /\ ~(carried'[k] > 0)
    BY <2>1 DEF Nothing
  <2>4. task.at \in {"savingStart", "returning"} \cup Searching \cup Harvesting => interrupted'
    BY <2>1 DEF Interrupt, Running, Storing
  <2>5. WoodTyped'
    BY <2>1, <2>2 DEF WoodInv, WoodTyped
  <2>6. OneTask'
    BY <2>1 DEF WoodInv, OneTask
  <2>7. JobNoted'
    BY <2>1 DEF WoodInv, JobNoted
  <2>8. CargoNoted' /\ TodoAbove'
    BY <2>3 DEF CargoNoted, TodoAbove
  <2>9. CargoAbove'
    BY <2>1, <2>3, <2>4 DEF CargoAbove
  <2>10. Permitted'
    BY <2>1 DEF WoodInv, Permitted, DigGuarded, At, Interrupt
  <2> QED BY <2>5, <2>6, <2>7, <2>8, <2>9, <2>10 DEF WoodInv
<1>2. CASE Crash
  <2>1. /\ UNCHANGED <<disk, requests, carried, room, owed, startStock>>
        /\ status' = "loading" /\ phase' = "idle" /\ busy' = FALSE /\ drops' = 0
        /\ record' = NoRecord /\ prior' = NoRecord /\ task' = NoTask
    BY <1>2 DEF Crash
  <2>2. NoRecord \in Entries /\ ~NoRecord.pending
    BY WoodAssumption DEF NoRecord, Entries, Nothing, Amounts, WoodAssumption
  <2>3. WoodTyped'
    BY <2>1, <2>2, NoTaskIsTask DEF WoodInv, WoodTyped
  <2>4. OneTask'
    BY <2>1, NoTaskIsTask DEF OneTask, Searching, Harvesting, Storing
  <2>5. JobNoted'
    BY <2>1, <2>2, NoTaskIsTask DEF WoodInv, JobNoted, Searching, Harvesting, Storing
  <2>6. CargoNoted'
    BY <2>1 DEF WoodInv, CargoNoted
  <2>7. CargoAbove' /\ TodoAbove' /\ Permitted'
    BY <2>1, NoTaskIsTask DEF CargoAbove, TodoAbove, Permitted, DigGuarded, At, Searching, Harvesting
  <2> QED BY <2>3, <2>4, <2>5, <2>6, <2>7 DEF WoodInv
<1> QED BY <1>1, <1>2

-----------------------------------------------------------------------------
LEMMA WoodStutters ==
  ASSUME WoodInv, UNCHANGED vars
  PROVE  WoodInv'
<1>1. UNCHANGED <<disk, record, status, busy, phase, interrupted, task, prior, watched, requests, answer,
                  startStock, carried, room, drops, owed>>
  BY DEF vars, service, server, cargo
<1>2. Permitted'
  BY <1>1 DEF WoodInv, Permitted, DigGuarded, At
<1> QED BY <1>1, <1>2, ServerStep DEF WoodInv, WoodTyped

LEMMA WoodStep ==
  ASSUME WoodInv, [Next]_vars
  PROVE  WoodInv'
<1>1. CASE Load
  BY <1>1, LoadStep
<1>2. CASE Handlers
  BY <1>2, ServerSteps, BaseSteps, ResetSteps, BeginSteps DEF Handlers
<1>3. CASE TaskStep
  BY <1>3, BaseSteps, ResetSteps, PreviewStep, SaveStep, SaveEndStep, SearchStep, HarvestSteps, StoreSteps,
     DepositSteps, AllStoredStep, FailureStep, TaskEndStep DEF TaskStep
<1>4. CASE World
  BY <1>4, ServerSteps, PickUpStep, OtherWorkStep, LossSteps DEF World
<1>5. CASE UNCHANGED vars
  BY <1>5, WoodStutters
<1> QED BY <1>1, <1>2, <1>3, <1>4, <1>5 DEF Next

LEMMA WoodStarts ==
  Init => WoodInv
<1> SUFFICES ASSUME Init PROVE WoodInv
  OBVIOUS
<1>1. Nothing \in Amounts /\ NoRecord \in Entries /\ ~NoRecord.pending
  BY WoodAssumption DEF NoRecord, Entries, Nothing, Amounts, WoodAssumption
<1>2. carried \in Amounts /\ Room \in Nat
  BY WoodAssumption DEF Init, Amounts, WoodAssumption
<1>3. \A k \in Kinds : owed[k] = 0
  BY DEF Init, Nothing
<1>4. WoodTyped
  BY <1>1, <1>2, NoTaskIsTask DEF Init, WoodTyped
<1>5. OneTask
  BY NoTaskIsTask DEF Init, OneTask, Searching, Harvesting, Storing
<1>6. JobNoted
  BY <1>1, NoTaskIsTask DEF Init, JobNoted, Searching, Harvesting, Storing
<1>7. CargoNoted
  BY <1>3 DEF CargoNoted
<1>8. CargoAbove /\ TodoAbove /\ Permitted
  BY NoTaskIsTask DEF Init, CargoAbove, TodoAbove, Permitted, DigGuarded, At, Searching, Harvesting
<1> QED BY <1>4, <1>5, <1>6, <1>7, <1>8 DEF WoodInv

(* The invariant, for every number of kinds, targets, logs, jobs and       *)
(* requests.                                                               *)
THEOREM WoodInvariance ==
  Spec => []WoodInv
BY WoodStarts, WoodStep, PTL DEF Spec

(* Cargo the job has gathered is on the record that survives a crash.      *)
THEOREM CargoAlwaysOnRecord ==
  Spec => []CargoOnRecord
<1>1. WoodInv => CargoOnRecord
  BY DEF WoodInv, CargoNoted, CargoOnRecord
<1> QED BY <1>1, WoodInvariance, PTL

(* A dig of the run is always under the server's guard.                    *)
THEOREM DigAlwaysGuarded ==
  Spec => []DigGuarded
<1>1. WoodInv => DigGuarded
  BY DEF WoodInv, Permitted
<1> QED BY <1>1, WoodInvariance, PTL

(* A deposit leaves the bot what it carried when the job on record began.  *)
(* Only the deposit itself fills the chest; what it moves lies above the   *)
(* stock on record, and that is the stock noted at the start.              *)
THEOREM StockAlwaysKept ==
  Spec => StockKept
<1>1. ASSUME WoodInv, [Next]_vars, room' < room
      PROVE  carried'[task.kind] >= startStock[record.job][task.kind]
  <2>1. DepositEnds \/ DepositFails
    <3>1. room' # room
      BY <1>1 DEF WoodInv, WoodTyped
    <3> QED BY <1>1, <3>1 DEF Next, Handlers, TaskStep, World, vars, cargo, service, server, Load, Stop, Base, Reset,
          Collect, Return, Begin, BaseEnds, ResetEnds, PreviewOk, Save, SaveEnd, Search, AskPermit, DigBegins,
          DigEnds, Gather, ArriveHome, ChestOpens, DepositBegins, AllStored, StepFails, TaskEnds,
          HandleRequest, PickUp, OtherWork, Die, Disconnect, Connect, Crash
  <2>2. PICK n \in 0..task.todo[task.kind] : Moves(n)
    <3>1. task.todo[task.kind] \in 0..task.todo[task.kind]
      BY <1>1 DEF WoodInv, WoodTyped, Tasks, Amounts
    <3>2. CASE DepositEnds
      BY <3>1, <3>2 DEF DepositEnds
    <3>3. CASE DepositFails
      BY <3>3 DEF DepositFails
    <3> QED BY <2>1, <3>2, <3>3
  <2> DEFINE kind == task.kind
  <2>3. /\ task.at = "moving" /\ kind \in Kinds /\ task.todo[kind] \in Nat
        /\ carried[kind] \in Nat /\ record.baseline[kind] \in Nat
    BY <1>1, <2>1 DEF WoodInv, WoodTyped, Tasks, Amounts, Entries, DepositEnds, DepositFails, At
  <2>4. record.baseline = startStock[record.job]
    BY <1>1, <2>3 DEF WoodInv, JobNoted, Storing
  <2>5. carried'[kind] = carried[kind] - n /\ n <= carried[kind] /\ room' = room - n /\ n \in Nat
    <3>1. n \in Nat
      BY <2>2, <2>3
    <3>2. carried'[kind] = carried[kind] - n
      BY <1>1, <2>2, <3>1, MovesSink
    <3> QED BY <2>2, <3>1, <3>2 DEF Moves
  <2>6. n > 0
    BY <1>1, <2>5 DEF WoodInv, WoodTyped
  <2>7. record.baseline[kind] + task.todo[kind] <= carried[kind]
    BY <1>1, <2>2, <2>3, <2>5, <2>6 DEF WoodInv, TodoAbove
  <2> QED BY <2>2, <2>3, <2>4, <2>5, <2>7
<1>2. WoodInv /\ [Next]_vars => [room' < room /\ task.kind \in Kinds =>
                                   carried'[task.kind] >= startStock[record.job][task.kind]]_vars
  BY <1>1
<1> QED BY <1>2, WoodInvariance, PTL DEF Spec, StockKept

(* After !wood stop no log is begun and no item moved any more: of all the *)
(* steps only two lead there, and both check.                              *)
THEOREM StopAlwaysHolds ==
  Spec => StopHolds
<1>1. ASSUME WoodInv, [Next]_vars, task'.at # task.at, task'.at \in {"digging", "moving"}
      PROVE  ~stopped /\ ~interrupted
  <2>1. task \in Tasks
    BY <1>1 DEF WoodInv, WoodTyped
  <2>2. ~(Finish \/ (\E r : Fail(r)))
    BY <1>1, FinishEnds, FailEnds DEF WoodInv
  <2>3. CASE Load \/ Stop \/ World \/ UNCHANGED vars
    <3>1. task' = task \/ task' = NoTask
      BY <2>3 DEF Load, Stop, World, HandleRequest, PickUp, OtherWork, Die, Disconnect, Connect, Crash, vars
    <3> QED BY <1>1, <3>1, NoTaskIsTask
  <2>4. CASE Base \/ Reset \/ BaseEnds \/ ResetEnds \/ TaskEnds
    <3>1. Goto("savingBase") \/ Goto("savingReset") \/ task' = NoTask
      BY <2>4 DEF Base, Reset, BaseEnds, ResetEnds, TaskEnds
    <3> QED BY <1>1, <2>1, <3>1, NoTaskIsTask, GoesTo DEF Steps
  <2>5. CASE Collect \/ Return
    <3>1. PICK collect \in BOOLEAN, step \in {"previewing", "returning"} :
            task' = [NoTask EXCEPT !.at = step, !.collect = collect, !.targets = Targets, !.wanted = Amount]
      BY <2>5 DEF Collect, Return, Begin
    <3>2. task'.at = step
      BY <3>1, NoTaskIsTask DEF Tasks
    <3> QED BY <1>1, <3>2
  <2>6. CASE DigBegins \/ DepositBegins
    BY <2>6 DEF DigBegins, DepositBegins, Check, Valid
  <2>7. CASE PreviewOk \/ Save \/ AskPermit \/ Gather \/ ArriveHome \/ AllStored
    <3>1. \E step \in {"savingStart", "searching", "looking", "felling", "depositing", "asking", "gathering",
                       "savingPickup", "opening", "savingEnd"} : Goto(step)
      BY <2>7 DEF PreviewOk, Save, Saved, AskPermit, Gather, ArriveHome, AllStored
    <3> QED BY <1>1, <2>1, <3>1, GoesTo, Stepped
  <2>8. CASE Search
    <3>1. task'.at \in {"walking", "returning", "savingTrail", "searching", "approaching", "savingTree"}
      BY <2>1, <2>8 DEF Search, Goto, Tasks
    <3> QED BY <1>1, <3>1
  <2>9. CASE DigEnds \/ ChestOpens \/ DepositEnds
    <3>1. task'.at \in {"felling", "depositing", "savingDeposit"}
      BY <2>1, <2>9 DEF DigEnds, ChestOpens, DepositEnds, Tasks
    <3> QED BY <1>1, <3>1
  <2>10. CASE SaveEnd \/ DepositFails \/ StepFails
    BY <2>2, <2>10 DEF SaveEnd, DepositFails, StepFails
  <2> QED BY <1>1, <2>3, <2>4, <2>5, <2>6, <2>7, <2>8, <2>9, <2>10 DEF Next, Handlers, TaskStep
<1>2. WoodInv /\ [Next]_vars =>
        [task'.at # task.at /\ task'.at \in {"digging", "moving"} => ~stopped /\ ~interrupted]_vars
  BY <1>1
<1> QED BY <1>2, WoodInvariance, PTL DEF Spec, StopHolds
=============================================================================
