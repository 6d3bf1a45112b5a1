--------------------------- MODULE WoodCollection ---------------------------
(***************************************************************************)
(* The wood collection of the Node bot (node-bot/runtime/forestry.ts).     *)
(*                                                                         *)
(* A player starts, stops and resets the work by chat (handleChat); run()  *)
(* is one asynchronous task behind the flag busy.  It previews the chest,  *)
(* puts the job on record (pending and the stock carried at the start),    *)
(* searches, fells, picks up, walks home, stores what it carries above     *)
(* that stock and takes the job off the record.  The record is in memory   *)
(* and, by save(), on disk.  An action is a stretch between two awaits;    *)
(* commands, deaths, disconnections and crashes of the Node process come   *)
(* between any two of them.                                                *)
(*                                                                         *)
(* Left out: positions, the trail, the clock and health (a step may fail   *)
(* for them at any check), owner names, wording.  The deadlines that end   *)
(* the search are a bound on targets and on logs.                          *)
(***************************************************************************)
EXTENDS Integers, Sequences

CONSTANTS Kinds,     \* the kinds of cargo items
          MaxCarry,  \* how many of a kind the bot can carry (a bound of the model)
          MaxDrops,  \* how many items one felled log leaves at most
          Targets,   \* how many points run() explores
          Amount,    \* how many logs a collect command asks for
          Jobs,      \* how many jobs are begun (a bound of the model)
          Queue,     \* how many requests the server leaves waiting (a bound of the model)
          Room       \* how many items the chest takes before it is full

ASSUME WoodAssumption ==
  /\ {MaxCarry, MaxDrops, Targets, Amount, Jobs, Queue, Room} \subseteq Nat
  /\ Kinds # {}

VARIABLES
  disk, record,  \* the work record in the state file and in memory
  status,        \* "loading", "ready" or "error": the promise ready and stateError
  busy, phase, stopped, interrupted,  \* the fields of WoodService
  task,          \* where run(), or the save of base and reset, stands
  prior,         \* the record base() puts back when it fails
  online,        \* whether the bot is in the game
  watched,       \* whether the server's ForestryGuard watches the bot's digging
  requests,      \* forestry requests the server has not handled yet
  answer,        \* the server's answer to the permit asked for last
  carried, room, \* cargo the bot carries, items the chest still takes
  drops,         \* items of the job lying on the ground
  owed,          \* cargo gathered by the job on record, neither stored nor lost
  startStock     \* what was carried when each job began

service == <<status, busy, phase, stopped, interrupted>>
server  == <<watched, requests, answer>>
cargo   == <<carried, room, drops, owed>>
vars == <<disk, record, service, task, prior, online, server, cargo, startStock>>

Counts == [Kinds -> 0..MaxCarry]
Nothing == [k \in Kinds |-> 0]
NoRecord == [registered |-> FALSE, pending |-> FALSE, baseline |-> Nothing, job |-> 0]

Searching  == {"searching", "walking", "savingTrail", "looking", "approaching", "savingTree"}
Harvesting == {"felling", "asking", "digging", "gathering", "savingPickup"}
Storing    == {"returning", "opening", "depositing", "moving", "savingDeposit", "savingEnd"}
Running    == {"previewing", "savingStart"} \cup Searching \cup Harvesting \cup Storing
Steps      == {"none", "finishing", "savingBase", "savingReset"} \cup Running
NoTask     == [at |-> "none", collect |-> FALSE, auto |-> FALSE, targets |-> 0,
               wanted |-> 0, logs |-> 0, todo |-> Nothing, kind |-> CHOOSE k \in Kinds : TRUE]

Records == [registered : BOOLEAN, pending : BOOLEAN, baseline : Counts, job : 0..Jobs]

TypeOK ==
  /\ disk \in Records /\ record \in Records /\ prior \in Records
  /\ status \in {"loading", "ready", "error"}
  /\ phase \in {"idle", "searching", "harvesting", "returning", "depositing", "blocked"}
  /\ {busy, stopped, interrupted, online, watched} \subseteq BOOLEAN
  /\ task \in [at : Steps, collect : BOOLEAN, auto : BOOLEAN, targets : 0..Targets,
               wanted : 0..Amount, logs : 0..Amount, todo : Counts, kind : Kinds]
  /\ requests \in Seq({"grant", "release"})
  /\ answer \in {"none", "allowed", "denied"}
  /\ carried \in Counts /\ owed \in Counts /\ room \in 0..Room /\ drops \in 0..(Amount * MaxDrops)
  /\ startStock \in [1..Jobs -> Counts]

Init ==
  /\ disk = NoRecord /\ record = NoRecord /\ prior = NoRecord
  /\ status = "loading" /\ phase = "idle"
  /\ busy = FALSE /\ stopped = FALSE /\ interrupted = FALSE
  /\ task = NoTask
  /\ online = TRUE /\ watched = FALSE /\ requests = <<>> /\ answer = "none"
  /\ carried \in [Kinds -> 0..1] /\ room = Room /\ drops = 0 /\ owed = Nothing
  /\ startStock = [j \in 1..Jobs |-> Nothing]

-----------------------------------------------------------------------------
(* Shared pieces                                                           *)

At(step)    == task.at = step
Valid       == ~interrupted /\ online
Check       == Valid /\ ~stopped
Goto(step)  == task' = [task EXCEPT !.at = step]
\* Mutant: the difference without the stock at the start.
DeltaOfAll  == carried
Delta       == [k \in Kinds |-> IF carried[k] > record.baseline[k] THEN carried[k] - record.baseline[k] ELSE 0]
Min2(a, b)  == IF a < b THEN a ELSE b
NextJob     == 1 + (IF disk.job > record.job THEN disk.job ELSE record.job)

\* finally: the server is asked to lift the guard; the request may never reach it.
Finish ==
  /\ \/ Len(requests) < Queue /\ requests' = Append(requests, "release")
     \/ UNCHANGED requests
  /\ answer' = "none" /\ drops' = 0
  /\ task' = [NoTask EXCEPT !.at = "finishing"]
  /\ UNCHANGED watched

\* catch: a recoverable failure of the collecting itself still walks home once.
AutoReturns(recoverable) ==
  /\ recoverable /\ task.collect /\ ~task.auto
  /\ phase \in {"searching", "harvesting"}
  /\ Check /\ record.pending

Fail(recoverable) ==
  IF AutoReturns(recoverable)
  THEN /\ phase' = "returning"
       /\ task' = [task EXCEPT !.at = "returning", !.auto = TRUE, !.logs = 0]
       /\ answer' = "none"
       /\ UNCHANGED <<watched, requests, drops>>
  ELSE /\ phase' = "blocked"
       /\ Finish

Saved(step) == disk' = record /\ Goto(step)

-----------------------------------------------------------------------------
(* Start of the process, and the chat commands of handleChat               *)

Load ==
  /\ status = "loading"
  /\ \/ /\ status' = "ready" /\ record' = disk
        /\ phase' = IF disk.pending THEN "blocked" ELSE phase
     \/ /\ status' = "error" /\ UNCHANGED <<record, phase>>
  /\ UNCHANGED <<disk, busy, stopped, interrupted, task, prior, online, server, cargo, startStock>>

Stop ==
  /\ status = "ready" /\ online /\ ~stopped
  /\ stopped' = TRUE
  /\ UNCHANGED <<disk, record, status, busy, phase, interrupted, task, prior, online, server, cargo, startStock>>

Accepts == status = "ready" /\ ~busy /\ online

Base ==
  /\ Accepts /\ ~record.pending
  /\ busy' = TRUE /\ prior' = record
  /\ record' = [registered |-> TRUE, pending |-> FALSE, baseline |-> Nothing, job |-> 0]
  /\ Goto("savingBase")
  /\ UNCHANGED <<disk, status, phase, stopped, interrupted, online, server, cargo, startStock>>

BaseEnds ==
  /\ At("savingBase")
  /\ \/ disk' = record /\ UNCHANGED record
     \/ record' = prior /\ UNCHANGED disk
  /\ busy' = FALSE /\ prior' = NoRecord /\ task' = NoTask
  /\ UNCHANGED <<status, phase, stopped, interrupted, online, server, cargo, startStock>>

Reset ==
  /\ Accepts /\ record.registered
  /\ busy' = TRUE
  /\ record' = [record EXCEPT !.pending = FALSE, !.baseline = Nothing]
  /\ Goto("savingReset")
  /\ UNCHANGED <<disk, status, phase, stopped, interrupted, prior, online, server, cargo, startStock>>

ResetEnds ==
  /\ At("savingReset")
  /\ \/ disk' = record /\ phase' = "idle" /\ owed' = Nothing /\ UNCHANGED status
     \/ status' = "error" /\ UNCHANGED <<disk, phase, owed>>
  /\ busy' = FALSE /\ task' = NoTask
  /\ UNCHANGED <<record, stopped, interrupted, prior, online, server, carried, room, drops, startStock>>

Begin(collect, step) ==
  /\ Accepts /\ record.registered
  /\ busy' = TRUE /\ stopped' = FALSE /\ interrupted' = FALSE
  /\ task' = [NoTask EXCEPT !.at = step, !.collect = collect,
                            !.targets = Targets, !.wanted = Amount]
  /\ UNCHANGED <<disk, record, status, prior, online, server, cargo, startStock>>

Collect == ~record.pending /\ Begin(TRUE, "previewing") /\ UNCHANGED phase
Return  == record.pending /\ Begin(FALSE, "returning") /\ phase' = "returning"

-----------------------------------------------------------------------------
(* run(): putting the job on record, and the search                        *)

PreviewOk ==
  /\ At("previewing") /\ Check /\ room > 0
  /\ NextJob <= Jobs
  /\ record' = [registered |-> TRUE, pending |-> TRUE, baseline |-> carried, job |-> NextJob]
  /\ startStock' = [startStock EXCEPT ![NextJob] = carried]
  /\ Goto("savingStart")
  /\ UNCHANGED <<disk, service, prior, online, server, cargo>>

\* A save that succeeds.  Entering the harvest reports it.
Save ==
  /\ \/ At("savingStart")   /\ Saved("searching") /\ UNCHANGED phase
     \/ At("savingTrail")   /\ Saved("looking") /\ UNCHANGED phase
     \/ At("savingTree")    /\ Saved("felling") /\ phase' = "harvesting"
     \/ At("savingPickup")  /\ Saved("looking") /\ UNCHANGED phase
     \/ At("savingDeposit") /\ Saved("depositing") /\ UNCHANGED phase
  /\ UNCHANGED <<record, status, busy, stopped, interrupted, prior, online, server, cargo, startStock>>

SaveEnd ==
  /\ At("savingEnd")
  /\ disk' = record /\ phase' = "idle"
  /\ Finish
  /\ UNCHANGED <<record, status, busy, stopped, interrupted, prior, online, carried, room, owed, startStock>>

\* The steps of the search that change nothing but where run() stands.
Search ==
  /\ \/ /\ At("searching") /\ Check /\ task.targets > 0 /\ task.wanted > 0
        /\ phase' = "searching"
        /\ task' = [task EXCEPT !.at = "walking", !.targets = @ - 1]
     \/ /\ At("searching") /\ Check
        /\ phase' = "returning" /\ Goto("returning")
     \/ /\ At("walking") /\ Check
        /\ UNCHANGED phase
        /\ \E step \in {"savingTrail", "searching"} : Goto(step)
     \/ /\ At("looking")
        /\ UNCHANGED phase
        /\ \/ Goto("searching")
           \/ /\ Check
              /\ \E n \in 1..task.wanted :
                   task' = [task EXCEPT !.at = "approaching", !.logs = n, !.wanted = @ - n]
     \/ /\ At("approaching") /\ Check
        /\ UNCHANGED phase
        /\ Goto("savingTree")
  /\ UNCHANGED <<disk, record, status, busy, stopped, interrupted, prior, online, server, cargo, startStock>>

-----------------------------------------------------------------------------
(* harvest() and pickup()                                                  *)

AskPermit ==
  /\ At("felling") /\ task.logs > 0 /\ Check /\ Len(requests) < Queue
  /\ requests' = Append(requests, "grant") /\ answer' = "none"
  /\ Goto("asking")
  /\ UNCHANGED <<disk, record, service, prior, online, watched, cargo, startStock>>

\* Mutant: no check after the await of the permit.
DigUnchecked ==
  /\ At("asking") /\ answer = "allowed"
  /\ answer' = "none"
  /\ Goto("digging")
  /\ UNCHANGED <<disk, record, service, prior, online, watched, requests, cargo, startStock>>

DigBegins ==
  /\ At("asking") /\ answer = "allowed" /\ Check
  /\ answer' = "none"
  /\ Goto("digging")
  /\ UNCHANGED <<disk, record, service, prior, online, watched, requests, cargo, startStock>>

DigEnds ==
  /\ At("digging") /\ Check
  /\ \E n \in 0..MaxDrops : drops' = drops + n
  /\ task' = [task EXCEPT !.at = "felling", !.logs = @ - 1]
  /\ UNCHANGED <<disk, record, service, prior, online, server, carried, room, owed, startStock>>

Gather ==
  /\ \/ At("felling") /\ task.logs = 0 /\ Goto("gathering")
     \/ At("gathering") /\ Check /\ Goto("savingPickup")
  /\ UNCHANGED <<disk, record, service, prior, online, server, cargo, startStock>>

-----------------------------------------------------------------------------
(* returnAndStore()                                                        *)

ArriveHome ==
  /\ At("returning") /\ Check
  /\ \A k \in Kinds : carried[k] >= record.baseline[k]
  /\ phase' = "depositing"
  /\ Goto("opening")
  /\ UNCHANGED <<disk, record, status, busy, stopped, interrupted, prior, online, server, cargo, startStock>>

ChestOpens ==
  /\ At("opening")
  /\ task' = [task EXCEPT !.at = "depositing", !.todo = Delta]
  /\ UNCHANGED <<disk, record, service, prior, online, server, cargo, startStock>>

DepositBegins ==
  /\ At("depositing") /\ Check
  /\ \E k \in Kinds : /\ task.todo[k] > 0
                      /\ task' = [task EXCEPT !.at = "moving", !.kind = k]
  /\ UNCHANGED <<disk, record, service, prior, online, server, cargo, startStock>>

\* n items of the kind go into the chest; the cargo the job owes goes first.
Moves(n) ==
  LET k == task.kind IN
  /\ n <= room /\ n <= carried[k]
  /\ carried' = [carried EXCEPT ![k] = @ - n]
  /\ owed' = [owed EXCEPT ![k] = @ - Min2(n, @)]
  /\ room' = room - n

DepositEnds ==
  /\ At("moving") /\ online
  /\ Moves(task.todo[task.kind])
  /\ task' = [task EXCEPT !.at = "savingDeposit", !.todo[task.kind] = 0]
  /\ UNCHANGED <<disk, record, service, prior, online, server, drops, startStock>>

\* The chest fills up, the deposit times out, or it is cut short.
DepositFails ==
  /\ At("moving")
  /\ \E n \in 0..task.todo[task.kind] : (n > 0 => online) /\ Moves(n)
  /\ Fail(FALSE)
  /\ UNCHANGED <<disk, record, status, busy, stopped, interrupted, prior, online, startStock>>

\* Mutant: done after the first kind.
FirstStored ==
  /\ At("depositing")
  /\ record' = [record EXCEPT !.pending = FALSE]
  /\ Goto("savingEnd")
  /\ UNCHANGED <<disk, service, prior, online, server, cargo, startStock>>

AllStored ==
  /\ At("depositing") /\ task.todo = Nothing /\ Delta = Nothing
  /\ record' = [record EXCEPT !.pending = FALSE]
  /\ Goto("savingEnd")
  /\ UNCHANGED <<disk, service, prior, online, server, cargo, startStock>>

-----------------------------------------------------------------------------
(* Failures of run(), and its end                                          *)

StepFails ==
  /\ task.at \in Running \ {"moving"}
  /\ \E recoverable \in BOOLEAN : Fail(recoverable /\ task.at \notin {"savingTrail", "savingTree", "savingPickup"})
  /\ UNCHANGED <<disk, record, status, busy, stopped, interrupted, prior, online, carried, room, owed, startStock>>

\* Mutant: finish() without its timeout.
TaskEndsWhenAnswered ==
  /\ At("finishing") /\ requests = <<>>
  /\ busy' = FALSE /\ task' = NoTask
  /\ UNCHANGED <<disk, record, status, phase, stopped, interrupted, prior, online, server, cargo, startStock>>

\* finish() is answered, refused or times out: either way run() is over.
TaskEnds ==
  /\ At("finishing")
  /\ busy' = FALSE /\ task' = NoTask
  /\ UNCHANGED <<disk, record, status, phase, stopped, interrupted, prior, online, server, cargo, startStock>>

-----------------------------------------------------------------------------
(* The server and the world                                                *)

\* Forestry requests are handled one by one, in order, on the main thread.
\* Mutant: handled by the HTTP threads, in any order.
DueInAnyOrder == DOMAIN requests
Due == {i \in DOMAIN requests : i = 1}

HandleRequest(i) ==
  /\ requests' = SubSeq(requests, 1, i - 1) \o SubSeq(requests, i + 1, Len(requests))
  /\ watched' = IF online THEN requests[i] = "grant" ELSE watched
  /\ IF requests[i] = "grant" /\ At("asking") /\ i = Len(requests)
     THEN answer' \in IF online THEN {"allowed", "denied"} ELSE {"denied"}
     ELSE UNCHANGED answer
  /\ UNCHANGED <<disk, record, service, task, prior, online, cargo, startStock>>

\* The bot walks over an item that a felled log left (one that died respawns elsewhere).
PickUp ==
  /\ drops > 0 /\ Valid /\ task.at \in Harvesting \cup Searching \cup {"returning"}
  /\ \E k \in Kinds :
       /\ carried[k] < MaxCarry
       /\ carried' = [carried EXCEPT ![k] = @ + 1]
       /\ owed' = [owed EXCEPT ![k] = @ + 1]
  /\ drops' = drops - 1
  /\ UNCHANGED <<disk, record, service, task, prior, online, server, room, startStock>>

\* Between two runs other commands of the bot gain and use up the same items.
OtherWork ==
  /\ ~busy /\ online
  /\ \E k \in Kinds :
       \/ /\ carried[k] < MaxCarry
          /\ carried' = [carried EXCEPT ![k] = @ + 1] /\ UNCHANGED owed
       \/ /\ carried[k] > 0
          /\ carried' = [carried EXCEPT ![k] = @ - 1]
          /\ owed' = [owed EXCEPT ![k] = @ - Min2(1, @)]
  /\ UNCHANGED <<disk, record, service, task, prior, online, server, room, drops, startStock>>

Interrupt == interrupted' = (interrupted \/ task.at \in Running)

Die ==
  /\ online /\ carried # Nothing
  /\ carried' = Nothing /\ owed' = Nothing
  /\ Interrupt
  /\ UNCHANGED <<disk, record, status, busy, phase, stopped, task, prior, online, server, room, drops, startStock>>

Disconnect ==
  /\ online
  /\ online' = FALSE /\ watched' = FALSE
  /\ Interrupt
  /\ UNCHANGED <<disk, record, status, busy, phase, stopped, task, prior, requests, answer, cargo, startStock>>

Connect ==
  /\ ~online /\ online' = TRUE
  /\ UNCHANGED <<disk, record, service, task, prior, server, cargo, startStock>>

\* The Node process dies: everything but the file, the server and the items is gone.
Crash ==
  /\ status # "loading"
  /\ status' = "loading" /\ phase' = "idle"
  /\ busy' = FALSE /\ stopped' = FALSE /\ interrupted' = FALSE
  /\ record' = NoRecord /\ prior' = NoRecord /\ task' = NoTask
  /\ online' = FALSE /\ watched' = FALSE /\ answer' = "none" /\ drops' = 0
  /\ UNCHANGED <<disk, requests, carried, room, owed, startStock>>

-----------------------------------------------------------------------------
Handlers == Stop \/ Base \/ Reset \/ Collect \/ Return

TaskStep ==
  \/ BaseEnds \/ ResetEnds \/ PreviewOk \/ Save \/ SaveEnd \/ Search
  \/ AskPermit \/ DigBegins \/ DigEnds \/ Gather
  \/ ArriveHome \/ ChestOpens \/ DepositBegins \/ DepositEnds \/ DepositFails \/ AllStored
  \/ StepFails \/ TaskEnds

World ==
  \/ \E i \in Due : HandleRequest(i)
  \/ PickUp \/ OtherWork \/ Die \/ Disconnect \/ Connect \/ Crash

Next == Load \/ Handlers \/ TaskStep \/ World

Spec == Init /\ [][Next]_vars

\* The awaits of run() are bounded by timeouts, so a step is always taken.
FairSpec == Spec /\ WF_vars(TaskStep)

-----------------------------------------------------------------------------
(* Properties                                                              *)

(* Cargo the job has gathered is on the record that survives a crash: the  *)
(* state file says pending, with a stock below which the cargo lies, so    *)
(* `!wood return` stores it (forestry.ts 185, 263-284).                    *)
CargoOnRecord ==
  \A k \in Kinds : owed[k] > 0 => disk.pending /\ disk.baseline[k] + owed[k] <= carried[k]

(* A dig of the run is always under the server's guard: no request of an   *)
(* earlier run, answered late, lifts it (forestry.ts 224, 241-243).        *)
DigGuarded == At("digging") /\ ~interrupted => watched

(* A deposit leaves the bot what it carried when the job on record began,  *)
(* over stops, crashes and repeated returns (forestry.ts 265, 273-278).    *)
StockKept ==
  [][room' < room /\ task.kind \in Kinds =>
       carried'[task.kind] >= startStock[record.job][task.kind]]_vars

(* After !wood stop no dig and no deposit begins any more, whatever answer *)
(* was on its way (forestry.ts 108, 122, 241, 274).  A deposit that was    *)
(* under way at the stop may still move items.                             *)
StopHolds ==
  [][task'.at # task.at /\ task'.at \in {"digging", "moving"} => ~stopped /\ ~interrupted]_vars

(* A run ends, whatever fails: the bot does not stay busy for ever         *)
(* (forestry.ts 159, 213-225).                                             *)
WorkEnds == busy ~> ~busy
=============================================================================
