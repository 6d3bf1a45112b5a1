---------------------------- MODULE ForestryGuard ----------------------------
(***************************************************************************)
(* The server side of wood collection: ForestryGuard.java and its          *)
(* NaturalWoodLedger.  The guard remembers which logs it saw grow, forgets *)
(* them when anything is changed near by, hands a bot a permit for one     *)
(* log, and cancels every other break of a guarded bot.                    *)
(*                                                                         *)
(* Events and HTTP checks run one after the other on Paper's main thread,  *)
(* so each is one action; what interleaves is their order, and the growth  *)
(* that is recorded one tick after its event.                              *)
(*                                                                         *)
(* A tree is a place where one grows, its logs numbered from the ground.   *)
(* Range, reach, ground, leaves, protected regions and unloaded chunks are *)
(* reasons why a check may deny at any time.  Changes that fire none of    *)
(* the watched events are left out, but for fire.                          *)
(***************************************************************************)
EXTENDS Integers, FiniteSets

CONSTANTS Trees,      \* places where a tree grows
          Near,       \* the trees within invalidateNear's reach of a tree
          Height,     \* logs of a tree
          Bots,       \* players that run wood collection
          MaxChanges  \* how often mutationVersion changes (a bound of the model)

ASSUME ForestryAssumption ==
  /\ Height \in Nat \ {0} /\ MaxChanges \in Nat
  /\ Near \in [Trees -> SUBSET Trees]
  /\ \A t \in Trees : t \in Near[t]

VARIABLES
  block,    \* what stands in the cells of each tree: a log that grew, one that was placed, or none
  beside,   \* whether something built stands close to the tree
  ledger,   \* NaturalWoodLedger.trees: the logs of each tree on record
  pending,  \* growth events whose task runs at the next tick, with the version they saw
  version,  \* mutationVersion
  guarded,  \* guardedBots
  permits   \* permits

world == <<block, beside>>
guardVars  == <<world, ledger, pending, version, guarded, permits>>

Logs == 1..Height
NoPermit == [tree |-> "none", log |-> 0, fresh |-> FALSE]

GuardTypeOK ==
  /\ block \in [Trees -> [Logs -> {"air", "grown", "placed"}]]
  /\ beside \in [Trees -> BOOLEAN]
  /\ ledger \in [Trees -> SUBSET Logs]
  /\ pending \subseteq [tree : Trees, version : 0..MaxChanges]
  /\ version \in 0..MaxChanges
  /\ guarded \subseteq Bots
  /\ permits \in [Bots -> [tree : Trees, log : Logs, fresh : BOOLEAN] \cup {NoPermit}]
  /\ \A b \in Bots : permits[b] # NoPermit => b \in guarded

GuardInit ==
  /\ block = [t \in Trees |-> [i \in Logs |-> "air"]]
  /\ beside \in [Trees -> BOOLEAN]
  /\ ledger = [t \in Trees |-> {}]
  /\ pending = {} /\ version = 0
  /\ guarded = {}
  /\ permits = [b \in Bots |-> NoPermit]

-----------------------------------------------------------------------------
(* Growth                                                                  *)

Grow(t) ==
  /\ \A i \in Logs : block[t][i] = "air"
  /\ block' = [block EXCEPT ![t] = [i \in Logs |-> "grown"]]
  /\ pending' = pending \cup {[tree |-> t, version |-> version]}
  /\ UNCHANGED <<beside, ledger, version, guarded, permits>>

\* A growth another plugin cancels after the handler saw it.
GrowCancelled(t) ==
  /\ \A i \in Logs : block[t][i] = "air"
  /\ pending' = pending \cup {[tree |-> t, version |-> version]}
  /\ UNCHANGED <<world, ledger, version, guarded, permits>>

Standing(t) == \A i \in Logs : block[t][i] # "air"

\* Mutant: whatever stands there at the next tick is recorded.
ConfirmedLate(g) == Standing(g.tree)
Confirmed(g) == g.version = version /\ Standing(g.tree)

NextTick(g) ==
  /\ pending' = pending \ {g}
  /\ ledger' = IF Confirmed(g) THEN [ledger EXCEPT ![g.tree] = Logs] ELSE ledger
  /\ UNCHANGED <<world, version, guarded, permits>>

-----------------------------------------------------------------------------
(* Changes of the world that the guard watches                             *)

InvalidateNear(t) == ledger' = [u \in Trees |-> IF u \in Near[t] THEN {} ELSE ledger[u]]

Changed(t) ==
  /\ version < MaxChanges /\ version' = version + 1
  /\ InvalidateNear(t)
  /\ UNCHANGED <<pending, guarded, permits>>

Place(t) ==
  /\ \/ \E i \in Logs : /\ block[t][i] = "air"
                        /\ block' = [block EXCEPT ![t][i] = "placed"]
                        /\ UNCHANGED beside
     \/ \E u \in Near[t] : /\ ~beside[u]
                           /\ beside' = [beside EXCEPT ![u] = TRUE]
                           /\ UNCHANGED block
  /\ Changed(t)

\* A piston pushes a log out of its cell, or another block into it.
Piston(t) ==
  /\ \E i \in Logs, b \in {"air", "placed"} :
       /\ block[t][i] # b
       /\ block' = [block EXCEPT ![t][i] = b]
  /\ UNCHANGED beside
  /\ Changed(t)

Explode(t) ==
  /\ \E gone \in SUBSET Logs \ {{}} :
       block' = [block EXCEPT ![t] = [i \in Logs |-> IF i \in gone THEN "air" ELSE @[i]]]
  /\ beside' \in {beside, [beside EXCEPT ![t] = FALSE]}
  /\ Changed(t)

\* A break by a player, or by a bot the guard does not watch.
BreakUnguarded(t) ==
  /\ \/ \E i \in Logs : /\ block[t][i] # "air"
                        /\ block' = [block EXCEPT ![t][i] = "air"]
                        /\ UNCHANGED beside
     \/ beside[t] /\ beside' = [beside EXCEPT ![t] = FALSE] /\ UNCHANGED block
  /\ Changed(t)

\* Fire takes a log without any event the guard listens to.
Burn(t, i) ==
  /\ block[t][i] # "air"
  /\ block' = [block EXCEPT ![t][i] = "air"]
  /\ UNCHANGED <<beside, ledger, pending, version, guarded, permits>>

-----------------------------------------------------------------------------
(* Checks, permits and the breaks of a guarded bot                         *)

\* Every log on record stands, nothing else does, and nothing is built close by.
Allowed(t, i) ==
  /\ i \in ledger[t]
  /\ \A j \in Logs : j \in ledger[t] <=> block[t][j] # "air"
  /\ ~beside[t]

IsTop(t, i) == \A j \in ledger[t] : j <= i

Grant(b, t, i) ==
  /\ guarded' = guarded \cup {b}
  /\ \/ /\ Allowed(t, i) /\ IsTop(t, i)
        /\ permits' = [permits EXCEPT ![b] = [tree |-> t, log |-> i, fresh |-> TRUE]]
     \/ UNCHANGED permits
  /\ UNCHANGED <<world, ledger, pending, version>>

Expire(b) ==
  /\ permits[b] # NoPermit /\ permits[b].fresh
  /\ permits' = [permits EXCEPT ![b].fresh = FALSE]
  /\ UNCHANGED <<world, ledger, pending, version, guarded>>

\* Mutant: the permit alone decides, the tree is not inspected again.
PermitOnly(b, t, i) == permits[b] = [tree |-> t, log |-> i, fresh |-> TRUE]
MayBreak(b, t, i) ==
  /\ permits[b] = [tree |-> t, log |-> i, fresh |-> TRUE]
  /\ Allowed(t, i)

Break(b, t, i) ==
  /\ b \in guarded /\ block[t][i] # "air"
  /\ permits' = [permits EXCEPT ![b] = NoPermit]
  /\ \/ /\ MayBreak(b, t, i)
        /\ version < MaxChanges /\ version' = version + 1
        /\ block' = [block EXCEPT ![t][i] = "air"]
        /\ ledger' = [ledger EXCEPT ![t] = @ \ {i}]
     \/ UNCHANGED <<block, ledger, version>>
  /\ UNCHANGED <<beside, pending, guarded>>

\* The release request, and PlayerQuitEvent.
Release(b) ==
  /\ guarded' = guarded \ {b}
  /\ permits' = [permits EXCEPT ![b] = NoPermit]
  /\ UNCHANGED <<world, ledger, pending, version>>

\* The server restarts: blocks stay, everything the guard knows is gone.
Restart ==
  /\ ledger' = [t \in Trees |-> {}] /\ pending' = {} /\ version' = 0
  /\ guarded' = {} /\ permits' = [b \in Bots |-> NoPermit]
  /\ UNCHANGED world

-----------------------------------------------------------------------------
GuardNext ==
  \/ \E t \in Trees : Grow(t) \/ GrowCancelled(t) \/ Place(t) \/ Piston(t) \/ Explode(t) \/ BreakUnguarded(t)
  \/ \E t \in Trees, i \in Logs : Burn(t, i)
  \/ \E g \in pending : NextTick(g)
  \/ \E b \in Bots, t \in Trees, i \in Logs : Grant(b, t, i) \/ Break(b, t, i)
  \/ \E b \in Bots : Expire(b) \/ Release(b)
  \/ Restart

GuardSpec == GuardInit /\ [][GuardNext]_guardVars

-----------------------------------------------------------------------------
(* Properties                                                              *)

(* Only logs that grew and that nobody changed since are on record, though *)
(* the record is written a tick after the growth (ForestryGuard.java       *)
(* 36-46): such a log stands, or fire took it.                             *)
LedgerNatural == \A t \in Trees : \A i \in ledger[t] : block[t][i] \in {"grown", "air"}

(* A log a guarded bot really breaks grew by itself and has nothing built  *)
(* beside it at that moment, whatever happened after the permit was given  *)
(* (ForestryGuard.java 57-62).                                             *)
Breaks(b, t, i) ==
  permits[b] # NoPermit /\ permits'[b] = NoPermit /\ block[t][i] # "air" /\ block'[t][i] = "air"

FellsNatural ==
  [][\A b \in guarded, t \in Trees, i \in Logs :
       Breaks(b, t, i) => block[t][i] = "grown" /\ ~beside[t]]_guardVars

=============================================================================
