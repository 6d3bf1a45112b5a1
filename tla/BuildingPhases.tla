--------------------------- MODULE BuildingPhases ----------------------------
(***************************************************************************)
(* The checkpoint of a building job.  Every building step of a plan        *)
(* restores the checkpoint from the memory, computes the shortage, the     *)
(* next batch of blocks and the next phase from it, and saves it again     *)
(* (BuildingPlanProcessor.process, python/services/building_service.py).   *)
(* rollback_building_state takes a failing job one phase back.             *)
(*                                                                         *)
(* What the survey finds, the inventory and the work on a batch are other  *)
(* parts' (today only the tests supply them): FindLayout, CountMaterials,  *)
(* Gather and Spend.  The layout and the requirements are two entries of   *)
(* the memory, each read with a default: either may come late or never.    *)
(* A layout is the sequence 1..layout of its blocks; entries that cannot   *)
(* be read as a block are not part of it.                                  *)
(***************************************************************************)
EXTENDS Integers, FiniteSets

CONSTANTS Materials,    \* the names of the materials
          Total,        \* bound: the blocks of a layout
          Batch,        \* batch_size, 5 in the code
          Most,         \* bound: the most of a material that is required
          MaxRollbacks, \* bound
          MaxSpends     \* bound: the units taken out of the inventory

ASSUME SizesArePositive == {Total, Batch, Most} \subseteq Nat \ {0}
ASSUME BoundsAreCounts  == {MaxRollbacks, MaxSpends} \subseteq Nat

VARIABLES phase, reserved, placed, \* the checkpoint
          layout,                  \* the blocks of building_layout, 0 without one
          required,                \* building_material_requirements
          counted,                 \* the last building step saw these requirements
          inventory,               \* inventory_summary
          gathered,                \* what was ever in the inventory
          built,                   \* blocks handed out, and not taken back
          rollbacks, spends

checkpoint == <<phase, reserved, placed>>
survey == <<layout, required>>
vars == <<checkpoint, survey, counted, inventory, gathered, built, rollbacks, spends>>

-----------------------------------------------------------------------------
Order(p) == CASE p = "survey"      -> 0 [] p = "procurement" -> 1
              [] p = "placement"   -> 2 [] p = "inspection"  -> 3

Phases  == {"survey", "procurement", "placement", "inspection"}
Amounts == [Materials -> 0..Most]
None    == [x \in Materials |-> 0]

Least(a, b) == IF a <= b THEN a ELSE b

(* What _normalize_layout may leave of an entry: nothing, or blocks.       *)
Layouts == 0..Total

(* The materials of which inventory and reservation do not make the amount *)
(* that is required: plan_material_procurement.                            *)
Missing == {x \in Materials : inventory[x] + reserved[x] < required[x]}

(* Where the next batch ends; it starts after the placed blocks.           *)
BatchEnd  == Least(Least(placed, layout) + Batch, layout)
NextBatch == {i \in 1..BatchEnd : i > placed}

(* Mutation.  Placed blocks are counted only in the phase for it.          *)
PlacedNextLate(next) == IF next = "placement" THEN BatchEnd ELSE placed

PhaseNext ==
    CASE Missing # {}                     -> "procurement"
      [] Missing = {} /\ NextBatch # {}   -> "placement"
      [] Missing = {} /\ NextBatch = {}   ->
            IF (layout > 0 /\ BatchEnd >= layout) \/ phase = "inspection"
            THEN "inspection" ELSE "survey"

PlacedNext(next) == IF NextBatch # {} THEN BatchEnd
                    ELSE IF next = "inspection" THEN layout
                    ELSE placed

(* Mutation.  Only what is at hand is reserved.                            *)
ReservedNextFresh == [x \in Materials |-> Least(required[x], inventory[x])]

(* _synchronize_reserved_materials                                         *)
ReservedNext == [x \in Materials |-> Least(required[x], reserved[x] + inventory[x])]

Init ==
    /\ phase = "survey" /\ reserved = None /\ placed = 0
    /\ layout = 0 /\ required = None /\ counted = TRUE
    /\ inventory = None /\ gathered = None
    /\ built = {} /\ rollbacks = 0 /\ spends = 0

(* The blocks become known once.                                           *)
FindLayout ==
    /\ layout = 0
    /\ layout' \in Layouts \ {0}
    /\ UNCHANGED <<checkpoint, required, counted, inventory, gathered, built,
                   rollbacks, spends>>

(* The requirements are set, or corrected, at any time.                    *)
CountMaterials ==
    /\ required' \in Amounts \ {required}
    /\ counted' = FALSE
    /\ UNCHANGED <<checkpoint, layout, inventory, gathered, built, rollbacks, spends>>

Process ==
    /\ phase' = PhaseNext
    /\ placed' = PlacedNext(PhaseNext)
    /\ reserved' = ReservedNext
    /\ built' = built \cup NextBatch
    /\ counted' = TRUE
    /\ UNCHANGED <<survey, inventory, gathered, rollbacks, spends>>

(* The count after a rollback of the last `tried` blocks: placements_reverted. *)
KeptCount(back, tried) == IF back = "survey" THEN 0
                          ELSE IF placed > tried THEN placed - tried ELSE 0

PhaseBefore(p) == CHOOSE q \in Phases :
                      Order(q) = IF Order(p) = 0 THEN 0 ELSE Order(p) - 1

(* The phase `failed` failed with the last `tried` blocks of the count     *)
(* attempted.                                                              *)
Rollback(failed, tried) ==
    /\ rollbacks < MaxRollbacks
    /\ phase' = PhaseBefore(failed)
    /\ placed' = KeptCount(phase', tried)
    /\ reserved' = IF phase' = "survey" THEN None ELSE reserved
    /\ built' = IF phase' = "survey" THEN {} ELSE {i \in built : i <= placed - tried}
    /\ rollbacks' = rollbacks + 1
    /\ UNCHANGED <<survey, counted, inventory, gathered, spends>>

Gather(x) ==
    /\ gathered[x] < Most + MaxSpends
    /\ inventory' = [inventory EXCEPT ![x] = @ + 1]
    /\ gathered' = [gathered EXCEPT ![x] = @ + 1]
    /\ UNCHANGED <<checkpoint, survey, counted, built, rollbacks, spends>>

Spend(x) ==
    /\ spends < MaxSpends
    /\ inventory[x] > 0
    /\ inventory' = [inventory EXCEPT ![x] = @ - 1]
    /\ spends' = spends + 1
    /\ UNCHANGED <<checkpoint, survey, counted, gathered, built, rollbacks>>

(* docs/building_state_machine.md: the phase that fails is the current one.*)
Fails == \E tried \in 0..Batch : Rollback(phase, tried)

Next ==
    \/ FindLayout \/ CountMaterials \/ Process \/ Fails
    \/ \E x \in Materials : Gather(x) \/ Spend(x)

Spec == Init /\ [][Next]_vars

-----------------------------------------------------------------------------
(* The checkpoint is one that restore_checkpoint takes as it is.           *)
TypeOK ==
    /\ phase \in Phases /\ placed \in 0..Total
    /\ reserved \in Amounts /\ required \in Amounts
    /\ inventory \in [Materials -> 0..(Most + MaxSpends)]
    /\ gathered \in [Materials -> 0..(Most + MaxSpends)]
    /\ layout \in Layouts /\ counted \in BOOLEAN /\ built \subseteq 1..Total
    /\ rollbacks \in 0..MaxRollbacks /\ spends \in 0..MaxSpends

(* However batches, shortages and rollbacks follow each other, the blocks  *)
(* handed out and not taken back are the first of the layout, as many as   *)
(* the checkpoint counts: none is skipped and none is forgotten            *)
(* (plan_block_placement and rollback_building_state).                     *)
CountIsTrue == built = 1..placed

(* A building is inspected only when all of it was handed out              *)
(* (transition_phase).                                                     *)
InspectsAll == phase = "inspection" => layout > 0 /\ built = 1..layout

(* A building step takes a job back in two cases only, whatever leaves the *)
(* inventory meanwhile: from procurement to the survey while there is no   *)
(* layout, and to procurement when the requirements were changed after the *)
(* step before.  Any other way back is a rollback (transition_phase,       *)
(* _synchronize_reserved_materials).                                       *)
NoWayBack ==
    [][Order(phase') < Order(phase) =>
         \/ rollbacks' # rollbacks
         \/ phase = "procurement" /\ phase' = "survey" /\ layout = 0
         \/ phase' = "procurement" /\ ~counted]_vars

=============================================================================
