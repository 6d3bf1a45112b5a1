-------------------------- MODULE ForestryGuardMC --------------------------
(* Every tree of the instance is within reach of the others.               *)
EXTENDS ForestryGuard
Neighbours == [t \in Trees |-> Trees]
=============================================================================
