--------------------------- MODULE MCPositionExits ---------------------------
(* Instances of PositionExits: one managed exit, and a control intent that *)
(* asks for the exit of the same strategy.                                 *)
EXTENDS PositionExits

CONSTANTS m1, r1

OneStrategy == [s \in Sources |-> "strategy"]
=============================================================================
