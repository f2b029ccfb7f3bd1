---------------------------- MODULE MCRiskManager ----------------------------
(* Instances of RiskManager: a Friday, the Monday and the Tuesday after it, *)
(* losses that breach the limit and a profit that trails it.                *)
EXTENDS RiskManager

FridayToTuesday == {4, 7, 8}
LimitIs2 == -2
LossOrProfit == {-2, 0, 2}
=============================================================================
