-------------------------- MODULE MCOrderLifecycle --------------------------
(* Instances of OrderLifecycle.  Two entries compete for one strategy and  *)
(* symbol; the exits are on a symbol of their own.                         *)
EXTENDS OrderRefinement

CONSTANTS e1, e2, x1

SlotOf == [o \in Orders |-> IF o \in Entries THEN "entry" ELSE "exit"]

(* Room for every attempt of every command. *)
Room == MaxAttempts * Cardinality(Orders)
=============================================================================
