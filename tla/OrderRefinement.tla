--------------------------- MODULE OrderRefinement ---------------------------
(* OrderLifecycle implements OrderContract: the view of a strategy on the  *)
(* orders table, the broker's book and the callbacks.                      *)
EXTENDS OrderLifecycle

(* The numbers under which the broker acknowledged the command. *)
Acknowledged(o) == {id \in BrokerIds : book[id].cmd = o /\ book[id].acked}

EndedAs(o, s) == \E id \in Acknowledged(o) : book[id].state = s

Outcome(o) ==
  IF EndedAs(o, "COMPLETE") THEN "filled"
  ELSE IF EndedAs(o, "REJECTED") THEN "closed" ELSE "none"

(* The contract is kept for the commands whose record is marked before     *)
(* they leave; of the others it sees nothing.                              *)
Contract == INSTANCE OrderContract WITH
  accepted <- [o \in Orders |-> IF o \in unmarked THEN {} ELSE Acknowledged(o)],
  outcome <- [o \in Orders |-> IF o \in unmarked THEN "none" ELSE Outcome(o)],
  told <- [o \in Orders |-> IF o \in unmarked THEN 0 ELSE fills[o]]

(* Every behaviour of the order lifecycle, with its crashes, retries,      *)
(* cancels, late answers and failing writes, looks to a strategy like one  *)
(* of the contract.                                                        *)
KeepsContract == Contract!Spec
=============================================================================
