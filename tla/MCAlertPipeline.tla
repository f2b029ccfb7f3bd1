--------------------------- MODULE MCAlertPipeline ---------------------------
(* Instances of AlertPipeline and of its guard alone, named by part.       *)
(* Part "alerts": two callers bring an ENTRY and an EXIT of both symbols,  *)
(* and an ADJUSTMENT that closes x1 and opens x2.  Part "guard": any calls *)
(* of the guard by s1, which trades x1 and x2, and s2, which trades x1,    *)
(* with any positions of these symbols in the maps.  Part "blind": the     *)
(* same calls on a second guard, whose maps are all empty.                 *)
EXTENDS AlertPipeline, MCExecutionGuard

CONSTANTS
  MaxTotal,                            \* bound on the totals of part "guard"
  BlindSymbols, BlindTraded, BlindQty  \* of the guard of part "blind"

ASSUME BlindAssumption ==
  /\ IsFiniteSet(Strategies) /\ BlindQty \in Nat
  /\ BlindTraded \in [Strategies -> SUBSET BlindSymbols]

VARIABLES part, positions, keys, totals

other == <<positions, keys, totals>>

TheAlerts == {
  [type |-> "ENTRY", legs |-> [x \in {x1, x2} |-> [direction |-> "SELL", qty |-> 2]]],
  [type |-> "EXIT", legs |-> [x \in {x1, x2} |-> [direction |-> "BUY", qty |-> 1]]],
  [type |-> "ADJUSTMENT", legs |-> [x \in {x1, x2} |->
      [direction |-> IF x = x1 THEN "BUY" ELSE "SELL", qty |-> 1]]]}

Blind == INSTANCE MCExecutionGuard WITH
  Symbols <- BlindSymbols, MaxQty <- BlindQty,
  Traded <- BlindTraded, Seen <- [s \in Strategies |-> {}],
  strategyPositions <- positions, globalKeys <- keys, globalQty <- totals

MInit == part \in {"alerts", "guard", "blind"} /\ PipeInit /\ Blind!Init

MNext ==
  /\ part' = part
  /\ \/ part = "alerts" /\ PipeNext /\ UNCHANGED other
     \/ /\ part = "guard" /\ Next /\ UNCHANGED <<pipeVars, other>>
        /\ \A sym \in Symbols : \A d \in Directions : globalQty'[sym][d] <= MaxTotal
     \/ part = "blind" /\ Blind!Next /\ UNCHANGED <<vars, pipeVars>>

MSpec == MInit /\ [][MNext]_<<part, vars, pipeVars, other>> /\ PipeFairness

(* EveryAlertAnswered, of one of the callers, which are interchangeable.   *)
OneCallerAnswered == AlertAnswered("c1")

(* What AcceptsNoConflict says, of the second guard.                       *)
NoConflictUnseen == [][part = "blind" => Blind!AcceptsNoConflict]_<<part, other>>
=============================================================================
