--------------------------- MODULE ExecutionGuard ---------------------------
(***************************************************************************)
(* The defensive execution layer every order batch passes before it is     *)
(* routed: ExecutionGuard of execution/execution_guard.py.  It keeps, per  *)
(* strategy, the positions the strategy is believed to hold and, per       *)
(* symbol and direction, a running total over all strategies that the      *)
(* cross-strategy rule reads.                                              *)
(*                                                                         *)
(* Every public method holds the one lock of the object for its whole      *)
(* body, so each is one action here.  An EXIT batch and every blocked      *)
(* batch leave the tables alone and are stuttering steps.                  *)
(*                                                                         *)
(* Simplification: the legs of one batch are on different symbols.         *)
(***************************************************************************)
EXTENDS Integers, FiniteSets

CONSTANTS
  Strategies,  \* strategy ids that call the guard
  Symbols,     \* trading symbols
  MaxQty,      \* bound on the quantities of legs and broker positions
  Traded,      \* Traded[s]: symbols the legs of strategy s are on
  Seen         \* Seen[s]: symbols that can be in the broker map passed for s

ASSUME GuardAssumption ==
  /\ MaxQty \in Nat \ {0}
  /\ Traded \in [Strategies -> SUBSET Symbols]
  /\ Seen \in [Strategies -> SUBSET Symbols]

VARIABLES
  strategyPositions,  \* strategy -> symbol -> Position or NoPosition
  globalKeys,         \* symbol -> directions that are keys of the total
  globalQty           \* symbol -> direction -> total (0 where no key)

vars == <<strategyPositions, globalKeys, globalQty>>

-----------------------------------------------------------------------------
Directions == {"BUY", "SELL"}

Position == [direction : Directions, qty : Nat \ {0}]

(* A symbol that is not in the strategy's dictionary. *)
NoPosition == [direction |-> "NONE", qty |-> 0]

(* What a caller passes as legs (one per symbol) and as broker positions.  *)
Batches(s) ==
  UNION {[legs -> [direction : Directions, qty : 0 .. MaxQty]] :
           legs \in (SUBSET Traded[s]) \ {{}}}

BrokerMaps(s) ==
  {m \in [Symbols -> [Directions -> 0 .. MaxQty]] :
     \A sym \in Symbols \ Seen[s] : \A d \in Directions : m[sym][d] = 0}

-----------------------------------------------------------------------------
Holds(s, sym) == strategyPositions[s][sym] # NoPosition

HasStrategy(s) == \E sym \in Symbols : Holds(s, sym)

Held(s) == {sym \in Symbols : Holds(s, sym)}

Delta(s, batch, sym) == batch[sym].qty - strategyPositions[s][sym].qty

(* _validate_structure *)
WellFormed(batch) == \A sym \in DOMAIN batch : batch[sym].qty > 0

(* Mutation: a total of one lot is taken for an empty one. *)
NoConflictOffByOne(batch) ==
  \A sym \in DOMAIN batch : \A d \in globalKeys[sym] :
     d # batch[sym].direction => globalQty[sym][d] <= 1

(* _check_cross_strategy_conflicts: it looks at the totals of the opposite *)
(* direction, whoever they belong to.                                      *)
NoConflict(batch) ==
  \A sym \in DOMAIN batch : \A d \in globalKeys[sym] :
     d # batch[sym].direction => globalQty[sym][d] <= 0

SameDirection(s, batch) ==
  \A sym \in DOMAIN batch :
     Holds(s, sym) => strategyPositions[s][sym].direction = batch[sym].direction

NoReduction(s, batch) == \A sym \in DOMAIN batch : Delta(s, batch, sym) >= 0

(* Either every leg has something to send or none has. *)
AllOrNothing(s, batch) ==
  \/ \A sym \in DOMAIN batch : Delta(s, batch, sym) > 0
  \/ \A sym \in DOMAIN batch : Delta(s, batch, sym) = 0

(* The quantities the caller goes on to send. *)
Approved(s, batch) ==
  [sym \in {x \in DOMAIN batch : Delta(s, batch, x) > 0} |-> Delta(s, batch, sym)]

Init ==
  /\ strategyPositions = [s \in Strategies |-> [sym \in Symbols |-> NoPosition]]
  /\ globalKeys = [sym \in Symbols |-> {}]
  /\ globalQty = [sym \in Symbols |-> [d \in Directions |-> 0]]

(* validate_and_prepare for an ENTRY or ADJUST batch that is not blocked. *)
Accept(s, batch) ==
  /\ WellFormed(batch)
  /\ NoConflict(batch)
  /\ SameDirection(s, batch)
  /\ NoReduction(s, batch)
  /\ AllOrNothing(s, batch)
  /\ strategyPositions' =
       [strategyPositions EXCEPT ![s] =
          [sym \in Symbols |-> IF sym \in DOMAIN batch THEN batch[sym] ELSE @[sym]]]
  /\ globalKeys' =
       [sym \in Symbols |->
          IF sym \in DOMAIN Approved(s, batch)
            THEN globalKeys[sym] \union {batch[sym].direction}
            ELSE globalKeys[sym]]
  /\ globalQty' =
       [sym \in Symbols |-> [d \in Directions |->
          IF sym \in DOMAIN Approved(s, batch) /\ d = batch[sym].direction
            THEN globalQty[sym][d] + Approved(s, batch)[sym]
            ELSE globalQty[sym][d]]]

Entry(s, batch) == ~HasStrategy(s) /\ Accept(s, batch)

Adjust(s, batch) == Accept(s, batch)

-----------------------------------------------------------------------------
(* Removal of the positions of s on the symbols of gone: the total of the  *)
(* position's direction, where it is a key, loses the quantity, and the    *)
(* key goes when nothing is left.                                          *)
Remaining(s, sym) ==
  globalQty[sym][strategyPositions[s][sym].direction] - strategyPositions[s][sym].qty

KeysWithout(s, gone, sym) ==
  IF sym \in gone /\ strategyPositions[s][sym].direction \in globalKeys[sym]
                  /\ Remaining(s, sym) <= 0
    THEN globalKeys[sym] \ {strategyPositions[s][sym].direction}
    ELSE globalKeys[sym]

QtyWithout(s, gone, sym) ==
  IF sym \in gone /\ strategyPositions[s][sym].direction \in globalKeys[sym]
    THEN [globalQty[sym] EXCEPT ![strategyPositions[s][sym].direction] =
            IF Remaining(s, sym) <= 0 THEN 0 ELSE Remaining(s, sym)]
    ELSE globalQty[sym]

(* Mutation: a side the record lacks is adopted over the recorded one. *)
AdoptsOver(s, m, sym) == \E d \in Directions : d # strategyPositions[s][sym].direction /\ m[sym][d] > 0

Adopts(s, m, sym) == ~Holds(s, sym) /\ \E d \in Directions : m[sym][d] > 0

Drops(s, m, sym) ==
  Holds(s, sym) /\ m[sym][strategyPositions[s][sym].direction] = 0

Shrinks(s, m, sym) ==
  /\ Holds(s, sym)
  /\ m[sym][strategyPositions[s][sym].direction] > 0
  /\ m[sym][strategyPositions[s][sym].direction] < strategyPositions[s][sym].qty

(* Callers build every map with the keys in the order BUY, SELL, so a      *)
(* symbol open in both directions is adopted as a BUY.                     *)
Adopted(m, sym) ==
  IF m[sym]["BUY"] > 0 THEN [direction |-> "BUY", qty |-> m[sym]["BUY"]]
                       ELSE [direction |-> "SELL", qty |-> m[sym]["SELL"]]

(* The adopted quantity REPLACES the total; a reduction is subtracted from *)
(* it and the key stays whatever the result is.                            *)
AdoptedQty(m, sym) ==
  [globalQty[sym] EXCEPT ![Adopted(m, sym).direction] = Adopted(m, sym).qty]

(* Mutation: a reduction is not carried into the total. *)
ShrunkQtyKept(s, m, sym) == globalQty[sym]

ShrunkQty(s, m, sym) ==
  LET dir == strategyPositions[s][sym].direction
  IN  IF dir \in globalKeys[sym]
        THEN [globalQty[sym] EXCEPT ![dir] = @ - (strategyPositions[s][sym].qty - m[sym][dir])]
        ELSE globalQty[sym]

Reconciled(s, m, sym) ==
  LET held == strategyPositions[s][sym]
  IN  CASE Adopts(s, m, sym) -> Adopted(m, sym)
        [] Drops(s, m, sym) -> NoPosition
        [] Shrinks(s, m, sym) -> [held EXCEPT !.qty = m[sym][held.direction]]
        [] OTHER -> held

Reconcile(s, m) ==
  LET gone == {sym \in Symbols : Drops(s, m, sym)} IN
  /\ strategyPositions' =
       [strategyPositions EXCEPT ![s] = [sym \in Symbols |-> Reconciled(s, m, sym)]]
  /\ globalKeys' =
       [sym \in Symbols |->
          IF Adopts(s, m, sym) THEN globalKeys[sym] \union {Adopted(m, sym).direction}
                               ELSE KeysWithout(s, gone, sym)]
  /\ globalQty' =
       [sym \in Symbols |->
          CASE Adopts(s, m, sym) -> AdoptedQty(m, sym)
            [] Shrinks(s, m, sym) -> ShrunkQty(s, m, sym)
            [] OTHER -> QtyWithout(s, gone, sym)]

-----------------------------------------------------------------------------
(* A position whose symbol has a total but not in the position's own       *)
(* direction: force_close_strategy indexes the missing key.                *)
KeyMissing(s, sym) ==
  /\ Holds(s, sym)
  /\ globalKeys[sym] # {}
  /\ strategyPositions[s][sym].direction \notin globalKeys[sym]

ClearAll(s, gone) ==
  /\ strategyPositions' = [strategyPositions EXCEPT ![s] = [sym \in Symbols |-> NoPosition]]
  /\ globalKeys' = [sym \in Symbols |-> KeysWithout(s, gone, sym)]
  /\ globalQty' = [sym \in Symbols |-> QtyWithout(s, gone, sym)]

ForceClose(s) ==
  /\ \A sym \in Symbols : ~KeyMissing(s, sym)
  /\ ClearAll(s, Held(s))

(* The KeyError leaves the loop: the positions are already popped, the     *)
(* totals of the symbols visited before are lowered, the others are not.   *)
ForceCloseFails(s) ==
  \E bad \in Held(s) :
     /\ KeyMissing(s, bad)
     /\ \E visited \in SUBSET {sym \in Held(s) : ~KeyMissing(s, sym)} : ClearAll(s, visited)

ForceClearSymbol(s, sym) ==
  /\ Holds(s, sym)
  /\ strategyPositions' = [strategyPositions EXCEPT ![s][sym] = NoPosition]
  /\ globalKeys' = [globalKeys EXCEPT ![sym] = KeysWithout(s, {sym}, sym)]
  /\ globalQty' = [globalQty EXCEPT ![sym] = QtyWithout(s, {sym}, sym)]

Next ==
  \E s \in Strategies :
     \/ \E batch \in Batches(s) : Entry(s, batch)
     \/ \E batch \in Batches(s) : Adjust(s, batch)
     \/ \E m \in BrokerMaps(s) : Reconcile(s, m)
     \/ ForceClose(s)
     \/ ForceCloseFails(s)
     \/ \E sym \in Symbols : ForceClearSymbol(s, sym)

Spec == Init /\ [][Next]_vars

-----------------------------------------------------------------------------
(* The tables have the shape the dictionaries have: a position has a       *)
(* direction and a positive quantity, a total exists only under its key.   *)
(* A total may be zero or negative: a reduction never deletes the key.     *)
TypeOK ==
  /\ strategyPositions \in [Strategies -> [Symbols -> Position \union {NoPosition}]]
  /\ globalKeys \in [Symbols -> SUBSET Directions]
  /\ globalQty \in [Symbols -> [Directions -> Int]]
  /\ \A sym \in Symbols : \A d \in Directions \ globalKeys[sym] : globalQty[sym][d] = 0

(* The rule _check_cross_strategy_conflicts exists for ("BLOCKS: Strategy  *)
(* A BUY 100 NIFTY + Strategy B SELL 100 NIFTY"): no accepted batch takes  *)
(* a direction opposite to a position another strategy is recorded with.   *)
AcceptsNoConflict ==
  \A s \in Strategies : \A batch \in Batches(s) :
     Accept(s, batch) =>
       \A sym \in DOMAIN batch : \A t \in Strategies :
          Holds(t, sym) => strategyPositions[t][sym].direction = batch[sym].direction

NoConflictingEntry == [][AcceptsNoConflict]_vars

(* What a step may do to a total: one that does not exceed the recorded    *)
(* positions it sums up ("global symbol -> direction -> total qty") does   *)
(* not exceed them afterwards, for any strategies that share symbols and   *)
(* any broker maps, so the cross-strategy rule never blocks an order for   *)
(* quantities nobody holds.  Excepted is force_close_strategy that stops   *)
(* at a missing key: the totals of the symbols after it stay as they were. *)
Lots(sym, d) ==
  UNION {{s} \X (1 .. strategyPositions[s][sym].qty) :
           s \in {t \in Strategies : strategyPositions[t][sym].direction = d}}

Covered(sym, d) == globalQty[sym][d] <= Cardinality(Lots(sym, d))

LeftBehind(sym) ==
  \E s \in Strategies : /\ Holds(s, sym) /\ ~HasStrategy(s)'
                         /\ \E bad \in Symbols \ {sym} : KeyMissing(s, bad)

CoveredStaysCovered ==
  \A sym \in Symbols : \A d \in Directions : Covered(sym, d) => Covered(sym, d)' \/ LeftBehind(sym)

TotalsAreCovered == [][CoveredStaysCovered]_vars

(* No call turns a recorded long position into a short one or back: after  *)
(* the broker's position flipped, the old one is first dropped (one        *)
(* reconcile_with_broker) and only a later call can record the new one.    *)
NoDirectionFlip ==
  [][\A s \in Strategies : \A sym \in Symbols :
       Holds(s, sym) /\ Holds(s, sym)' =>
          strategyPositions'[s][sym].direction = strategyPositions[s][sym].direction]_vars
=============================================================================
