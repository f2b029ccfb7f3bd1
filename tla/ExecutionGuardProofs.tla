------------------------ MODULE ExecutionGuardProofs ------------------------
(* Proofs about the guard and the alerts that go through it, for every set *)
(* of strategies, symbols and callers and every bound on the quantities:   *)
(* the guard with any broker maps, the alert pipeline over it, and         *)
(* the guard whose strategies share symbols and which sees no broker map.  *)
EXTENDS MCAlertPipeline, FiniteSetTheorems, TLAPS

(* The sets of inputs, as the proofs use them. *)
LEMMA BatchFacts ==
  ASSUME NEW s \in Strategies, NEW batch \in Batches(s)
  PROVE  /\ DOMAIN batch \subseteq Traded[s]
         /\ DOMAIN batch \subseteq Symbols
         /\ \A sym \in DOMAIN batch : /\ batch[sym].direction \in Directions
                                      /\ batch[sym].qty \in Nat
                                      /\ batch[sym] \in [direction : Directions, qty : Nat]
  <1>1. PICK legs \in (SUBSET Traded[s]) \ {{}} :
          batch \in [legs -> [direction : Directions, qty : 0 .. MaxQty]]
    BY DEF Batches
  <1>2. MaxQty \in Nat /\ Traded[s] \subseteq Symbols
    BY GuardAssumption
  <1>3. 0 .. MaxQty \subseteq Nat
    BY <1>2
  <1>. QED
    BY <1>1, <1>2, <1>3

LEMMA MapFacts ==
  ASSUME NEW s \in Strategies, NEW m \in BrokerMaps(s),
         NEW sym \in Symbols
  PROVE  /\ \A d \in Directions : m[sym][d] \in Nat
         /\ sym \notin Seen[s] => \A d \in Directions : m[sym][d] = 0
         /\ (\E d \in Directions : m[sym][d] > 0) =>
               Adopted(m, sym) \in Position /\ Adopted(m, sym).qty = m[sym][Adopted(m, sym).direction]
  <1>1. \A d \in Directions : m[sym][d] \in 0 .. MaxQty
    BY DEF BrokerMaps
  <1>2. MaxQty \in Nat
    BY GuardAssumption
  <1>3. \A d \in Directions : m[sym][d] \in Nat
    BY <1>1, <1>2
  <1>4. sym \notin Seen[s] => \A d \in Directions : m[sym][d] = 0
    BY DEF BrokerMaps
  <1>5. ASSUME \E d \in Directions : m[sym][d] > 0
        PROVE  Adopted(m, sym) \in Position /\ Adopted(m, sym).qty = m[sym][Adopted(m, sym).direction]
    BY <1>3, <1>5 DEF Adopted, Position, Directions
  <1>. QED
    BY <1>3, <1>4, <1>5

(* What TypeOK says of one cell of the table. *)
LEMMA CellFacts ==
  ASSUME TypeOK, NEW s \in Strategies, NEW sym \in Symbols
  PROVE  /\ strategyPositions[s][sym] \in Position \union {NoPosition}
         /\ Holds(s, sym) => /\ strategyPositions[s][sym] \in Position
                             /\ strategyPositions[s][sym].direction \in Directions
                             /\ strategyPositions[s][sym].qty \in Nat \ {0}
         /\ strategyPositions[s][sym].qty \in Nat
         /\ globalKeys[sym] \subseteq Directions
         /\ globalQty[sym] \in [Directions -> Int]
         /\ \A d \in Directions : globalQty[sym][d] \in Int
  BY DEF TypeOK, Holds, Position, NoPosition

(* A symbol of a broker map is adopted, dropped, shrunk or left alone. *)
LEMMA OneOutcome ==
  ASSUME TypeOK, NEW s \in Strategies, NEW m \in BrokerMaps(s), NEW sym \in Symbols
  PROVE  /\ ~(Adopts(s, m, sym) /\ Drops(s, m, sym))
         /\ ~(Adopts(s, m, sym) /\ Shrinks(s, m, sym))
         /\ ~(Drops(s, m, sym) /\ Shrinks(s, m, sym))
  BY CellFacts, MapFacts DEF Adopts, Drops, Shrinks

(* A removal keeps the shape of a symbol's totals. *)
LEMMA WithoutType ==
  ASSUME TypeOK, NEW s \in Strategies, NEW sym \in Symbols, NEW gone,
         sym \in gone => Holds(s, sym)
  PROVE  /\ KeysWithout(s, gone, sym) \subseteq Directions
         /\ QtyWithout(s, gone, sym) \in [Directions -> Int]
         /\ \A d \in Directions \ KeysWithout(s, gone, sym) : QtyWithout(s, gone, sym)[d] = 0
  <1>1. CASE sym \in gone /\ strategyPositions[s][sym].direction \in globalKeys[sym]
    <2> DEFINE dir == strategyPositions[s][sym].direction
    <2>1. dir \in Directions /\ Remaining(s, sym) \in Int
      BY <1>1, CellFacts DEF Remaining
    <2>2. \A d \in Directions \ globalKeys[sym] : globalQty[sym][d] = 0
      BY DEF TypeOK
    <2>. QED
      BY <1>1, <2>1, <2>2, CellFacts DEF KeysWithout, QtyWithout
  <1>2. CASE ~(sym \in gone /\ strategyPositions[s][sym].direction \in globalKeys[sym])
    BY <1>2, CellFacts DEF KeysWithout, QtyWithout, TypeOK
  <1>. QED
    BY <1>1, <1>2

-----------------------------------------------------------------------------
(* Empty tables. *)
LEMMA TypeInit == Init => TypeOK
  BY DEF Init, TypeOK, Directions, NoPosition

(* Approved quantities are positive differences of naturals. *)
LEMMA TypeAccept ==
  ASSUME TypeOK, NEW s \in Strategies, NEW batch \in Batches(s), Accept(s, batch)
  PROVE  TypeOK'
  <1>1. \A sym \in DOMAIN batch : batch[sym] \in Position
    BY BatchFacts DEF Accept, WellFormed, Position
  <1>2. \A sym \in DOMAIN Approved(s, batch) :
          /\ sym \in DOMAIN batch
          /\ sym \in Symbols
          /\ Approved(s, batch)[sym] \in Int
          /\ batch[sym].direction \in Directions
    BY BatchFacts, CellFacts DEF Approved, Delta
  <1>3. strategyPositions' \in [Strategies -> [Symbols -> Position \union {NoPosition}]]
    BY <1>1 DEF Accept, TypeOK
  <1>4. globalKeys' \in [Symbols -> SUBSET Directions]
    BY <1>2 DEF Accept, TypeOK
  <1>5. globalQty' \in [Symbols -> [Directions -> Int]]
    BY <1>2, CellFacts DEF Accept
  <1>6. \A sym \in Symbols : \A d \in Directions \ globalKeys'[sym] : globalQty'[sym][d] = 0
    BY <1>2 DEF Accept, TypeOK
  <1>. QED
    BY <1>3, <1>4, <1>5, <1>6 DEF TypeOK

(* Per symbol: adopted, shrunk, or removed and left alone. *)
LEMMA TypeReconcile ==
  ASSUME TypeOK, NEW s \in Strategies, NEW m \in BrokerMaps(s), Reconcile(s, m)
  PROVE  TypeOK'
  <1> DEFINE gone == {sym \in Symbols : Drops(s, m, sym)}
  <1>1. \A sym \in gone : Holds(s, sym)
    BY DEF Drops
  <1>2. ASSUME NEW sym \in Symbols
        PROVE  Reconciled(s, m, sym) \in Position \union {NoPosition}
    <2>1. CASE Adopts(s, m, sym)
      BY <2>1, OneOutcome, MapFacts DEF Adopts, Reconciled
    <2>2. CASE Shrinks(s, m, sym)
      <3>1. Holds(s, sym) /\ m[sym][strategyPositions[s][sym].direction] \in Nat \ {0}
        BY <2>2, CellFacts, MapFacts DEF Shrinks
      <3>2. Reconciled(s, m, sym) =
              [strategyPositions[s][sym] EXCEPT !.qty = m[sym][strategyPositions[s][sym].direction]]
        BY <2>2, OneOutcome DEF Reconciled
      <3>. QED
        BY <3>1, <3>2, CellFacts DEF Position
    <2>3. CASE ~Adopts(s, m, sym) /\ ~Shrinks(s, m, sym)
      BY <2>3, CellFacts DEF Reconciled
    <2>. QED
      BY <2>1, <2>2, <2>3
  <1>3. ASSUME NEW sym \in Symbols
        PROVE  /\ globalKeys'[sym] \subseteq Directions
               /\ globalQty'[sym] \in [Directions -> Int]
               /\ \A d \in Directions \ globalKeys'[sym] : globalQty'[sym][d] = 0
    <2>1. CASE Adopts(s, m, sym)
      <3>1. Adopted(m, sym) \in Position
        BY <2>1, MapFacts DEF Adopts
      <3>2. /\ globalKeys'[sym] = globalKeys[sym] \union {Adopted(m, sym).direction}
            /\ globalQty'[sym] = AdoptedQty(m, sym)
        BY <2>1, OneOutcome DEF Reconcile
      <3>3. \A d \in Directions \ globalKeys[sym] : globalQty[sym][d] = 0
        BY DEF TypeOK
      <3>. QED
        BY <3>1, <3>2, <3>3, CellFacts DEF AdoptedQty, Position
    <2>2. CASE Shrinks(s, m, sym)
      <3> DEFINE dir == strategyPositions[s][sym].direction
      <3>1. Holds(s, sym) /\ sym \notin gone /\ ~Adopts(s, m, sym)
        BY <2>2, OneOutcome DEF Shrinks
      <3>2. /\ globalKeys'[sym] = globalKeys[sym]
            /\ globalQty'[sym] = ShrunkQty(s, m, sym)
        BY <2>2, <3>1, OneOutcome DEF Reconcile, KeysWithout
      <3>3. m[sym][dir] \in Nat /\ dir \in Directions
        BY <3>1, CellFacts, MapFacts
      <3>. QED
        BY <3>2, <3>3, CellFacts DEF ShrunkQty, TypeOK
    <2>3. CASE ~Adopts(s, m, sym) /\ ~Shrinks(s, m, sym)
      <3>1. /\ globalKeys'[sym] = KeysWithout(s, gone, sym)
            /\ globalQty'[sym] = QtyWithout(s, gone, sym)
        BY <2>3 DEF Reconcile
      <3>. QED
        BY <1>1, <3>1, WithoutType
    <2>. QED
      BY <2>1, <2>2, <2>3
  <1>4. strategyPositions' \in [Strategies -> [Symbols -> Position \union {NoPosition}]]
    BY <1>2 DEF Reconcile, TypeOK
  <1>5. DOMAIN globalKeys' = Symbols /\ DOMAIN globalQty' = Symbols
        /\ globalKeys' = [sym \in Symbols |-> globalKeys'[sym]]
        /\ globalQty' = [sym \in Symbols |-> globalQty'[sym]]
    BY DEF Reconcile
  <1>. QED
    BY <1>3, <1>4, <1>5 DEF TypeOK

(* Both outcomes of force_close_strategy. *)
LEMMA TypeClear ==
  ASSUME TypeOK, NEW s \in Strategies, NEW gone, gone \subseteq Held(s), ClearAll(s, gone)
  PROVE  TypeOK'
  <1>1. \A sym \in Symbols : sym \in gone => Holds(s, sym)
    BY DEF Held
  <1>2. \A sym \in Symbols :
          /\ KeysWithout(s, gone, sym) \subseteq Directions
          /\ QtyWithout(s, gone, sym) \in [Directions -> Int]
          /\ \A d \in Directions \ KeysWithout(s, gone, sym) : QtyWithout(s, gone, sym)[d] = 0
    BY <1>1, WithoutType
  <1>. QED
    BY <1>2 DEF ClearAll, TypeOK

(* One symbol of one strategy. *)
LEMMA TypeClearSymbol ==
  ASSUME TypeOK, NEW s \in Strategies, NEW sym \in Symbols, ForceClearSymbol(s, sym)
  PROVE  TypeOK'
  <1>1. /\ KeysWithout(s, {sym}, sym) \subseteq Directions
        /\ QtyWithout(s, {sym}, sym) \in [Directions -> Int]
        /\ \A d \in Directions \ KeysWithout(s, {sym}, sym) : QtyWithout(s, {sym}, sym)[d] = 0
    BY WithoutType DEF ForceClearSymbol
  <1>. QED
    BY <1>1 DEF ForceClearSymbol, TypeOK

(* One step per action. *)
LEMMA TypeStep == TypeOK /\ [Next]_vars => TypeOK'
  <1> SUFFICES ASSUME TypeOK, [Next]_vars PROVE TypeOK'
    OBVIOUS
  <1>1. CASE UNCHANGED vars
    BY <1>1 DEF vars, TypeOK
  <1>2. ASSUME NEW s \in Strategies, NEW batch \in Batches(s),
               Entry(s, batch) \/ Adjust(s, batch)
        PROVE  TypeOK'
    BY <1>2, TypeAccept DEF Entry, Adjust
  <1>3. ASSUME NEW s \in Strategies, NEW m \in BrokerMaps(s), Reconcile(s, m)
        PROVE  TypeOK'
    BY <1>3, TypeReconcile
  <1>4. ASSUME NEW s \in Strategies, ForceClose(s) PROVE TypeOK'
    BY <1>4, TypeClear DEF ForceClose
  <1>5. ASSUME NEW s \in Strategies, ForceCloseFails(s) PROVE TypeOK'
    <2>1. PICK visited \in SUBSET Held(s) : ClearAll(s, visited)
      BY <1>5 DEF ForceCloseFails
    <2>. QED
      BY <2>1, TypeClear
  <1>6. ASSUME NEW s \in Strategies, NEW sym \in Symbols, ForceClearSymbol(s, sym)
        PROVE  TypeOK'
    BY <1>6, TypeClearSymbol
  <1>. QED
    BY <1>1, <1>2, <1>3, <1>4, <1>5, <1>6 DEF Next

(* The tables of ExecutionGuard keep the shape of the code's dictionaries, *)
(* whatever calls are made in whatever order.                              *)
THEOREM TypeCorrect == Spec => []TypeOK
  BY TypeInit, TypeStep, PTL DEF Spec

-----------------------------------------------------------------------------
(* A call never turns a recorded position round. *)
LEMMA NoFlipStep ==
  ASSUME TypeOK, [Next]_vars, NEW r \in Strategies, NEW x \in Symbols,
         Holds(r, x), Holds(r, x)'
  PROVE  strategyPositions'[r][x].direction = strategyPositions[r][x].direction
  <1>1. CASE UNCHANGED vars
    BY <1>1 DEF vars
  <1>2. ASSUME NEW s \in Strategies, NEW batch \in Batches(s), Accept(s, batch)
        PROVE  strategyPositions'[r][x].direction = strategyPositions[r][x].direction
    BY <1>2, BatchFacts DEF Accept, SameDirection, TypeOK
  <1>3. ASSUME NEW s \in Strategies, NEW m \in BrokerMaps(s), Reconcile(s, m)
        PROVE  strategyPositions'[r][x].direction = strategyPositions[r][x].direction
    <2>1. CASE r # s
      BY <1>3, <2>1 DEF Reconcile, TypeOK
    <2>2. CASE r = s
      <3>1. strategyPositions'[r][x] = Reconciled(r, m, x)
        BY <1>3, <2>2 DEF Reconcile, TypeOK
      <3>2. ~Adopts(r, m, x)
        BY DEF Adopts
      <3>3. ~Drops(r, m, x)
        BY <1>3, <2>2, <3>1, <3>2, OneOutcome DEF Reconciled, Holds
      <3>4. CASE Shrinks(r, m, x)
        <4>1. strategyPositions'[r][x] =
                [strategyPositions[r][x] EXCEPT !.qty = m[x][strategyPositions[r][x].direction]]
          BY <3>1, <3>2, <3>3, <3>4 DEF Reconciled
        <4>. QED
          BY <4>1, CellFacts DEF Position
      <3>5. CASE ~Shrinks(r, m, x)
        BY <3>1, <3>2, <3>3, <3>5 DEF Reconciled
      <3>. QED
        BY <3>4, <3>5
    <2>. QED
      BY <2>1, <2>2
  <1>4. ASSUME NEW s \in Strategies, NEW gone, ClearAll(s, gone)
        PROVE  strategyPositions'[r][x].direction = strategyPositions[r][x].direction
    BY <1>4 DEF ClearAll, TypeOK, Holds
  <1>5. ASSUME NEW s \in Strategies, NEW sym \in Symbols, ForceClearSymbol(s, sym)
        PROVE  strategyPositions'[r][x].direction = strategyPositions[r][x].direction
    BY <1>5 DEF ForceClearSymbol, TypeOK, Holds
  <1>. QED
    BY <1>1, <1>2, <1>3, <1>4, <1>5
    DEF Next, Entry, Adjust, ForceClose, ForceCloseFails

(* No call of the guard records a position in the direction opposite to    *)
(* the one the strategy held before the call.                              *)
THEOREM DirectionsNeverFlip == Spec => NoDirectionFlip
  <1>1. TypeOK /\ [Next]_vars =>
          [\A s \in Strategies : \A sym \in Symbols :
             Holds(s, sym) /\ Holds(s, sym)' =>
                strategyPositions'[s][sym].direction = strategyPositions[s][sym].direction]_vars
    BY NoFlipStep
  <1>. QED
    BY <1>1, TypeCorrect, PTL DEF Spec, NoDirectionFlip

-----------------------------------------------------------------------------
(* The totals and the positions they sum up.  A step changes, of a symbol, *)
(* the position of one strategy; the set of lots it counts for a direction *)
(* stays finite, and its size changes by what that position counts.        *)
CountedFor(s, sym, d) ==
  IF strategyPositions[s][sym].direction = d THEN strategyPositions[s][sym].qty ELSE 0

LotsOf(s, sym, d) == {s} \X (1 .. CountedFor(s, sym, d))

LotsInv == TypeOK /\ \A sym \in Symbols : \A d \in Directions : IsFiniteSet(Lots(sym, d))

LEMMA LotsOfSize ==
  ASSUME NEW s, NEW k \in Nat
  PROVE  IsFiniteSet({s} \X (1 .. k)) /\ Cardinality({s} \X (1 .. k)) = k
  <1>1. IsFiniteSet({s}) /\ Cardinality({s}) = 1
    BY FS_Singleton
  <1>2. IsFiniteSet(1 .. k) /\ Cardinality(1 .. k) = k
    BY FS_Interval
  <1>3. Cardinality({s} \X (1 .. k)) = Cardinality({s}) * Cardinality(1 .. k) /\ IsFiniteSet({s} \X (1 .. k))
    BY <1>1, <1>2, FS_Product
  <1>. QED
    BY <1>1, <1>2, <1>3

(* The lots of a symbol, and among them those of one strategy.             *)
LEMMA LotsMembers ==
  ASSUME TypeOK, NEW sym \in Symbols, NEW d \in Directions
  PROVE  \A lot : lot \in Lots(sym, d) <=> \E t \in Strategies : lot \in LotsOf(t, sym, d)
  <1>1. ASSUME NEW t \in Strategies, strategyPositions[t][sym].direction # d
        PROVE  LotsOf(t, sym, d) = {}
    BY <1>1 DEF LotsOf, CountedFor
  <1>2. ASSUME NEW t \in Strategies, strategyPositions[t][sym].direction = d
        PROVE  LotsOf(t, sym, d) = {t} \X (1 .. strategyPositions[t][sym].qty)
    BY <1>2 DEF LotsOf, CountedFor
  <1>. QED
    BY <1>1, <1>2 DEF Lots

LEMMA LotsChange ==
  ASSUME LotsInv, TypeOK', NEW s \in Strategies, NEW sym \in Symbols, NEW d \in Directions,
         \A t \in Strategies \ {s} : strategyPositions'[t][sym] = strategyPositions[t][sym]
  PROVE  /\ IsFiniteSet(Lots(sym, d)')
         /\ CountedFor(s, sym, d) \in Nat /\ CountedFor(s, sym, d)' \in Nat
         /\ CountedFor(s, sym, d) <= Cardinality(Lots(sym, d))
         /\ Cardinality(Lots(sym, d))' = Cardinality(Lots(sym, d)) - CountedFor(s, sym, d) + CountedFor(s, sym, d)'
         /\ Cardinality(Lots(sym, d)) \in Nat
  <1> DEFINE lots == Lots(sym, d)
             old == LotsOf(s, sym, d)
             now == LotsOf(s, sym, d)'
             rest == lots \ old
  <1>1. CountedFor(s, sym, d) \in Nat /\ CountedFor(s, sym, d)' \in Nat
    <2>1. \A p \in Position \union {NoPosition} : (IF p.direction = d THEN p.qty ELSE 0) \in Nat
      BY DEF Position, NoPosition
    <2>. QED
      BY <2>1 DEF LotsInv, TypeOK, CountedFor
  <1>2. /\ IsFiniteSet(old) /\ Cardinality(old) = CountedFor(s, sym, d)
        /\ IsFiniteSet(now) /\ Cardinality(now) = CountedFor(s, sym, d)'
    BY <1>1, LotsOfSize DEF LotsOf
  <1>3. /\ \A lot : lot \in lots <=> \E t \in Strategies : lot \in LotsOf(t, sym, d)
        /\ \A lot : lot \in Lots(sym, d)' <=> \E t \in Strategies : lot \in LotsOf(t, sym, d)'
    <2>1. ASSUME TypeOK PROVE \A lot : lot \in lots <=> \E t \in Strategies : lot \in LotsOf(t, sym, d)
      BY <2>1, LotsMembers
    <2>2. TypeOK
      BY DEF LotsInv
    <2>3. ASSUME NEW t \in Strategies, strategyPositions'[t][sym].direction # d
          PROVE  LotsOf(t, sym, d)' = {}
      BY <2>3 DEF LotsOf, CountedFor
    <2>4. ASSUME NEW t \in Strategies, strategyPositions'[t][sym].direction = d
          PROVE  LotsOf(t, sym, d)' = {t} \X (1 .. strategyPositions'[t][sym].qty)
      BY <2>4 DEF LotsOf, CountedFor
    <2>5. Lots(sym, d)' = UNION {{t} \X (1 .. strategyPositions'[t][sym].qty) :
                                   t \in {r \in Strategies : strategyPositions'[r][sym].direction = d}}
      BY DEF Lots
    <2>. QED
      BY <2>1, <2>2, <2>3, <2>4, <2>5
  <1>4. \A t \in Strategies \ {s} : LotsOf(t, sym, d)' = LotsOf(t, sym, d)
    BY DEF LotsOf, CountedFor
  <1>5. \A t : \A lot \in LotsOf(t, sym, d) : lot[1] = t
    BY DEF LotsOf
  <1>6. \A lot \in now : lot[1] = s
    BY DEF LotsOf
  <1> HIDE DEF lots, old, now
  <1>7. lots \cap old = old /\ rest \cap now = {} /\ Lots(sym, d)' = rest \cup now
    <2>1. \A lot : lot \in old <=> lot \in LotsOf(s, sym, d)
      BY DEF old
    <2>2. \A lot : lot \in now <=> lot \in LotsOf(s, sym, d)'
      BY DEF now
    <2>3. \A lot \in rest : \E t \in Strategies \ {s} : lot \in LotsOf(t, sym, d)
      BY <1>3, <2>1
    <2>4. rest \cap now = {}
      BY <2>3, <1>5, <1>6
    <2>5. ASSUME NEW lot \in Lots(sym, d)' PROVE lot \in rest \cup now
      <3>1. PICK t \in Strategies : lot \in LotsOf(t, sym, d)'
        BY <1>3
      <3>2. CASE t = s
        BY <3>1, <3>2, <2>2
      <3>3. CASE t # s
        <4>1. lot \in LotsOf(t, sym, d) /\ lot[1] # s
          BY <3>1, <3>3, <1>4, <1>5
        <4>. QED
          BY <4>1, <1>3, <1>5, <2>1
      <3>. QED
        BY <3>2, <3>3
    <2>6. ASSUME NEW lot \in rest \cup now PROVE lot \in Lots(sym, d)'
      BY <2>2, <2>3, <1>3, <1>4
    <2>. QED
      BY <2>1, <2>4, <2>5, <2>6, <1>3
  <1>8. IsFiniteSet(lots)
    BY DEF LotsInv, lots
  <1>9. IsFiniteSet(rest) /\ Cardinality(rest) = Cardinality(lots) - Cardinality(old)
    BY <1>7, <1>8, FS_Difference
  <1>10. /\ IsFiniteSet(rest \cup now)
         /\ Cardinality(rest \cup now) = Cardinality(rest) + Cardinality(now) - Cardinality(rest \cap now)
    BY <1>2, <1>9, FS_Union
  <1>11. Cardinality(rest \cap now) = 0
    BY <1>7, FS_EmptySet
  <1>12. Cardinality(lots) \in Nat /\ Cardinality(rest) \in Nat
    BY <1>8, <1>9, FS_CardinalityType
  <1>13. Cardinality(rest \cup now) = Cardinality(lots) - CountedFor(s, sym, d) + CountedFor(s, sym, d)'
         /\ CountedFor(s, sym, d) <= Cardinality(lots)
    BY <1>1, <1>2, <1>9, <1>10, <1>11, <1>12
  <1>14. Cardinality(Lots(sym, d))' = Cardinality(rest \cup now) /\ IsFiniteSet(Lots(sym, d)')
    BY <1>7, <1>10
  <1>. QED
    BY <1>1, <1>12, <1>13, <1>14 DEF lots

(* What a step does to a total: it follows the position, or ends at most   *)
(* at what the position counts.                                            *)
Follows(s, sym, d) ==
  \/ globalQty'[sym][d] = globalQty[sym][d] - CountedFor(s, sym, d) + CountedFor(s, sym, d)'
  \/ globalQty'[sym][d] <= CountedFor(s, sym, d)'

LEMMA FollowingCovers ==
  ASSUME LotsInv, TypeOK', NEW s \in Strategies, NEW sym \in Symbols, NEW d \in Directions,
         \A t \in Strategies \ {s} : strategyPositions'[t][sym] = strategyPositions[t][sym],
         Follows(s, sym, d), Covered(sym, d)
  PROVE  Covered(sym, d)'
  <1> DEFINE n == Cardinality(Lots(sym, d))
             m == Cardinality(Lots(sym, d))'
             a == CountedFor(s, sym, d)
             b == CountedFor(s, sym, d)'
             t == globalQty[sym][d]
             u == globalQty'[sym][d]
  <1>1. n \in Nat /\ a \in Nat /\ b \in Nat /\ a <= n /\ m = n - a + b
    BY LotsChange
  <1>2. t \in Int /\ u \in Int
    BY DEF LotsInv, TypeOK
  <1>3. t <= n /\ (u = t - a + b \/ u <= b)
    BY DEF Covered, Follows
  <1>4. u <= m
    <2> HIDE DEF n, m, a, b, t, u
    <2>. QED
      BY <1>1, <1>2, <1>3
  <1>. QED
    BY <1>4 DEF Covered

(* What the parts of a reconciliation and of a removal do to one total.    *)
LEMMA FollowsAccept ==
  ASSUME TypeOK, NEW s \in Strategies, NEW batch \in Batches(s), Accept(s, batch),
         NEW sym \in Symbols, NEW d \in Directions
  PROVE  Follows(s, sym, d)
  <1>1. globalQty[sym][d] \in Int /\ strategyPositions[s][sym] \in Position \union {NoPosition}
    BY CellFacts
  <1>2. CASE sym \in DOMAIN batch
    <2>1. batch[sym].direction \in Directions /\ batch[sym].qty \in Nat /\ batch[sym].qty > 0
      BY <1>2, BatchFacts DEF Accept, WellFormed
    <2>2. strategyPositions'[s][sym] = batch[sym]
      BY <1>2 DEF Accept, TypeOK
    <2>3. Holds(s, sym) => strategyPositions[s][sym].direction = batch[sym].direction
      BY <1>2 DEF Accept, SameDirection
    <2>4. Delta(s, batch, sym) = batch[sym].qty - strategyPositions[s][sym].qty /\ Delta(s, batch, sym) >= 0
      BY <1>2 DEF Accept, NoReduction, Delta
    <2>5. globalQty'[sym][d] = IF Delta(s, batch, sym) > 0 /\ d = batch[sym].direction
                                 THEN globalQty[sym][d] + Delta(s, batch, sym) ELSE globalQty[sym][d]
      BY <1>2 DEF Accept, Approved
    <2>6. CASE d # batch[sym].direction
      BY <1>1, <2>2, <2>3, <2>5, <2>6 DEF Follows, CountedFor, Holds, Position, NoPosition, Directions
    <2>7. CASE d = batch[sym].direction
      <3>1. CountedFor(s, sym, d)' = batch[sym].qty
        BY <2>2, <2>7 DEF CountedFor
      <3>2. CountedFor(s, sym, d) = strategyPositions[s][sym].qty /\ strategyPositions[s][sym].qty \in Nat
        BY <1>1, <2>3, <2>7 DEF CountedFor, Holds, Position, NoPosition
      <3>. QED
        BY <1>1, <2>1, <2>4, <2>5, <2>7, <3>1, <3>2 DEF Follows
    <2>. QED
      BY <2>6, <2>7
  <1>3. CASE sym \notin DOMAIN batch
    <2>1. strategyPositions'[s][sym] = strategyPositions[s][sym] /\ globalQty'[sym][d] = globalQty[sym][d]
      BY <1>3 DEF Accept, Approved, TypeOK
    <2>2. CountedFor(s, sym, d)' = CountedFor(s, sym, d) /\ CountedFor(s, sym, d) \in Int
      BY <1>1, <2>1 DEF CountedFor, Position, NoPosition
    <2>. QED
      BY <1>1, <2>1, <2>2 DEF Follows
  <1>. QED
    BY <1>2, <1>3

LEMMA FollowsRemoval ==
  ASSUME TypeOK, NEW s \in Strategies, NEW gone, NEW sym \in Symbols, NEW d \in Directions,
         globalQty'[sym] = QtyWithout(s, gone, sym),
         sym \in gone => Holds(s, sym) /\ strategyPositions'[s][sym] = NoPosition,
         sym \notin gone => \/ strategyPositions'[s][sym] = strategyPositions[s][sym]
                            \/ KeyMissing(s, sym) /\ strategyPositions'[s][sym] = NoPosition
  PROVE  Follows(s, sym, d)
  <1>1. /\ globalQty[sym] \in [Directions -> Int] /\ strategyPositions[s][sym] \in Position \union {NoPosition}
        /\ d \notin globalKeys[sym] => globalQty[sym][d] = 0
    BY CellFacts DEF TypeOK
  <1>2. CountedFor(s, sym, d) \in Nat
    BY <1>1 DEF CountedFor, Position, NoPosition
  <1>3. CASE strategyPositions[s][sym].direction = d /\ d \notin globalKeys[sym]
    <2>1. globalQty'[sym][d] = 0
      BY <1>1, <1>3 DEF QtyWithout
    <2>2. CountedFor(s, sym, d)' = CountedFor(s, sym, d) \/ CountedFor(s, sym, d)' = 0
      BY DEF CountedFor, NoPosition, Directions
    <2>. QED
      BY <1>2, <2>1, <2>2 DEF Follows
  <1>4. CASE strategyPositions[s][sym].direction = d /\ d \in globalKeys[sym]
    <2>1. CASE sym \in gone
      <3>1. CountedFor(s, sym, d)' = 0
        BY <2>1 DEF CountedFor, NoPosition, Directions
      <3>2. globalQty'[sym][d] = IF Remaining(s, sym) <= 0 THEN 0 ELSE Remaining(s, sym)
        BY <1>1, <1>4, <2>1 DEF QtyWithout
      <3>3. Remaining(s, sym) = globalQty[sym][d] - CountedFor(s, sym, d)
        BY <1>4 DEF Remaining, CountedFor
      <3>4. globalQty[sym][d] \in Int
        BY <1>1
      <3>. QED
        BY <1>2, <3>1, <3>2, <3>3, <3>4 DEF Follows
    <2>2. CASE sym \notin gone
      <3>1. strategyPositions'[s][sym] = strategyPositions[s][sym]
        BY <1>4, <2>2 DEF KeyMissing
      <3>2. CountedFor(s, sym, d)' = CountedFor(s, sym, d) /\ globalQty'[sym][d] = globalQty[sym][d]
        BY <2>2, <3>1 DEF CountedFor, QtyWithout
      <3>. QED
        BY <1>1, <1>2, <3>2 DEF Follows
    <2>. QED
      BY <2>1, <2>2
  <1>5. CASE strategyPositions[s][sym].direction # d
    <2>1. globalQty'[sym][d] = globalQty[sym][d] /\ globalQty[sym][d] \in Int
      BY <1>1, <1>5 DEF QtyWithout
    <2>2. CountedFor(s, sym, d) = 0 /\ CountedFor(s, sym, d)' = 0
      BY <1>5 DEF CountedFor, NoPosition, Directions
    <2>. QED
      BY <2>1, <2>2 DEF Follows
  <1>. QED
    BY <1>3, <1>4, <1>5

LEMMA FollowsReconcile ==
  ASSUME TypeOK, NEW s \in Strategies, NEW m \in BrokerMaps(s), Reconcile(s, m),
         NEW sym \in Symbols, NEW d \in Directions
  PROVE  Follows(s, sym, d)
  <1> DEFINE gone == {x \in Symbols : Drops(s, m, x)}
  <1>0. strategyPositions'[s][sym] = Reconciled(s, m, sym)
    BY DEF Reconcile, TypeOK
  <1>1. /\ globalQty[sym] \in [Directions -> Int] /\ strategyPositions[s][sym] \in Position \union {NoPosition}
        /\ d \notin globalKeys[sym] => globalQty[sym][d] = 0
    BY CellFacts DEF TypeOK
  <1>2. CASE Adopts(s, m, sym)
    <2>1. Adopted(m, sym) \in Position
      BY <1>2, MapFacts DEF Adopts
    <2>2. strategyPositions'[s][sym] = Adopted(m, sym) /\ globalQty'[sym] = AdoptedQty(m, sym)
      BY <1>0, <1>2, OneOutcome DEF Reconciled, Reconcile
    <2>3. CountedFor(s, sym, d) = 0
      BY <1>2 DEF Adopts, Holds, CountedFor, NoPosition, Directions
    <2>4. CASE d = Adopted(m, sym).direction
      <3>1. globalQty'[sym][d] = Adopted(m, sym).qty /\ CountedFor(s, sym, d)' = Adopted(m, sym).qty
        BY <1>1, <2>2, <2>4 DEF AdoptedQty, CountedFor
      <3>. QED
        BY <2>1, <3>1 DEF Follows, Position
    <2>5. CASE d # Adopted(m, sym).direction
      <3>1. globalQty'[sym][d] = globalQty[sym][d] /\ CountedFor(s, sym, d)' = 0
        BY <1>1, <2>2, <2>5 DEF AdoptedQty, CountedFor
      <3>. QED
        BY <1>1, <2>3, <3>1 DEF Follows
    <2>. QED
      BY <2>4, <2>5
  <1>3. CASE Shrinks(s, m, sym)
    <2> DEFINE dir == strategyPositions[s][sym].direction
               q == strategyPositions[s][sym].qty
    <2>1. Holds(s, sym) /\ ~Adopts(s, m, sym) /\ ~Drops(s, m, sym) /\ m[sym][dir] \in Nat /\ q \in Nat /\ dir \in Directions
      BY <1>3, OneOutcome, CellFacts, MapFacts DEF Shrinks
    <2>2. /\ strategyPositions'[s][sym] = [strategyPositions[s][sym] EXCEPT !.qty = m[sym][dir]]
          /\ globalQty'[sym] = ShrunkQty(s, m, sym)
      BY <1>0, <1>3, <2>1 DEF Reconciled, Reconcile
    <2>3. strategyPositions[s][sym] \in Position
      BY <2>1, CellFacts
    <2>4. strategyPositions'[s][sym].direction = dir /\ strategyPositions'[s][sym].qty = m[sym][dir]
      BY <2>2, <2>3 DEF Position
    <2>5. CASE d = dir
      <3>1. CountedFor(s, sym, d) = q /\ CountedFor(s, sym, d)' = m[sym][dir]
        BY <2>4, <2>5 DEF CountedFor
      <3>2. globalQty'[sym][d] = IF d \in globalKeys[sym] THEN globalQty[sym][d] - (q - m[sym][dir]) ELSE 0
        BY <1>1, <2>2, <2>5 DEF ShrunkQty
      <3>3. globalQty[sym][d] \in Int
        BY <1>1
      <3> HIDE DEF dir, q
      <3>. QED
        BY <2>1, <3>1, <3>2, <3>3 DEF Follows
    <2>6. CASE d # dir
      <3>1. CountedFor(s, sym, d) = 0 /\ CountedFor(s, sym, d)' = 0
        BY <2>4, <2>6 DEF CountedFor
      <3>2. globalQty'[sym][d] = globalQty[sym][d] /\ globalQty[sym][d] \in Int
        BY <1>1, <2>2, <2>6 DEF ShrunkQty
      <3>. QED
        BY <3>1, <3>2 DEF Follows
    <2>. QED
      BY <2>5, <2>6
  <1>4. CASE ~Adopts(s, m, sym) /\ ~Shrinks(s, m, sym)
    <2>1. globalQty'[sym] = QtyWithout(s, gone, sym)
      BY <1>4 DEF Reconcile
    <2>2. sym \in gone => Holds(s, sym) /\ strategyPositions'[s][sym] = NoPosition
      BY <1>0, <1>4 DEF Reconciled, Drops
    <2>3. sym \notin gone => strategyPositions'[s][sym] = strategyPositions[s][sym]
      BY <1>0, <1>4 DEF Reconciled
    <2>. QED
      BY <2>1, <2>2, <2>3, FollowsRemoval
  <1>. QED
    BY <1>2, <1>3, <1>4

(* One step of the guard: of which strategy it changes the position, and   *)
(* that every total follows it but those left behind.                      *)
LEMMA StepOfOne ==
  ASSUME TypeOK, Next
  PROVE  \E s \in Strategies :
           /\ \A t \in Strategies \ {s} : strategyPositions'[t] = strategyPositions[t]
           /\ \A sym \in Symbols : \A d \in Directions : Follows(s, sym, d) \/ LeftBehind(sym)
  <1>1. ASSUME NEW s \in Strategies, NEW batch \in Batches(s), Entry(s, batch) \/ Adjust(s, batch)
        PROVE  /\ \A t \in Strategies \ {s} : strategyPositions'[t] = strategyPositions[t]
               /\ \A sym \in Symbols : \A d \in Directions : Follows(s, sym, d)
    <2>1. Accept(s, batch)
      BY <1>1 DEF Entry, Adjust
    <2>. QED
      BY <2>1, FollowsAccept DEF Accept, TypeOK
  <1>2. ASSUME NEW s \in Strategies, NEW m \in BrokerMaps(s), Reconcile(s, m)
        PROVE  /\ \A t \in Strategies \ {s} : strategyPositions'[t] = strategyPositions[t]
               /\ \A sym \in Symbols : \A d \in Directions : Follows(s, sym, d)
    BY <1>2, FollowsReconcile DEF Reconcile, TypeOK
  <1>3. ASSUME NEW s \in Strategies, NEW gone \in SUBSET Held(s), ClearAll(s, gone), NEW sym \in Symbols,
               NEW d \in Directions, sym \in gone \/ ~Holds(s, sym) \/ KeyMissing(s, sym)
        PROVE  Follows(s, sym, d)
    <2>1. strategyPositions'[s][sym] = NoPosition /\ globalQty'[sym] = QtyWithout(s, gone, sym)
      BY <1>3 DEF ClearAll, TypeOK
    <2>2. sym \in gone => Holds(s, sym)
      BY DEF Held
    <2>3. ~Holds(s, sym) => strategyPositions[s][sym] = NoPosition
      BY DEF Holds
    <2>. QED
      BY <1>3, <2>1, <2>2, <2>3, FollowsRemoval
  <1>4. ASSUME NEW s \in Strategies, ForceClose(s)
        PROVE  /\ \A t \in Strategies \ {s} : strategyPositions'[t] = strategyPositions[t]
               /\ \A sym \in Symbols : \A d \in Directions : Follows(s, sym, d)
    <2>1. ClearAll(s, Held(s)) /\ \A sym \in Symbols : sym \in Held(s) \/ ~Holds(s, sym)
      BY <1>4 DEF ForceClose, Held
    <2>. QED
      BY <1>3, <2>1 DEF ClearAll, TypeOK
  <1>5. ASSUME NEW s \in Strategies, ForceCloseFails(s)
        PROVE  /\ \A t \in Strategies \ {s} : strategyPositions'[t] = strategyPositions[t]
               /\ \A sym \in Symbols : \A d \in Directions : Follows(s, sym, d) \/ LeftBehind(sym)
    <2>1. PICK bad \in Held(s), visited \in SUBSET {x \in Held(s) : ~KeyMissing(s, x)} :
            KeyMissing(s, bad) /\ ClearAll(s, visited)
      BY <1>5 DEF ForceCloseFails
    <2>2. bad \in Symbols /\ visited \in SUBSET Held(s)
      BY DEF Held
    <2>3. ~HasStrategy(s)'
      BY <2>1 DEF ClearAll, HasStrategy, Holds, TypeOK
    <2>4. ASSUME NEW sym \in Symbols, NEW d \in Directions PROVE Follows(s, sym, d) \/ LeftBehind(sym)
      <3>1. CASE sym = bad \/ ~Holds(s, sym)
        BY <1>3, <2>1, <2>2, <3>1
      <3>2. CASE sym # bad /\ Holds(s, sym)
        BY <2>1, <2>2, <2>3, <3>2 DEF LeftBehind
      <3>. QED
        BY <3>1, <3>2
    <2>. QED
      BY <2>1, <2>4 DEF ClearAll, TypeOK
  <1>6. ASSUME NEW s \in Strategies, NEW x \in Symbols, ForceClearSymbol(s, x)
        PROVE  /\ \A t \in Strategies \ {s} : strategyPositions'[t] = strategyPositions[t]
               /\ \A sym \in Symbols : \A d \in Directions : Follows(s, sym, d)
    <2>1. ASSUME NEW sym \in Symbols, NEW d \in Directions PROVE Follows(s, sym, d)
      <3>1. globalQty'[sym] = QtyWithout(s, {x}, sym)
        BY <1>6 DEF ForceClearSymbol, QtyWithout, TypeOK
      <3>2. sym \in {x} => Holds(s, sym) /\ strategyPositions'[s][sym] = NoPosition
        BY <1>6 DEF ForceClearSymbol, TypeOK
      <3>3. sym \notin {x} => strategyPositions'[s][sym] = strategyPositions[s][sym]
        BY <1>6 DEF ForceClearSymbol, TypeOK
      <3>. QED
        BY <3>1, <3>2, <3>3, FollowsRemoval
    <2>. QED
      BY <1>6, <2>1 DEF ForceClearSymbol, TypeOK
  <1>. QED
    BY <1>1, <1>2, <1>4, <1>5, <1>6 DEF Next

LEMMA LotsInit == Init => LotsInv
  <1> SUFFICES ASSUME Init PROVE LotsInv
    OBVIOUS
  <1>1. TypeOK
    BY TypeInit
  <1>2. \A sym \in Symbols : \A d \in Directions : Lots(sym, d) = {}
    BY DEF Init, Lots, NoPosition, Directions
  <1>. QED
    BY <1>1, <1>2, FS_EmptySet DEF LotsInv

LEMMA LotsStep ==
  ASSUME LotsInv, [Next]_vars
  PROVE  LotsInv' /\ (Next => CoveredStaysCovered)
  <1>1. TypeOK /\ TypeOK'
    BY TypeStep DEF LotsInv
  <1>2. CASE UNCHANGED vars /\ ~Next
    BY <1>1, <1>2 DEF vars, LotsInv, Lots
  <1>3. CASE Next
    <2>1. PICK s \in Strategies :
            /\ \A t \in Strategies \ {s} : strategyPositions'[t] = strategyPositions[t]
            /\ \A sym \in Symbols : \A d \in Directions : Follows(s, sym, d) \/ LeftBehind(sym)
      BY <1>1, <1>3, StepOfOne
    <2>2. \A sym \in Symbols : \A t \in Strategies \ {s} : strategyPositions'[t][sym] = strategyPositions[t][sym]
      BY <2>1
    <2>3. \A sym \in Symbols : \A d \in Directions : IsFiniteSet(Lots(sym, d)')
      BY <1>1, <2>2, LotsChange
    <2>4. ASSUME NEW sym \in Symbols, NEW d \in Directions, Covered(sym, d), ~LeftBehind(sym) PROVE Covered(sym, d)'
      BY <1>1, <2>1, <2>2, <2>4, FollowingCovers
    <2>5. LotsInv'
      BY <1>1, <2>3 DEF LotsInv
    <2>6. CoveredStaysCovered
      BY <2>4 DEF CoveredStaysCovered
    <2>. QED
      BY <2>5, <2>6
  <1>. QED
    BY <1>2, <1>3

(* No call makes a total exceed the positions it sums up, for all numbers  *)
(* of strategies that share symbols and all broker maps, but when          *)
(* force_close_strategy stops at a missing key.                            *)
THEOREM TotalsStayCovered == Spec => TotalsAreCovered
  <1>1. LotsInv /\ [Next]_vars => LotsInv' /\ [CoveredStaysCovered]_vars
    BY LotsStep
  <1>. QED
    BY <1>1, LotsInit, PTL DEF Spec, TotalsAreCovered
-----------------------------------------------------------------------------
(* The alert pipeline: what a caller knows of the open orders while it     *)
(* holds the lock of the strategy.                                         *)
CallFields == {"pc", "alert", "seen", "marked", "plan", "left", "good", "sent", "tried", "answer"}
OrderFields == {"kind", "sym", "side", "qty", "asked", "status", "filled"}

(* Where a caller holds the lock of the strategy.                          *)
Inside == {"reconcile", "orders", "positions", "guard", "route", "batch", "wait", "look", "legs", "answer"}

(* The symbols a call has looked at for open orders and may still order.   *)
Pending(r) == IF r.pc \in {"positions", "guard"} THEN DOMAIN r.alert.legs
              ELSE IF r.pc \in {"route", "look", "legs"} THEN r.left ELSE {}

(* Of the symbols an ENTRY may still order, those with an open order are   *)
(* marked as duplicates.                                                   *)
Marked(r) == r.alert.type = "ENTRY" => \A sym \in Pending(r) : OpenOn(sym) # {} => sym \in r.marked

Records == /\ \E S : orders \in Seq(S)
           /\ \A i \in 1 .. Len(orders) : DOMAIN orders[i] = OrderFields

AlertInv ==
  /\ Records
  /\ DOMAIN call = Callers
  /\ \A c \in Callers : /\ DOMAIN call[c] = CallFields
                        /\ call[c].pc \in Inside => lock = c
                        /\ Marked(call[c])

LEMMA OrderFacts ==
  ASSUME Records PROVE Len(orders) \in Nat /\ DOMAIN orders = 1 .. Len(orders)
  BY DEF Records

(* One caller goes on; the orders change only under its lock.              *)
LEMMA OneCaller ==
  ASSUME AlertInv, NEW c \in Callers, NEW r, call' = [call EXCEPT ![c] = r], DOMAIN r = CallFields,
         Records', orders' = orders \/ (call[c].pc \in Inside /\ lock' = lock),
         \A d \in Callers : d # c /\ call[d].pc \in Inside => lock' = d,
         r.pc \in Inside => lock' = c,
         r.alert.type = "ENTRY" => \A sym \in Pending(r) : OpenOn(sym)' # {} => sym \in r.marked
  PROVE  AlertInv'
<1>1. DOMAIN call' = Callers /\ \A d \in Callers : call'[d] = IF d = c THEN r ELSE call[d]
  BY DEF AlertInv
<1>2. Marked(r)'
  BY DEF Marked, Pending
<1>3. ASSUME NEW d \in Callers, d # c PROVE Marked(call[d])'
  <2>1. CASE orders' = orders
    BY <1>1, <1>3, <2>1 DEF AlertInv, Marked, OpenOn
  <2>2. CASE call[c].pc \in Inside /\ lock' = lock
    <3>1. call[d].pc \notin Inside
      BY <1>3, <2>2 DEF AlertInv
    <3>2. Pending(call[d])' = {}
      BY <1>1, <1>3, <3>1 DEF Pending, Inside
    <3> QED
      BY <3>2 DEF Marked
  <2> QED
    BY <2>1, <2>2
<1>4. ASSUME NEW d \in Callers
      PROVE  DOMAIN call'[d] = CallFields /\ (call'[d].pc \in Inside => lock' = d) /\ Marked(call[d])'
  <2>1. CASE d = c
    <3>1. call'[d] = r
      BY <1>1, <2>1
    <3>2. Marked(call[d])'
      BY <1>2, <3>1 DEF Marked, Pending
    <3> QED
      BY <2>1, <3>1, <3>2
  <2>2. CASE d # c
    <3>1. call'[d] = call[d]
      BY <1>1, <2>2
    <3> QED
      BY <1>3, <2>2, <3>1 DEF AlertInv
  <2> QED
    BY <2>1, <2>2
<1> QED
  BY <1>1, <1>4 DEF AlertInv

(* A step that leaves orders and lock alone.                               *)
LEMMA CallerSteps ==
  ASSUME AlertInv, NEW c \in Callers, NEW r, call' = [call EXCEPT ![c] = r], DOMAIN r = CallFields,
         orders' = orders, lock' = lock, call[c].pc \in Inside,
         r.alert.type = "ENTRY" => \A sym \in Pending(r) : OpenOn(sym) # {} => sym \in r.marked
  PROVE  AlertInv'
<1>1. Records'
  BY DEF AlertInv, Records
<1>2. \A sym : OpenOn(sym)' = OpenOn(sym)
  BY DEF OpenOn
<1>3. lock = c /\ \A d \in Callers : call[d].pc \in Inside => lock' = d
  BY DEF AlertInv
<1> QED
  BY <1>1, <1>2, <1>3, OneCaller

(* It only goes to a place, or marks more, and has no more symbols left.   *)
LEMMA Narrows ==
  ASSUME AlertInv, NEW c \in Callers, NEW r, call' = [call EXCEPT ![c] = r], DOMAIN r = CallFields,
         orders' = orders, lock' = lock, call[c].pc \in Inside,
         r.alert = call[c].alert, r.alert.type = "ENTRY" => Pending(r) \subseteq Pending(call[c]) /\ call[c].marked \subseteq r.marked
  PROVE  AlertInv'
<1>1. Marked(call[c])
  BY DEF AlertInv
<1>2. r.alert.type = "ENTRY" => \A sym \in Pending(r) : OpenOn(sym) # {} => sym \in r.marked
  BY <1>1 DEF Marked
<1> QED
  BY <1>2, CallerSteps

(* One that waits for nothing any more.                                    *)
LEMMA AnsweredKeeps ==
  ASSUME AlertInv, NEW c \in Callers, NEW answer, Answered(c, answer), orders' = orders, lock' = lock, call[c].pc \in Inside
  PROVE  AlertInv'
<1> DEFINE r == [call[c] EXCEPT !.pc = "answer", !.answer = answer]
<1>1. call' = [call EXCEPT ![c] = r] /\ DOMAIN call[c] = CallFields
  BY DEF Answered, AlertInv
<1>2. DOMAIN r = CallFields /\ r.alert = call[c].alert /\ r.pc = "answer" /\ r.marked = call[c].marked
  BY <1>1 DEF CallFields
<1> HIDE DEF r
<1> QED
  BY <1>1, <1>2, Narrows DEF Pending

LEMMA GoKeeps ==
  ASSUME AlertInv, NEW c \in Callers, NEW pc, Go(c, pc), orders' = orders, lock' = lock, call[c].pc \in Inside,
         call[c].alert.type = "ENTRY" => pc \notin {"positions", "guard"} /\ (pc \in {"route", "look", "legs"} => At(c, "route"))
  PROVE  AlertInv'
<1> DEFINE r == [call[c] EXCEPT !.pc = pc]
<1>1. call' = [call EXCEPT ![c] = r] /\ DOMAIN call[c] = CallFields
  BY DEF Go, AlertInv
<1>2. DOMAIN r = CallFields /\ r.alert = call[c].alert /\ r.pc = pc /\ r.marked = call[c].marked /\ r.left = call[c].left
  BY <1>1 DEF CallFields
<1> HIDE DEF r
<1> QED
  BY <1>1, <1>2, Narrows DEF Pending, At

LEMMA ReceiveKeeps == ASSUME AlertInv, NEW c \in Callers, Receive(c) PROVE AlertInv'
<1>1. PICK a \in AlertChoice : call' = [call EXCEPT ![c] = [Idle EXCEPT !.pc = "lock", !.alert = a]]
  BY DEF Receive
<1> DEFINE r == [Idle EXCEPT !.pc = "lock", !.alert = a]
<1>2. DOMAIN r = CallFields /\ r.pc = "lock" /\ orders' = orders /\ lock' = lock
  BY DEF Idle, CallFields, Receive
<1> HIDE DEF r
<1>3. Pending(r) = {} /\ r.pc \notin Inside
  BY <1>2 DEF Pending, Inside
<1>4. Records' /\ \A d \in Callers : call[d].pc \in Inside => lock' = d
  BY <1>2 DEF AlertInv, Records
<1> QED
  BY <1>1, <1>2, <1>3, <1>4, OneCaller DEF r

LEMMA AcquireKeeps == ASSUME AlertInv, NEW c \in Callers, Acquire(c) PROVE AlertInv'
<1>1. lock = "free" /\ lock' = c /\ orders' = orders
  BY DEF Acquire, TakesLock
<1>2. \A d \in Callers : call[d].pc \notin Inside
  BY <1>1, CallersAssumption DEF AlertInv
<1>3. PICK r : call' = [call EXCEPT ![c] = r] /\ r.pc \in {"reconcile", "answer"} /\ DOMAIN r = CallFields
  <2>0. DOMAIN call[c] = CallFields
    BY DEF AlertInv
  <2>1. CASE Go(c, "reconcile")
    <3> DEFINE r == [call[c] EXCEPT !.pc = "reconcile"]
    <3>1. call' = [call EXCEPT ![c] = r] /\ r.pc = "reconcile" /\ DOMAIN r = CallFields
      BY <2>0, <2>1 DEF Go, CallFields
    <3> HIDE DEF r
    <3> QED
      BY <3>1
  <2>2. CASE Answered(c, "blocked")
    <3> DEFINE r == [call[c] EXCEPT !.pc = "answer", !.answer = "blocked"]
    <3>1. call' = [call EXCEPT ![c] = r] /\ r.pc = "answer" /\ DOMAIN r = CallFields
      BY <2>0, <2>2 DEF Answered, CallFields
    <3> HIDE DEF r
    <3> QED
      BY <3>1
  <2> QED
    BY <2>1, <2>2 DEF Acquire
<1>4. Pending(r) = {} /\ Records'
  BY <1>1, <1>3 DEF Pending, AlertInv, Records
<1> QED
  BY <1>1, <1>2, <1>3, <1>4, OneCaller

LEMMA CheckOrdersKeeps == ASSUME AlertInv, NEW c \in Callers, CheckOrders(c) PROVE AlertInv'
<1> DEFINE r == [call[c] EXCEPT !.pc = "positions", !.marked = DuplicateOrders(c)]
<1>1. call' = [call EXCEPT ![c] = r] /\ DOMAIN call[c] = CallFields /\ orders' = orders /\ lock' = lock /\ call[c].pc = "orders"
  BY DEF CheckOrders, AlertInv, At
<1>2. DOMAIN r = CallFields /\ r.alert = call[c].alert /\ r.pc = "positions" /\ r.marked = DuplicateOrders(c)
  BY <1>1 DEF CallFields
<1> HIDE DEF r
<1>3. \A sym \in Pending(r) : OpenOn(sym) # {} => sym \in r.marked
  BY <1>2 DEF Pending, DuplicateOrders, Legs
<1> QED
  BY <1>1, <1>2, <1>3, CallerSteps DEF Inside

LEMMA CheckPositionsKeeps == ASSUME AlertInv, NEW c \in Callers, CheckPositions(c) PROVE AlertInv'
<1>1. PICK more : call' = [call EXCEPT ![c].pc = "guard", ![c].marked = @ \cup more]
  BY DEF CheckPositions
<1> DEFINE r == [call[c] EXCEPT !.pc = "guard", !.marked = @ \cup more]
<1>2. call' = [call EXCEPT ![c] = r] /\ DOMAIN call[c] = CallFields /\ orders' = orders /\ lock' = lock /\ call[c].pc = "positions"
  BY <1>1 DEF CheckPositions, AlertInv, At
<1>3. DOMAIN r = CallFields /\ r.alert = call[c].alert /\ r.pc = "guard" /\ r.marked = call[c].marked \cup more
  BY <1>2 DEF CallFields
<1> HIDE DEF r
<1> QED
  BY <1>2, <1>3, Narrows DEF Pending, Inside

LEMMA GuardKeeps == ASSUME AlertInv, NEW c \in Callers, Guard(c) PROVE AlertInv'
<1> DEFINE r == [call[c] EXCEPT !.pc = "route", !.plan = Planned(c), !.left = Legs(c)]
<1>1. call' = [call EXCEPT ![c] = r] /\ DOMAIN call[c] = CallFields /\ orders' = orders /\ lock' = lock /\ call[c].pc = "guard"
  BY DEF Guard, AlertInv, At
<1>2. DOMAIN r = CallFields /\ r.alert = call[c].alert /\ r.pc = "route" /\ r.marked = call[c].marked /\ r.left = Legs(c)
  BY <1>1 DEF CallFields
<1> HIDE DEF r
<1> QED
  BY <1>1, <1>2, Narrows DEF Pending, Legs, Inside

LEMMA RouteKeeps == ASSUME AlertInv, NEW c \in Callers, Route(c) PROVE AlertInv'
<1>1. orders' = orders /\ lock' = lock /\ At(c, "route") /\ DOMAIN call[c] = CallFields
  BY DEF Route, AlertInv
<1>2. CASE Go(c, IF Type(c) = "EXIT" THEN "look" ELSE "legs")
  BY <1>1, <1>2, GoKeeps DEF At, Inside
<1>3. CASE Answered(c, "FAILED")
  BY <1>1, <1>3, AnsweredKeeps DEF At, Inside
<1>4. ASSUME NEW outs, call' = [call EXCEPT ![c].pc = "batch", ![c].left = outs, ![c].marked = outs] PROVE AlertInv'
  <2> DEFINE r == [call[c] EXCEPT !.pc = "batch", !.left = outs, !.marked = outs]
  <2>1. call' = [call EXCEPT ![c] = r]
    BY <1>4
  <2>2. DOMAIN r = CallFields /\ r.pc = "batch"
    BY <1>1 DEF CallFields
  <2> HIDE DEF r
  <2> QED
    BY <1>1, <2>1, <2>2, CallerSteps DEF Pending, At, Inside
<1> QED
  BY <1>2, <1>3, <1>4 DEF Route
LEMMA Appended ==
  ASSUME Records, NEW o, DOMAIN o = OrderFields, orders' = Append(orders, o)
  PROVE  /\ Records' /\ DOMAIN orders' \ DOMAIN orders = {Len(orders) + 1} /\ orders'[Len(orders) + 1] = o
         /\ \A sym : OpenOn(sym)' # {} => OpenOn(sym) # {} \/ sym = o.sym
<1>1. PICK S : orders \in Seq(S)
  BY DEF Records
<1>2. orders \in Seq(S \cup {o}) /\ o \in S \cup {o}
  BY <1>1
<1>3. /\ orders' \in Seq(S \cup {o}) /\ Len(orders') = Len(orders) + 1 /\ Len(orders) \in Nat
      /\ \A i \in 1 .. Len(orders) : orders'[i] = orders[i]
      /\ orders'[Len(orders) + 1] = o
  BY <1>2
<1>4. DOMAIN orders = 1 .. Len(orders) /\ DOMAIN orders' = 1 .. Len(orders) + 1
  BY <1>2, <1>3
<1>5. \A i \in 1 .. Len(orders) + 1 : i \in 1 .. Len(orders) \/ i = Len(orders) + 1
  BY <1>3
<1>6. Records'
  BY <1>3, <1>5 DEF Records
<1>7. ASSUME NEW sym, NEW i \in OpenOn(sym)', sym # o.sym PROVE i \in OpenOn(sym)
  BY <1>3, <1>4, <1>5, <1>7 DEF OpenOn
<1> QED
  BY <1>3, <1>4, <1>6, <1>7

LEMMA OrderMade ==
  ASSUME NEW kind, NEW sym, NEW side, NEW qty, NEW asked, NEW status
  PROVE  LET o == Order(kind, sym, side, qty, asked, status)
         IN DOMAIN o = OrderFields /\ o.sym = sym /\ o.kind = kind
  BY DEF Order, OrderFields

(* A step of a caller that adds an order for a symbol it has done with.    *)
LEMMA Adds ==
  ASSUME AlertInv, NEW c \in Callers, NEW r, call' = [call EXCEPT ![c] = r], DOMAIN r = CallFields,
         NEW o, DOMAIN o = OrderFields, orders' = Append(orders, o), lock' = lock, call[c].pc \in Inside,
         r.alert = call[c].alert, r.marked = call[c].marked,
         Pending(r) \subseteq Pending(call[c]) \ {o.sym}
  PROVE  AlertInv'
<1>1. Records' /\ \A sym : OpenOn(sym)' # {} => OpenOn(sym) # {} \/ sym = o.sym
  BY Appended DEF AlertInv
<1>2. lock = c /\ Marked(call[c]) /\ \A d \in Callers : call[d].pc \in Inside => lock' = d
  BY DEF AlertInv
<1>3. r.alert.type = "ENTRY" => \A sym \in Pending(r) : OpenOn(sym)' # {} => sym \in r.marked
  BY <1>1, <1>2 DEF Marked
<1> QED
  BY <1>1, <1>2, <1>3, OneCaller

LEMMA RegisterBatchKeeps == ASSUME AlertInv, NEW c \in Callers, RegisterBatch(c) PROVE AlertInv'
<1>1. lock' = lock /\ call[c].pc = "batch" /\ DOMAIN call[c] = CallFields
  BY DEF RegisterBatch, AlertInv, At
<1>2. PICK sym \in call[c].left :
        \/ /\ orders' = Append(orders, Order("EXIT", sym, Leg(c, sym).direction, call[c].plan[sym], Leg(c, sym).qty, "CREATED"))
           /\ call' = [call EXCEPT ![c].left = @ \ {sym}, ![c].good = @ + 1, ![c].sent = @ + 1]
        \/ call' = [call EXCEPT ![c].left = @ \ {sym}] /\ orders' = orders
  BY DEF RegisterBatch
<1>3. CASE call' = [call EXCEPT ![c].left = @ \ {sym}] /\ orders' = orders
  <2> DEFINE r == [call[c] EXCEPT !.left = @ \ {sym}]
  <2>1. call' = [call EXCEPT ![c] = r] /\ DOMAIN r = CallFields /\ r.pc = "batch"
    BY <1>1, <1>3 DEF CallFields
  <2> HIDE DEF r
  <2> QED
    BY <1>1, <1>3, <2>1, CallerSteps DEF Pending, Inside
<1>4. CASE /\ orders' = Append(orders, Order("EXIT", sym, Leg(c, sym).direction, call[c].plan[sym], Leg(c, sym).qty, "CREATED"))
           /\ call' = [call EXCEPT ![c].left = @ \ {sym}, ![c].good = @ + 1, ![c].sent = @ + 1]
  <2> DEFINE r == [call[c] EXCEPT !.left = @ \ {sym}, !.good = @ + 1, !.sent = @ + 1]
             o == Order("EXIT", sym, Leg(c, sym).direction, call[c].plan[sym], Leg(c, sym).qty, "CREATED")
  <2>1. /\ call' = [call EXCEPT ![c] = r] /\ DOMAIN r = CallFields /\ r.pc = "batch"
        /\ r.alert = call[c].alert /\ r.marked = call[c].marked
    BY <1>1, <1>4 DEF CallFields
  <2>2. DOMAIN o = OrderFields /\ orders' = Append(orders, o)
    BY <1>4, OrderMade
  <2> HIDE DEF r, o
  <2>3. Pending(r) = {}
    BY <2>1 DEF Pending
  <2> QED
    BY <1>1, <2>1, <2>2, <2>3, Adds DEF Inside
<1> QED
  BY <1>2, <1>3, <1>4

LEMMA WaitingKeeps ==
  ASSUME AlertInv, NEW c \in Callers, BatchRegistered(c) \/ WaitUntilFlat(c) \/ WaitTimesOut(c) PROVE AlertInv'
<1>1. orders' = orders /\ lock' = lock /\ call[c].pc \in Inside /\ (Go(c, "wait") \/ \E answer : Answered(c, answer))
  BY DEF BatchRegistered, WaitUntilFlat, WaitTimesOut, TimesOut, At, Inside
<1> QED
  BY <1>1, GoKeeps, AnsweredKeeps

LEMMA LookForExitKeeps == ASSUME AlertInv, NEW c \in Callers, LookForExit(c) PROVE AlertInv'
<1>1. PICK p : call' = [call EXCEPT ![c].pc = "legs", ![c].seen = p]
  BY DEF LookForExit
<1> DEFINE r == [call[c] EXCEPT !.pc = "legs", !.seen = p]
<1>2. call' = [call EXCEPT ![c] = r] /\ DOMAIN call[c] = CallFields /\ orders' = orders /\ lock' = lock /\ call[c].pc = "look"
  BY <1>1 DEF LookForExit, AlertInv, At
<1>3. DOMAIN r = CallFields /\ r.alert = call[c].alert /\ r.pc = "legs" /\ r.marked = call[c].marked /\ r.left = call[c].left
  BY <1>2 DEF CallFields
<1> HIDE DEF r
<1> QED
  BY <1>2, <1>3, Narrows DEF Pending, Inside

LEMMA ProcessLegKeeps == ASSUME AlertInv, NEW c \in Callers, ProcessLeg(c) PROVE AlertInv'
<1>1. lock' = lock /\ call[c].pc = "legs" /\ DOMAIN call[c] = CallFields
  BY DEF ProcessLeg, AlertInv, At
<1>2. PICK sym \in call[c].left : SkipLeg(c, sym) \/ FailLeg(c, sym) \/ SendLeg(c, sym)
  BY DEF ProcessLeg
<1>3. CASE SkipLeg(c, sym)
  <2> DEFINE r == [call[c] EXCEPT !.left = @ \ {sym}]
  <2>1. /\ call' = [call EXCEPT ![c] = r] /\ DOMAIN r = CallFields /\ r.pc = "legs" /\ orders' = orders
        /\ r.alert = call[c].alert /\ r.marked = call[c].marked /\ r.left = call[c].left \ {sym}
    BY <1>1, <1>3 DEF SkipLeg, CallFields
  <2> HIDE DEF r
  <2> QED
    BY <1>1, <2>1, Narrows DEF Pending, Inside
<1>4. CASE FailLeg(c, sym)
  <2> DEFINE r == [call[c] EXCEPT !.left = @ \ {sym}, !.tried = TRUE]
  <2>1. /\ call' = [call EXCEPT ![c] = r] /\ DOMAIN r = CallFields /\ r.pc = "legs" /\ orders' = orders
        /\ r.alert = call[c].alert /\ r.marked = call[c].marked /\ r.left = call[c].left \ {sym}
    BY <1>1, <1>4 DEF FailLeg, CallFields
  <2> HIDE DEF r
  <2> QED
    BY <1>1, <2>1, Narrows DEF Pending, Inside
<1>5. CASE SendLeg(c, sym)
  <2> DEFINE r == [call[c] EXCEPT !.left = @ \ {sym}, !.tried = TRUE, !.good = @ + 1, !.sent = @ + 1]
  <2>1. /\ call' = [call EXCEPT ![c] = r] /\ DOMAIN r = CallFields /\ r.pc = "legs"
        /\ r.alert = call[c].alert /\ r.marked = call[c].marked /\ r.left = call[c].left \ {sym}
    BY <1>1, <1>5 DEF SendLeg, CallFields
  <2>2. PICK status : orders' = Append(orders, Order(Type(c), sym, Side(c, sym), call[c].plan[sym], Leg(c, sym).qty, status))
    BY <1>5 DEF SendLeg
  <2> DEFINE o == Order(Type(c), sym, Side(c, sym), call[c].plan[sym], Leg(c, sym).qty, status)
  <2>3. DOMAIN o = OrderFields /\ o.sym = sym /\ orders' = Append(orders, o)
    BY <2>2, OrderMade
  <2> HIDE DEF r, o
  <2>4. Pending(r) \subseteq Pending(call[c]) \ {o.sym}
    BY <1>1, <2>1, <2>3 DEF Pending
  <2> QED
    BY <1>1, <2>1, <2>3, <2>4, Adds DEF Inside
<1> QED
  BY <1>2, <1>3, <1>4, <1>5

LEMMA AnswerKeeps == ASSUME AlertInv, NEW c \in Callers, Answer(c) PROVE AlertInv'
<1>1. call' = [call EXCEPT ![c] = Idle] /\ orders' = orders /\ lock = c /\ DOMAIN Idle = CallFields /\ Idle.pc = "idle"
  BY DEF Answer, AlertInv, At, Inside, Idle, CallFields
<1>2. \A d \in Callers : d # c => call[d].pc \notin Inside
  BY <1>1 DEF AlertInv
<1>3. Pending(Idle) = {} /\ Idle.pc \notin Inside /\ Records'
  BY <1>1 DEF Pending, Inside, AlertInv, Records
<1> QED
  BY <1>1, <1>2, <1>3, OneCaller

LEMMA CallerKeeps == ASSUME AlertInv, NEW c \in Callers, Receive(c) \/ Acquire(c) \/ Step(c) PROVE AlertInv'
<1>1. CASE ReconcileGuard(c)
  <2>1. /\ orders' = orders /\ lock' = lock /\ call[c].pc \in Inside
        /\ Go(c, IF Type(c) = "ENTRY" THEN "orders" ELSE "guard")
    BY <1>1 DEF ReconcileGuard, At, Inside
  <2> QED
    BY <2>1, GoKeeps DEF Type
<1>2. CASE GuardRefuses(c)
  <2>1. orders' = orders /\ lock' = lock /\ call[c].pc \in Inside /\ Answered(c, "blocked")
    BY <1>2 DEF GuardRefuses, At, Inside
  <2> QED
    BY <2>1, AnsweredKeeps
<1>3. CASE LegsDone(c)
  <2>1. orders' = orders /\ lock' = lock /\ call[c].pc \in Inside /\ \E answer : Answered(c, answer)
    BY <1>3 DEF LegsDone, At, Inside
  <2> QED
    BY <2>1, AnsweredKeeps
<1> QED
  BY <1>1, <1>2, <1>3, ReceiveKeeps, AcquireKeeps, CheckOrdersKeeps, CheckPositionsKeeps, GuardKeeps, RouteKeeps,
     RegisterBatchKeeps, WaitingKeeps, LookForExitKeeps, ProcessLegKeeps, AnswerKeeps DEF Step

(* The watcher and the broker open no order again.                         *)
LEMMA OneOrder ==
  ASSUME AlertInv, NEW i \in DOMAIN orders, NEW o, orders' = [orders EXCEPT ![i] = o], UNCHANGED <<call, lock>>,
         DOMAIN o = OrderFields, o.sym = orders[i].sym, o.status \in Open => orders[i].status \in Open
  PROVE  AlertInv'
<1>1. PICK S : orders \in Seq(S)
  BY DEF AlertInv, Records
<1>2. orders \in Seq(S \cup {o})
  BY <1>1
<1>3. orders' \in Seq(S \cup {o}) /\ Len(orders') = Len(orders) /\ DOMAIN orders' = DOMAIN orders /\ DOMAIN orders = 1 .. Len(orders)
      /\ \A j \in 1 .. Len(orders) : orders'[j] = IF j = i THEN o ELSE orders[j]
  BY <1>2
<1>4. Records'
  BY <1>3 DEF AlertInv, Records
<1>5. \A sym : OpenOn(sym)' \subseteq OpenOn(sym)
  BY <1>3 DEF OpenOn
<1>6. ASSUME NEW c \in Callers PROVE Marked(call[c])'
  BY <1>5 DEF AlertInv, Marked, Pending
<1> QED
  BY <1>4, <1>6 DEF AlertInv

LEMMA WatcherKeeps ==
  ASSUME AlertInv, NEW i \in DOMAIN orders, Dispatch(i) \/ Fill(i) \/ PollFilled(i) \/ PollRefused(i) PROVE AlertInv'
<1>1. UNCHANGED <<call, lock>> /\ DOMAIN orders[i] = OrderFields
  <2>1. UNCHANGED <<call, lock>>
    BY DEF Dispatch, Fill, PollFilled, PollRefused
  <2>2. DOMAIN orders[i] = OrderFields
    BY OrderFacts DEF AlertInv, Records
  <2> QED
    BY <2>1, <2>2
<1>2. CASE Fill(i)
  <2> DEFINE o == [orders[i] EXCEPT !.filled = TRUE]
  <2>1. orders' = [orders EXCEPT ![i] = o] /\ DOMAIN o = OrderFields /\ o.sym = orders[i].sym /\ o.status = orders[i].status
    BY <1>1, <1>2 DEF Fill, OrderFields
  <2> HIDE DEF o
  <2> QED
    BY <1>1, <2>1, OneOrder
<1>3. ASSUME NEW status, orders' = [orders EXCEPT ![i].status = status], orders[i].status \in Open PROVE AlertInv'
  <2> DEFINE o == [orders[i] EXCEPT !.status = status]
  <2>1. orders' = [orders EXCEPT ![i] = o] /\ DOMAIN o = OrderFields /\ o.sym = orders[i].sym
    BY <1>1, <1>3 DEF OrderFields
  <2> HIDE DEF o
  <2> QED
    BY <1>1, <1>3, <2>1, OneOrder
<1> QED
  BY <1>2, <1>3 DEF Dispatch, PollFilled, PollRefused, Open

LEMMA InitAlertInv == ASSUME PipeInit PROVE AlertInv
<1>1. /\ orders \in Seq({}) /\ Len(orders) = 0 /\ DOMAIN call = Callers
      /\ \A c \in Callers : call[c] = Idle
  BY DEF PipeInit
<1>2. DOMAIN Idle = CallFields /\ Idle.pc = "idle" /\ Pending(Idle) = {}
  BY DEF Idle, CallFields, Pending
<1> QED
  BY <1>1, <1>2 DEF AlertInv, Records, Marked, Inside

LEMMA NextAlertInv == ASSUME AlertInv, [PipeNext]_<<vars, pipeVars>> PROVE AlertInv'
<1>1. ASSUME UNCHANGED <<orders, call, lock>> PROVE AlertInv'
  BY <1>1 DEF AlertInv, Records, Marked, Pending, OpenOn
<1>2. CASE PollReconciles \/ Expire \/ UNCHANGED <<vars, pipeVars>>
  <2>1. UNCHANGED <<orders, call, lock>>
    BY <1>2 DEF PollReconciles, Expire, pipeVars
  <2> QED
    BY <1>1, <2>1
<1> QED
  BY <1>2, CallerKeeps, WatcherKeeps DEF PipeNext

(* What a step appends.                                                    *)
LEMMA EntryHasNoOpenOrder ==
  ASSUME AlertInv, [PipeNext]_<<vars, pipeVars>>, NEW i \in DOMAIN orders' \ DOMAIN orders, orders'[i].kind = "ENTRY"
  PROVE  OpenOn(orders'[i].sym) = {}
<1>1. CASE DOMAIN orders' = DOMAIN orders
  BY <1>1
<1>2. ASSUME NEW c \in Callers, RegisterBatch(c) PROVE OpenOn(orders'[i].sym) = {}
  <2>1. CASE orders' = orders
    BY <2>1
  <2>2. ASSUME NEW sym, NEW side, NEW qty, NEW asked, NEW status, orders' = Append(orders, Order("EXIT", sym, side, qty, asked, status))
        PROVE  FALSE
    <3>1. orders'[i] = Order("EXIT", sym, side, qty, asked, status)
      BY <2>2, OrderMade, Appended DEF AlertInv
    <3> QED
      BY <3>1, OrderMade
  <2> QED
    BY <1>2, <2>1, <2>2 DEF RegisterBatch
<1>3. ASSUME NEW c \in Callers, ProcessLeg(c) PROVE OpenOn(orders'[i].sym) = {}
  <2>1. PICK sym \in call[c].left : SkipLeg(c, sym) \/ FailLeg(c, sym) \/ SendLeg(c, sym)
    BY <1>3 DEF ProcessLeg
  <2>2. CASE SkipLeg(c, sym) \/ FailLeg(c, sym)
    BY <2>2 DEF SkipLeg, FailLeg
  <2>3. CASE SendLeg(c, sym)
    <3>1. PICK status : orders' = Append(orders, Order(Type(c), sym, Side(c, sym), call[c].plan[sym], Leg(c, sym).qty, status))
      BY <2>3 DEF SendLeg
    <3>2. orders'[i] = Order(Type(c), sym, Side(c, sym), call[c].plan[sym], Leg(c, sym).qty, status)
      BY <3>1, OrderMade, Appended DEF AlertInv
    <3>3. orders'[i].sym = sym /\ Type(c) = "ENTRY"
      BY <3>2, OrderMade
    <3>4. sym \notin call[c].marked
      BY <2>3, <3>3 DEF SendLeg, IsDuplicate
    <3>5. sym \in Pending(call[c]) /\ Marked(call[c])
      BY <1>3 DEF ProcessLeg, At, Pending, AlertInv
    <3> QED
      BY <3>3, <3>4, <3>5 DEF Marked, Type
  <2> QED
    BY <2>1, <2>2, <2>3
<1>4. ASSUME NEW c \in Callers, Receive(c) \/ Acquire(c) \/ Step(c), ~RegisterBatch(c), ~ProcessLeg(c)
      PROVE  DOMAIN orders' = DOMAIN orders
  <2>1. orders' = orders
    BY <1>4 DEF Step, Receive, Acquire, ReconcileGuard, CheckOrders, CheckPositions, Guard, GuardRefuses, Route,
       BatchRegistered, WaitUntilFlat, WaitTimesOut, LookForExit, LegsDone, Answer
  <2> QED
    BY <2>1
<1>5. ASSUME NEW j \in DOMAIN orders, Dispatch(j) \/ Fill(j) \/ PollFilled(j) \/ PollRefused(j)
      PROVE  DOMAIN orders' = DOMAIN orders
  BY <1>5 DEF Dispatch, Fill, PollFilled, PollRefused
<1>6. CASE PollReconciles \/ Expire \/ UNCHANGED <<vars, pipeVars>>
  BY <1>6 DEF PollReconciles, Expire, pipeVars
<1> QED
  BY <1>1, <1>2, <1>3, <1>4, <1>5, <1>6 DEF PipeNext, Step

(* However many callers bring alerts, and however orders move meanwhile,   *)
(* an ENTRY is never sent on a symbol with an order of the strategy open:  *)
(* the look for open orders and the sending are under one lock.            *)
THEOREM EntriesFindNoOpenOrder == PipeSpec => NoEntryOverOpenOrder
<1>1. PipeInit => AlertInv
  BY InitAlertInv
<1>2. AlertInv /\ [PipeNext]_<<vars, pipeVars>> => AlertInv'
  BY NextAlertInv
<1>3. AlertInv /\ [PipeNext]_<<vars, pipeVars>> =>
        [\A i \in DOMAIN orders' \ DOMAIN orders :
           orders'[i].kind = "ENTRY" => OpenOn(orders'[i].sym) = {}]_<<vars, pipeVars>>
  BY EntryHasNoOpenOrder
<1> QED
  BY <1>1, <1>2, <1>3, PTL DEF PipeSpec, NoEntryOverOpenOrder
-----------------------------------------------------------------------------
(* The guard of the part "blind": strategies share symbols, no map lists   *)
(* a position.                                                             *)
(* total is the sum of q over the strategies: numbered in some order, the  *)
(* sums of the first ones grow by one strategy after the other.            *)
Runs(p, n, e, q) ==
  /\ p \in [0 .. n -> Nat] /\ p[0] = 0
  /\ \A i \in 1 .. n : p[i] = p[i - 1] + q[e[i]]
  /\ \A i, j \in 0 .. n : i <= j => p[i] <= p[j]

IsSum(total, q) ==
  \E n \in Nat : \E e \in Bijection(1 .. n, Strategies) : \E p : Runs(p, n, e, q) /\ p[n] = total

LEMMA NothingSums == IsSum(0, [s \in Strategies |-> 0])
<1>1. PICK n \in Nat : ExistsBijection(1 .. n, Strategies)
  BY BlindAssumption, FS_NatBijection, Zenon
<1>2. PICK e \in Bijection(1 .. n, Strategies) : TRUE
  BY <1>1, Zenon DEF ExistsBijection
<1>3. e \in [1 .. n -> Strategies]
  BY <1>2, Zenon DEF Bijection, Injection
<1> DEFINE p == [i \in 0 .. n |-> 0]
<1>4. Runs(p, n, e, [s \in Strategies |-> 0]) /\ p[n] = 0
  BY <1>3 DEF Runs
<1> QED
  BY <1>2, <1>4 DEF IsSum

LEMMA SumBounds ==
  ASSUME NEW total, NEW q \in [Strategies -> Nat], IsSum(total, q), NEW s \in Strategies
  PROVE  total \in Nat /\ q[s] <= total
<1>0. PICK n \in Nat : \E e \in Bijection(1 .. n, Strategies) : \E p : Runs(p, n, e, q) /\ p[n] = total
  BY DEF IsSum
<1>1. PICK e \in Bijection(1 .. n, Strategies) : \E p : Runs(p, n, e, q) /\ p[n] = total
  BY <1>0
<1>2. PICK p : Runs(p, n, e, q) /\ p[n] = total
  BY <1>1
<1>3. PICK k \in 1 .. n : e[k] = s
  BY <1>1, Zenon DEF Bijection, Surjection
<1>4. p[k] = p[k - 1] + q[s] /\ p[k] <= p[n] /\ p[k - 1] \in Nat /\ p[k] \in Nat /\ p[n] \in Nat
  BY <1>2, <1>3 DEF Runs
<1> QED
  BY <1>2, <1>4

(* The part of one strategy changes, and the sum with it.                  *)
LEMMA SumChanges ==
  ASSUME NEW total, NEW q \in [Strategies -> Nat], IsSum(total, q), NEW s \in Strategies, NEW v \in Nat
  PROVE  IsSum(total - q[s] + v, [q EXCEPT ![s] = v])
<1>0. PICK n \in Nat : \E e \in Bijection(1 .. n, Strategies) : \E p : Runs(p, n, e, q) /\ p[n] = total
  BY DEF IsSum
<1>1. PICK e \in Bijection(1 .. n, Strategies) : \E p : Runs(p, n, e, q) /\ p[n] = total
  BY <1>0
<1>2. PICK p : Runs(p, n, e, q) /\ p[n] = total
  BY <1>1
<1>3. PICK k \in 1 .. n : e[k] = s
  BY <1>1, Zenon DEF Bijection, Surjection
<1>4. e \in [1 .. n -> Strategies] /\ \A i \in 1 .. n : e[i] = s => i = k
  <2>1. e \in [1 .. n -> Strategies] /\ IsInjective(e)
    BY <1>1, Zenon DEF Bijection, Injection
  <2> QED
    BY <1>3, <2>1 DEF IsInjective
<1> DEFINE w == [q EXCEPT ![s] = v]
           r == [i \in 0 .. n |-> IF i < k THEN p[i] ELSE p[i] - q[s] + v]
<1>5. p \in [0 .. n -> Nat] /\ q[s] \in Nat /\ p[k] = p[k - 1] + q[s] /\ p[0] = 0
      /\ (\A i, j \in 0 .. n : i <= j => p[i] <= p[j]) /\ (\A i \in 1 .. n : p[i] = p[i - 1] + q[e[i]])
  BY <1>2, <1>3 DEF Runs
<1>6. ASSUME NEW i \in 0 .. n, i >= k PROVE p[i] - q[s] \in Nat /\ p[k - 1] <= p[i] - q[s]
  <2>1. p[k] <= p[i] /\ p[k] \in Nat /\ p[i] \in Nat /\ p[k - 1] \in Nat
    BY <1>3, <1>5, <1>6
  <2> QED
    BY <1>5, <2>1
<1>7. r \in [0 .. n -> Nat] /\ r[0] = 0
  BY <1>3, <1>5, <1>6
<1>8. ASSUME NEW i \in 1 .. n PROVE r[i] = r[i - 1] + w[e[i]]
  <2>1. p[i] = p[i - 1] + q[e[i]] /\ p[i] \in Nat /\ p[i - 1] \in Nat /\ q[e[i]] \in Nat /\ e[i] \in Strategies
    BY <1>4, <1>5
  <2>2. CASE i < k
    BY <1>4, <2>1, <2>2
  <2>3. CASE i = k
    BY <1>3, <1>5, <2>1, <2>3
  <2>4. CASE i > k
    <3>1. w[e[i]] = q[e[i]]
      BY <1>4, <2>1, <2>4
    <3>2. r[i] = p[i] - q[s] + v /\ r[i - 1] = p[i - 1] - q[s] + v
      BY <1>3, <2>4
    <3>0. \A a, b, c, d \in Int : a = b + c => a - d + v = (b - d + v) + c
      OBVIOUS
    <3>3. p[i] - q[s] + v = (p[i - 1] - q[s] + v) + q[e[i]]
      <4>1. p[i] \in Int /\ p[i - 1] \in Int /\ q[s] \in Int /\ q[e[i]] \in Int /\ p[i] = p[i - 1] + q[e[i]]
        BY <1>5, <2>1
      <4> QED
        BY <3>0, <4>1
    <3> HIDE DEF r, w
    <3> QED
      BY <3>1, <3>2, <3>3
  <2> QED
    BY <1>3, <2>2, <2>3, <2>4
<1>9. ASSUME NEW i \in 0 .. n, NEW j \in 0 .. n, i <= j PROVE r[i] <= r[j]
  <2>1. p[i] <= p[j] /\ p[i] \in Nat /\ p[j] \in Nat /\ p[k - 1] \in Nat
    BY <1>3, <1>5, <1>9
  <2>2. CASE j < k
    BY <1>9, <2>1, <2>2
  <2>3. CASE i < k /\ j >= k
    <3>1. p[i] <= p[k - 1]
      BY <1>3, <1>5, <2>3
    <3>2. r[i] = p[i] /\ r[j] = p[j] - q[s] + v /\ p[k - 1] <= p[j] - q[s]
      BY <1>6, <2>3
    <3> QED
      BY <1>5, <2>1, <3>1, <3>2
  <2>4. CASE i >= k
    BY <1>5, <1>9, <2>1, <2>4
  <2> QED
    BY <1>3, <1>9, <2>2, <2>3, <2>4
<1>10. r[n] = total - q[s] + v
  BY <1>2, <1>3
<1> HIDE DEF r, w
<1>11. Runs(r, n, e, w)
  BY <1>7, <1>8, <1>9 DEF Runs
<1> QED
  BY <1>1, <1>10, <1>11 DEF IsSum, w
-----------------------------------------------------------------------------
(* What a cell counts for a direction; the parts of a total.               *)
Counts(cell, d) == IF cell.direction = d THEN cell.qty ELSE 0
Part(sym, d) == [s \in Strategies |-> Counts(positions[s][sym], d)]

Cells == Blind!Position \cup {Blind!NoPosition}

(* Without any map the totals are the sums of the positions, and a         *)
(* direction is a key when its total is not zero.                          *)
BlindInv ==
  /\ positions \in [Strategies -> [BlindSymbols -> Cells]]
  /\ keys \in [BlindSymbols -> SUBSET Blind!Directions]
  /\ totals \in [BlindSymbols -> [Blind!Directions -> Int]]
  /\ \A sym \in BlindSymbols : \A d \in Blind!Directions :
       /\ IsSum(totals[sym][d], Part(sym, d))
       /\ d \in keys[sym] <=> totals[sym][d] > 0

LEMMA CountFacts ==
  ASSUME NEW cell \in Cells, NEW d \in Blind!Directions
  PROVE  /\ Counts(cell, d) \in Nat /\ cell.qty \in Nat
         /\ cell = Blind!NoPosition => Counts(cell, d) = 0
         /\ cell # Blind!NoPosition => cell \in Blind!Position /\ cell.direction \in Blind!Directions /\ cell.qty > 0
  BY DEF Counts, Cells, Blind!Position, Blind!NoPosition, Blind!Directions

LEMMA CellBounds ==
  ASSUME BlindInv, NEW s \in Strategies, NEW sym \in BlindSymbols, NEW d \in Blind!Directions
  PROVE  /\ positions[s][sym] \in Cells /\ totals[sym][d] \in Nat
         /\ Counts(positions[s][sym], d) \in Nat /\ Counts(positions[s][sym], d) <= totals[sym][d]
<1>1. \A t \in Strategies : positions[t][sym] \in Cells
  BY DEF BlindInv
<1>2. Part(sym, d) \in [Strategies -> Nat] /\ Part(sym, d)[s] = Counts(positions[s][sym], d)
  BY <1>1, CountFacts DEF Part
<1>3. totals[sym][d] \in Nat /\ Part(sym, d)[s] <= totals[sym][d]
  BY <1>2, SumBounds DEF BlindInv
<1> QED
  BY <1>1, <1>2, <1>3, CountFacts

(* One cell changes, and the totals of its symbol by what it counted and   *)
(* what it counts.                                                         *)
LEMMA CellChanges ==
  ASSUME BlindInv, NEW s \in Strategies, NEW sym \in BlindSymbols, NEW d \in Blind!Directions, NEW b \in Cells,
         \A t \in Strategies : positions'[t][sym] = IF t = s THEN b ELSE positions[t][sym],
         totals'[sym][d] = totals[sym][d] - Counts(positions[s][sym], d) + Counts(b, d)
  PROVE  IsSum(totals'[sym][d], Part(sym, d)')
<1>1. \A t \in Strategies : positions[t][sym] \in Cells
  BY DEF BlindInv
<1>2. /\ Part(sym, d) \in [Strategies -> Nat] /\ Part(sym, d)[s] = Counts(positions[s][sym], d)
      /\ Part(sym, d)' = [Part(sym, d) EXCEPT ![s] = Counts(b, d)] /\ Counts(b, d) \in Nat
  BY <1>1, CountFacts DEF Part, Counts
<1>3. IsSum(totals[sym][d], Part(sym, d))
  BY DEF BlindInv
<1> DEFINE q == Part(sym, d)
           v == Counts(b, d)
<1>4. q \in [Strategies -> Nat] /\ v \in Nat /\ IsSum(totals[sym][d], q)
  BY <1>2, <1>3
<1>5. totals'[sym][d] = totals[sym][d] - q[s] + v /\ Part(sym, d)' = [q EXCEPT ![s] = v]
  BY <1>2
<1> HIDE DEF q, v
<1>6. IsSum(totals[sym][d] - q[s] + v, [q EXCEPT ![s] = v])
  BY <1>4, SumChanges
<1> QED
  BY <1>5, <1>6

(* The invariant after a step of one strategy, symbol by symbol: its cell  *)
(* changes to b[sym].                                                      *)
LEMMA StepKeeps ==
  ASSUME BlindInv, NEW s \in Strategies, NEW b \in [BlindSymbols -> Cells],
         positions' = [positions EXCEPT ![s] = b],
         keys' \in [BlindSymbols -> SUBSET Blind!Directions],
         totals' \in [BlindSymbols -> [Blind!Directions -> Int]],
         \A sym \in BlindSymbols : \A d \in Blind!Directions :
           /\ totals'[sym][d] = totals[sym][d] - Counts(positions[s][sym], d) + Counts(b[sym], d)
           /\ d \in keys'[sym] <=> totals'[sym][d] > 0
  PROVE  BlindInv'
<1>1. positions' \in [Strategies -> [BlindSymbols -> Cells]]
  BY DEF BlindInv
<1>2. ASSUME NEW sym \in BlindSymbols, NEW t \in Strategies PROVE positions'[t][sym] = IF t = s THEN b[sym] ELSE positions[t][sym]
  BY DEF BlindInv
<1>3. ASSUME NEW sym \in BlindSymbols, NEW d \in Blind!Directions PROVE IsSum(totals'[sym][d], Part(sym, d)')
  BY <1>2, CellChanges
<1>4. ASSUME NEW sym \in BlindSymbols, NEW d \in Blind!Directions
      PROVE  (IsSum(totals[sym][d], Part(sym, d)))' /\ (d \in keys[sym] <=> totals[sym][d] > 0)'
  BY <1>3
<1> QED
  BY <1>1, <1>4 DEF BlindInv, Cells

(* A removal of the positions of s on the symbols of gone.                 *)
LEMMA RemovalKeeps ==
  ASSUME BlindInv, NEW s \in Strategies, NEW gone \in SUBSET BlindSymbols, \A sym \in gone : Blind!Holds(s, sym),
         positions' = [positions EXCEPT ![s] = [sym \in BlindSymbols |-> IF sym \in gone THEN Blind!NoPosition ELSE positions[s][sym]]],
         keys' = [sym \in BlindSymbols |-> Blind!KeysWithout(s, gone, sym)],
         totals' = [sym \in BlindSymbols |-> Blind!QtyWithout(s, gone, sym)]
  PROVE  BlindInv'
<1> DEFINE b == [sym \in BlindSymbols |-> IF sym \in gone THEN Blind!NoPosition ELSE positions[s][sym]]
<1>1. b \in [BlindSymbols -> Cells]
  BY DEF BlindInv, Cells
<1>2. ASSUME NEW sym \in BlindSymbols
      PROVE  /\ Blind!KeysWithout(s, gone, sym) \in SUBSET Blind!Directions
             /\ Blind!QtyWithout(s, gone, sym) \in [Blind!Directions -> Int]
             /\ \A d \in Blind!Directions :
                  /\ Blind!QtyWithout(s, gone, sym)[d] = totals[sym][d] - Counts(positions[s][sym], d) + Counts(b[sym], d)
                  /\ d \in Blind!KeysWithout(s, gone, sym) <=> Blind!QtyWithout(s, gone, sym)[d] > 0
  <2>1. /\ keys[sym] \in SUBSET Blind!Directions /\ totals[sym] \in [Blind!Directions -> Int]
        /\ \A d \in Blind!Directions : d \in keys[sym] <=> totals[sym][d] > 0
    BY DEF BlindInv
  <2>2. \A d \in Blind!Directions :
          /\ positions[s][sym] \in Cells /\ totals[sym][d] \in Nat
          /\ Counts(positions[s][sym], d) \in Nat /\ Counts(positions[s][sym], d) <= totals[sym][d]
    BY CellBounds
  <2>3. CASE sym \notin gone
    <3>1. b[sym] = positions[s][sym]
      BY <2>3
    <3>2. Blind!KeysWithout(s, gone, sym) = keys[sym] /\ Blind!QtyWithout(s, gone, sym) = totals[sym]
      BY <2>3 DEF Blind!KeysWithout, Blind!QtyWithout
    <3> HIDE DEF b
    <3> QED
      BY <2>1, <2>2, <3>1, <3>2
  <2>4. CASE sym \in gone
    <3> DEFINE dir == positions[s][sym].direction
               qty == positions[s][sym].qty
    <3>1. positions[s][sym] \in Cells
      BY DEF BlindInv
    <3>2. positions[s][sym] # Blind!NoPosition
      BY <2>4 DEF Blind!Holds
    <3>3. dir \in Blind!Directions /\ qty \in Nat /\ qty > 0
      BY <3>1, <3>2, CountFacts DEF Blind!Directions
    <3>4. Counts(positions[s][sym], dir) = qty /\ \A d \in Blind!Directions : d # dir => Counts(positions[s][sym], d) = 0
      BY DEF Counts
    <3>5. b[sym] = Blind!NoPosition /\ \A d \in Blind!Directions : Counts(b[sym], d) = 0
      BY <2>4, CountFacts DEF Cells
    <3>6. totals[sym][dir] \in Nat /\ qty <= totals[sym][dir] /\ dir \in keys[sym]
      BY <2>1, <2>2, <3>3, <3>4
    <3>7. Blind!Remaining(s, sym) = totals[sym][dir] - qty
      BY DEF Blind!Remaining
    <3>8. Blind!QtyWithout(s, gone, sym) = [totals[sym] EXCEPT ![dir] = totals[sym][dir] - qty]
      <4>1. Blind!Remaining(s, sym) <= 0 => totals[sym][dir] - qty = 0
        BY <3>3, <3>6, <3>7
      <4> QED
        BY <2>4, <3>6, <3>7, <4>1 DEF Blind!QtyWithout
    <3>9. Blind!KeysWithout(s, gone, sym) = IF totals[sym][dir] - qty <= 0 THEN keys[sym] \ {dir} ELSE keys[sym]
      BY <2>4, <3>6, <3>7 DEF Blind!KeysWithout
    <3>10. ASSUME NEW d \in Blind!Directions
           PROVE  /\ Blind!QtyWithout(s, gone, sym)[d] = IF d = dir THEN totals[sym][dir] - qty ELSE totals[sym][d]
                  /\ totals[sym][d] \in Nat
      BY <2>1, <2>2, <3>8
    <3> HIDE DEF b, dir, qty
    <3>11. Blind!QtyWithout(s, gone, sym) \in [Blind!Directions -> Int]
      BY <2>1, <3>3, <3>6, <3>8
    <3> QED
      BY <2>1, <3>3, <3>4, <3>5, <3>6, <3>9, <3>10, <3>11
  <2> QED
    BY <2>3, <2>4
<1> HIDE DEF b
<1>3. /\ keys' \in [BlindSymbols -> SUBSET Blind!Directions]
      /\ totals' \in [BlindSymbols -> [Blind!Directions -> Int]]
  BY <1>2
<1>4. ASSUME NEW sym \in BlindSymbols, NEW d \in Blind!Directions
      PROVE  /\ totals'[sym][d] = totals[sym][d] - Counts(positions[s][sym], d) + Counts(b[sym], d)
             /\ d \in keys'[sym] <=> totals'[sym][d] > 0
  BY <1>2
<1> QED
  BY <1>1, <1>3, <1>4, StepKeeps DEF b

(* An accepted call adds to the totals what its legs add to the cells.     *)
LEMMA AcceptKeeps ==
  ASSUME BlindInv, NEW s \in Strategies, NEW batch \in Blind!Batches(s), Blind!Accept(s, batch)
  PROVE  BlindInv'
<1>1. PICK legs \in (SUBSET BlindTraded[s]) \ {{}} : batch \in [legs -> [direction : Blind!Directions, qty : 0 .. BlindQty]]
  BY DEF Blind!Batches
<1>2. legs \subseteq BlindSymbols /\ DOMAIN batch = legs
  BY <1>1, BlindAssumption
<1>3. ASSUME NEW sym \in legs
      PROVE  /\ batch[sym] \in Blind!Position /\ batch[sym] \in Cells /\ batch[sym] # Blind!NoPosition
             /\ batch[sym].direction \in Blind!Directions /\ batch[sym].qty \in Nat /\ batch[sym].qty > 0
  <2>1. batch[sym] \in [direction : Blind!Directions, qty : 0 .. BlindQty] /\ 0 .. BlindQty \subseteq Nat
    BY <1>1, BlindAssumption
  <2>2. batch[sym].qty > 0
    BY <1>2 DEF Blind!Accept, Blind!WellFormed
  <2> QED
    BY <2>1, <2>2 DEF Blind!Position, Cells, Blind!NoPosition, Blind!Directions
<1> DEFINE b == [sym \in BlindSymbols |-> IF sym \in legs THEN batch[sym] ELSE positions[s][sym]]
           more(sym) == sym \in legs /\ batch[sym].qty - positions[s][sym].qty > 0
<1>4. b \in [BlindSymbols -> Cells] /\ positions' = [positions EXCEPT ![s] = b]
  BY <1>2, <1>3 DEF BlindInv, Blind!Accept
<1>5. ASSUME NEW sym \in BlindSymbols
      PROVE  /\ sym \in DOMAIN Blind!Approved(s, batch) <=> more(sym)
             /\ more(sym) => Blind!Approved(s, batch)[sym] = batch[sym].qty - positions[s][sym].qty
  BY <1>2 DEF Blind!Approved, Blind!Delta
<1>6. ASSUME NEW sym \in BlindSymbols
      PROVE  /\ keys'[sym] = IF more(sym) THEN keys[sym] \cup {batch[sym].direction} ELSE keys[sym]
             /\ totals'[sym] = [d \in Blind!Directions |->
                   IF more(sym) /\ d = batch[sym].direction
                   THEN totals[sym][d] + (batch[sym].qty - positions[s][sym].qty) ELSE totals[sym][d]]
  BY <1>5 DEF Blind!Accept
<1>7. ASSUME NEW sym \in BlindSymbols, NEW d \in Blind!Directions
      PROVE  /\ totals'[sym][d] = totals[sym][d] - Counts(positions[s][sym], d) + Counts(b[sym], d)
             /\ d \in keys'[sym] <=> totals'[sym][d] > 0
  <2>1. /\ positions[s][sym] \in Cells /\ totals[sym][d] \in Nat
        /\ Counts(positions[s][sym], d) \in Nat /\ Counts(positions[s][sym], d) <= totals[sym][d]
        /\ positions[s][sym].qty \in Nat /\ (d \in keys[sym] <=> totals[sym][d] > 0)
    BY CellBounds, CountFacts DEF BlindInv
  <2>2. CASE sym \notin legs
    <3>1. b[sym] = positions[s][sym] /\ ~more(sym)
      BY <2>2
    <3>2. totals'[sym][d] = totals[sym][d] /\ keys'[sym] = keys[sym]
      BY <1>6, <3>1
    <3> HIDE DEF b, more
    <3> QED
      BY <2>1, <3>1, <3>2
  <2>3. CASE sym \in legs
    <3> DEFINE dir == batch[sym].direction
               old == positions[s][sym].qty
               new == batch[sym].qty
    <3>1. b[sym] = batch[sym] /\ dir \in Blind!Directions /\ new \in Nat /\ new > 0 /\ old \in Nat /\ new - old >= 0
      BY <1>2, <1>3, <2>1, <2>3 DEF Blind!Accept, Blind!NoReduction, Blind!Delta
    <3>2. Counts(b[sym], d) = IF d = dir THEN new ELSE 0
      BY <3>1 DEF Counts
    <3>3. Counts(positions[s][sym], d) = IF d = dir THEN old ELSE 0
      <4>1. CASE positions[s][sym] = Blind!NoPosition
        BY <4>1, CountFacts DEF Blind!NoPosition, Cells
      <4>2. CASE positions[s][sym] # Blind!NoPosition
        <5>1. positions[s][sym].direction = dir
          BY <1>2, <2>3, <4>2 DEF Blind!Accept, Blind!SameDirection, Blind!Holds
        <5> QED
          BY <5>1 DEF Counts
      <4> QED
        BY <4>1, <4>2
    <3>4. totals'[sym][d] = IF new - old > 0 /\ d = dir THEN totals[sym][d] + (new - old) ELSE totals[sym][d]
      BY <1>6, <2>3
    <3>5. d \in keys'[sym] <=> d \in keys[sym] \/ (new - old > 0 /\ d = dir)
      BY <1>6, <2>3
    <3> HIDE DEF b, more, dir, old, new
    <3> QED
      BY <2>1, <3>1, <3>2, <3>3, <3>4, <3>5
  <2> QED
    BY <2>2, <2>3
<1>8. /\ keys' \in [BlindSymbols -> SUBSET Blind!Directions]
      /\ totals' \in [BlindSymbols -> [Blind!Directions -> Int]]
  <2>1. DOMAIN keys' = BlindSymbols /\ keys' = [sym \in BlindSymbols |-> keys'[sym]]
        /\ totals' = [sym \in BlindSymbols |-> totals'[sym]]
    BY DEF Blind!Accept
  <2>2. ASSUME NEW sym \in BlindSymbols PROVE keys'[sym] \in SUBSET Blind!Directions /\ totals'[sym] \in [Blind!Directions -> Int]
    <3>1. keys[sym] \in SUBSET Blind!Directions /\ positions[s][sym].qty \in Nat
          /\ \A d \in Blind!Directions : totals[sym][d] \in Int
      BY CountFacts DEF BlindInv, Cells, Blind!Position, Blind!NoPosition
    <3>2. more(sym) => batch[sym].direction \in Blind!Directions /\ batch[sym].qty - positions[s][sym].qty \in Int
      BY <1>3, <3>1
    <3>3. /\ keys'[sym] = IF more(sym) THEN keys[sym] \cup {batch[sym].direction} ELSE keys[sym]
          /\ totals'[sym] = [d \in Blind!Directions |->
                IF more(sym) /\ d = batch[sym].direction
                THEN totals[sym][d] + (batch[sym].qty - positions[s][sym].qty) ELSE totals[sym][d]]
      BY <1>6
    <3> DEFINE added == batch[sym].qty - positions[s][sym].qty
               dir == batch[sym].direction
               grows == more(sym)
    <3>4. keys'[sym] = IF grows THEN keys[sym] \cup {dir} ELSE keys[sym]
      BY <3>3
    <3>5. totals'[sym] = [d \in Blind!Directions |-> IF grows /\ d = dir THEN totals[sym][d] + added ELSE totals[sym][d]]
      BY <3>3
    <3>6. grows => dir \in Blind!Directions /\ added \in Int
      BY <3>2
    <3> HIDE DEF more, added, dir, grows
    <3>7. keys'[sym] \in SUBSET Blind!Directions
      BY <3>1, <3>4, <3>6
    <3>8. totals'[sym] \in [Blind!Directions -> Int]
      BY <3>1, <3>5, <3>6
    <3> QED
      BY <3>7, <3>8
  <2> QED
    BY <2>1, <2>2
<1> HIDE DEF b
<1> QED
  BY <1>4, <1>7, <1>8, StepKeeps

(* A map of nothing drops all there is.                                    *)
LEMMA ReconcileKeeps == ASSUME BlindInv, NEW s \in Strategies, NEW m \in Blind!BrokerMaps(s), Blind!Reconcile(s, m) PROVE BlindInv'
<1> DEFINE gone == {sym \in BlindSymbols : Blind!Drops(s, m, sym)}
<1>1. \A sym \in BlindSymbols : \A d \in Blind!Directions : m[sym][d] = 0
  BY DEF Blind!BrokerMaps
<1>2. ASSUME NEW sym \in BlindSymbols
      PROVE  ~Blind!Adopts(s, m, sym) /\ ~Blind!Shrinks(s, m, sym) /\ (Blind!Drops(s, m, sym) <=> Blind!Holds(s, sym))
  <2>1. Blind!Holds(s, sym) => positions[s][sym].direction \in Blind!Directions
    BY CountFacts DEF BlindInv, Blind!Holds, Blind!Directions
  <2> QED
    BY <1>1, <2>1 DEF Blind!Adopts, Blind!Shrinks, Blind!Drops
<1>3. ASSUME NEW sym \in BlindSymbols
      PROVE  Blind!Reconciled(s, m, sym) = IF sym \in gone THEN Blind!NoPosition ELSE positions[s][sym]
  BY <1>2 DEF Blind!Reconciled
<1> HIDE DEF gone
<1>4. /\ positions' = [positions EXCEPT ![s] = [sym \in BlindSymbols |-> IF sym \in gone THEN Blind!NoPosition ELSE positions[s][sym]]]
      /\ keys' = [sym \in BlindSymbols |-> Blind!KeysWithout(s, gone, sym)]
      /\ totals' = [sym \in BlindSymbols |-> Blind!QtyWithout(s, gone, sym)]
  BY <1>2, <1>3 DEF Blind!Reconcile, gone
<1>5. gone \in SUBSET BlindSymbols /\ \A sym \in gone : Blind!Holds(s, sym)
  BY <1>2 DEF gone
<1> QED
  BY <1>4, <1>5, RemovalKeeps

(* No key is missing, so that a position is never left half removed.       *)
LEMMA NoBlindKeyMissing == ASSUME BlindInv, NEW s \in Strategies, NEW sym \in BlindSymbols PROVE ~Blind!KeyMissing(s, sym)
<1>1. SUFFICES ASSUME Blind!Holds(s, sym) PROVE positions[s][sym].direction \in keys[sym]
  BY DEF Blind!KeyMissing
<1> DEFINE d == positions[s][sym].direction
<1>2. positions[s][sym] \in Cells /\ positions[s][sym] # Blind!NoPosition
  BY <1>1 DEF BlindInv, Blind!Holds
<1>3. d \in Blind!Directions /\ positions[s][sym].qty > 0 /\ positions[s][sym].qty \in Nat
  BY <1>2, CountFacts DEF Blind!Directions
<1>4. Counts(positions[s][sym], d) = positions[s][sym].qty
  BY DEF Counts
<1> HIDE DEF d
<1>5. totals[sym][d] > 0
  BY <1>3, <1>4, CellBounds
<1> QED
  BY <1>3, <1>5 DEF BlindInv, d

LEMMA RemovalsKeep ==
  ASSUME BlindInv, NEW s \in Strategies,
         Blind!ForceClose(s) \/ Blind!ForceCloseFails(s) \/ \E sym \in BlindSymbols : Blind!ForceClearSymbol(s, sym)
  PROVE  BlindInv'
<1>1. CASE Blind!ForceClose(s)
  <2> DEFINE gone == Blind!Held(s)
  <2>1. gone \in SUBSET BlindSymbols /\ \A sym \in BlindSymbols : sym \in gone <=> Blind!Holds(s, sym)
    BY DEF Blind!Held
  <2>2. \A sym \in BlindSymbols : (IF sym \in gone THEN Blind!NoPosition ELSE positions[s][sym]) = Blind!NoPosition
    BY <2>1 DEF Blind!Holds
  <2>3. /\ positions' = [positions EXCEPT ![s] = [sym \in BlindSymbols |-> IF sym \in gone THEN Blind!NoPosition ELSE positions[s][sym]]]
        /\ keys' = [sym \in BlindSymbols |-> Blind!KeysWithout(s, gone, sym)]
        /\ totals' = [sym \in BlindSymbols |-> Blind!QtyWithout(s, gone, sym)]
    BY <1>1, <2>2 DEF Blind!ForceClose, Blind!ClearAll
  <2> HIDE DEF gone
  <2> QED
    BY <2>1, <2>3, RemovalKeeps
<1>2. CASE Blind!ForceCloseFails(s)
  BY <1>2, NoBlindKeyMissing DEF Blind!ForceCloseFails, Blind!Held
<1>3. ASSUME NEW sym \in BlindSymbols, Blind!ForceClearSymbol(s, sym) PROVE BlindInv'
  <2> DEFINE gone == {sym}
  <2>1. ASSUME NEW x \in BlindSymbols, x # sym
        PROVE  Blind!KeysWithout(s, gone, x) = keys[x] /\ Blind!QtyWithout(s, gone, x) = totals[x]
    BY <2>1 DEF Blind!KeysWithout, Blind!QtyWithout
  <2>2. keys = [x \in BlindSymbols |-> keys[x]] /\ totals = [x \in BlindSymbols |-> totals[x]]
        /\ positions[s] \in [BlindSymbols -> Cells] /\ positions \in [Strategies -> [BlindSymbols -> Cells]]
    BY DEF BlindInv
  <2>3. positions' = [positions EXCEPT ![s] = [x \in BlindSymbols |-> IF x \in gone THEN Blind!NoPosition ELSE positions[s][x]]]
    BY <1>3, <2>2 DEF Blind!ForceClearSymbol
  <2>4. keys' = [x \in BlindSymbols |-> Blind!KeysWithout(s, gone, x)]
    BY <1>3, <2>1, <2>2 DEF Blind!ForceClearSymbol
  <2>5. totals' = [x \in BlindSymbols |-> Blind!QtyWithout(s, gone, x)]
    BY <1>3, <2>1, <2>2 DEF Blind!ForceClearSymbol
  <2>6. gone \in SUBSET BlindSymbols /\ \A x \in gone : Blind!Holds(s, x)
    BY <1>3 DEF Blind!ForceClearSymbol
  <2> HIDE DEF gone
  <2> QED
    BY <2>3, <2>4, <2>5, <2>6, RemovalKeeps
<1> QED
  BY <1>1, <1>2, <1>3

LEMMA InitBlindInv == ASSUME Blind!Init PROVE BlindInv
<1>1. ASSUME NEW sym \in BlindSymbols, NEW d \in Blind!Directions
      PROVE  totals[sym][d] = 0 /\ Part(sym, d) = [s \in Strategies |-> 0] /\ keys[sym] = {}
  BY DEF Blind!Init, Part, Counts, Blind!NoPosition, Blind!Directions
<1>2. ASSUME NEW sym \in BlindSymbols, NEW d \in Blind!Directions
      PROVE  IsSum(totals[sym][d], Part(sym, d)) /\ (d \in keys[sym] <=> totals[sym][d] > 0)
  <2>1. ~(0 > 0)
    OBVIOUS
  <2> QED
    BY <1>1, <2>1, NothingSums, Zenon
<1> QED
  BY <1>2 DEF Blind!Init, BlindInv, Cells

LEMMA NextBlindInv == ASSUME BlindInv, [Blind!Next]_(Blind!vars) PROVE BlindInv'
<1>1. CASE UNCHANGED Blind!vars
  <2>1. positions' = positions /\ keys' = keys /\ totals' = totals
    BY <1>1 DEF Blind!vars
  <2>2. ASSUME NEW sym \in BlindSymbols, NEW d \in Blind!Directions
        PROVE  (IsSum(totals[sym][d], Part(sym, d)))' /\ (d \in keys[sym] <=> totals[sym][d] > 0)'
    <3>1. IsSum(totals[sym][d], Part(sym, d)) /\ (d \in keys[sym] <=> totals[sym][d] > 0)
      BY DEF BlindInv
    <3>2. Part(sym, d)' = Part(sym, d)
      BY <2>1 DEF Part, Counts
    <3>3. (IsSum(totals[sym][d], Part(sym, d)))'
      BY <2>1, <3>1, <3>2
    <3> QED
      BY <2>1, <3>1, <3>3
  <2> QED
    BY <2>1, <2>2 DEF BlindInv
<1> QED
  BY <1>1, AcceptKeeps, ReconcileKeeps, RemovalsKeep DEF Blind!Next, Blind!Entry, Blind!Adjust

(* An opposite position would be in a total that the rule looks at.        *)
LEMMA NoConflictAccepted == ASSUME BlindInv PROVE Blind!AcceptsNoConflict
<1>1. SUFFICES ASSUME NEW s \in Strategies, NEW batch \in Blind!Batches(s), Blind!Accept(s, batch),
                      NEW sym \in DOMAIN batch, NEW t \in Strategies, Blind!Holds(t, sym),
                      positions[t][sym].direction # batch[sym].direction
               PROVE  FALSE
  BY DEF Blind!AcceptsNoConflict
<1>2. sym \in BlindSymbols
  BY BlindAssumption DEF Blind!Batches
<1> DEFINE d == positions[t][sym].direction
<1>3. positions[t][sym] \in Cells /\ positions[t][sym] # Blind!NoPosition
  BY <1>1, <1>2 DEF BlindInv, Blind!Holds
<1>4. d \in Blind!Directions /\ positions[t][sym].qty > 0 /\ positions[t][sym].qty \in Nat
  BY <1>3, CountFacts DEF Blind!Directions
<1>5. Counts(positions[t][sym], d) = positions[t][sym].qty
  BY DEF Counts
<1> HIDE DEF d
<1>6. totals[sym][d] > 0 /\ totals[sym][d] \in Nat
  BY <1>2, <1>4, <1>5, CellBounds
<1>7. d \in keys[sym]
  BY <1>2, <1>4, <1>6 DEF BlindInv
<1>8. totals[sym][d] <= 0
  BY <1>1, <1>7 DEF Blind!Accept, Blind!NoConflict, d
<1> QED
  BY <1>6, <1>8

(* As long as no map lists a position, the guard lets no strategy take a   *)
(* side opposite to a position another one is recorded with, for any       *)
(* number of strategies and symbols they share.                            *)
THEOREM ConflictsAreSeen == Blind!Spec => NoConflictUnseen
<1>1. Blind!Init => BlindInv
  BY InitBlindInv
<1>2. BlindInv /\ [Blind!Next]_(Blind!vars) => BlindInv'
  BY NextBlindInv
<1>3. BlindInv => [part = "blind" => Blind!AcceptsNoConflict]_<<part, other>>
  BY NoConflictAccepted
<1> QED
  BY <1>1, <1>2, <1>3, PTL DEF Blind!Spec, NoConflictUnseen
=============================================================================
