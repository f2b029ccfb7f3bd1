---------------------------- MODULE StrategyProofs ----------------------------
(* Proofs about StrategyLegs, for any legs, orders, days and faults, and   *)
(* about StrategyRules as MCStrategies has it, for any configurations,     *)
(* prices, ticks, days and crashes.                                        *)
EXTENDS MCStrategies, FiniteSetTheorems, WellFoundedInduction, TLAPS

(* An order that may still buy contract c; one that was filled after the   *)
(* service had expired it, or without the table knowing of it.             *)
Buys(o, c) == o.on = c /\ o.opens /\ o.live /\ o.status = "SENT_TO_BROKER"
FilledAstray(o, c) == o.on = c /\ o.status \in {"EXPIRED", "UNSEEN"} /\ o.filled

OrderFields == {"on", "opens", "status", "day", "live", "filled"}

(* An order is at the broker from its dispatch until it is filled, refused *)
(* or of another day, even when the table says EXPIRED; what waits for its *)
(* dispatch is an exit.                                                    *)
WellFormed(o) ==
  /\ DOMAIN o = OrderFields
  /\ o.opens \in BOOLEAN /\ o.live \in BOOLEAN /\ o.filled \in BOOLEAN
  /\ o.live => o.status \in {"SENT_TO_BROKER", "EXPIRED", "UNSEEN"}
  /\ o.status = "CREATED" => ~o.opens /\ ~o.filled
  /\ o.filled => ~o.live

IsList(l) == \E S : l \in Seq(S)

OrderTypes ==
  /\ IsList(orders) /\ net \in [Contracts -> Int]
  /\ \A i \in 1 .. Len(orders) : WellFormed(orders[i])

(* Without a stray fill and an entry on a wrong list a contract is held    *)
(* once at most, and while an order may buy it, it is not held and there   *)
(* is no other.                                                            *)
HeldOnce(c) ==
  c \notin misread /\ (\A i \in 1 .. Len(orders) : ~FilledAstray(orders[i], c)) =>
    /\ net[c] <= 1
    /\ \A i \in 1 .. Len(orders) : Buys(orders[i], c) =>
         net[c] <= 0 /\ \A j \in 1 .. Len(orders) : Buys(orders[j], c) => j = i

Bought == EntryLegs \X Strikes

LegInv == OrderTypes /\ \A c \in Bought : HeldOnce(c)

-----------------------------------------------------------------------------
(* Lists of orders: what follows one, and what is made of one.             *)
LEMMA ListFacts ==
  ASSUME NEW l, IsList(l)
  PROVE  Len(l) \in Nat /\ DOMAIN l = 1 .. Len(l)
  BY DEF IsList

LEMMA Joined ==
  ASSUME NEW l, IsList(l), NEW q, IsList(q)
  PROVE  /\ IsList(l \o q) /\ Len(l \o q) = Len(l) + Len(q)
         /\ \A i \in 1 .. Len(l) : (l \o q)[i] = l[i]
         /\ \A i \in 1 .. Len(l) + Len(q) : i > Len(l) => i - Len(l) \in 1 .. Len(q) /\ (l \o q)[i] = q[i - Len(l)]
<1>1. PICK S : l \in Seq(S)
  BY DEF IsList
<1>2. PICK T : q \in Seq(T)
  BY DEF IsList
<1>3. l \in Seq(S \cup T) /\ q \in Seq(S \cup T)
  BY <1>1, <1>2
<1>4. l \o q \in Seq(S \cup T)
  BY <1>3
<1> QED
  BY <1>3, <1>4 DEF IsList

LEMMA Mapped ==
  ASSUME NEW n \in Nat, NEW l, l = [i \in 1 .. n |-> l[i]]
  PROVE  IsList(l) /\ Len(l) = n
<1> DEFINE S == {l[i] : i \in 1 .. n}
<1>1. l \in [1 .. n -> S]
  OBVIOUS
<1> HIDE DEF S
<1>2. l \in Seq(S)
  BY <1>1
<1>3. Len(l) = n
  BY <1>1, <1>2
<1> QED
  BY <1>2, <1>3 DEF IsList

(* The orders that are placed for some contracts: one for each.            *)
ArePlaced(q, these, opens, status) ==
  /\ IsList(q)
  /\ \A i \in 1 .. Len(q) : /\ WellFormed(q[i]) /\ q[i].on \in these /\ q[i].opens = opens
                            /\ q[i].status = status /\ ~q[i].filled
                            /\ \A j \in 1 .. Len(q) : q[i].on = q[j].on => i = j

LEMMA PlacedOrders ==
  ASSUME NEW these, IsFiniteSet(these), NEW opens \in BOOLEAN, NEW status \in Open \cup {"UNSEEN"},
         status = "CREATED" => ~opens, NEW q, q = Placed(these, opens, status)
  PROVE  ArePlaced(q, these, opens, status)
<1> DEFINE S == {Order(c, opens, status) : c \in these}
<1>1. IsFiniteSet(S)
  <2> DEFINE g == [c \in these |-> Order(c, opens, status)]
  <2>2. g \in Surjection(these, S)
    BY DEF Surjection
  <2> HIDE DEF g, S
  <2> QED
    BY <2>2, FS_Surjection
<1>2. PICK n \in Nat : ExistsBijection(1 .. n, S)
  BY <1>1, FS_NatBijection, Zenon
<1>3. n = Cardinality(S)
  BY <1>2, FS_CountingElements, Zenon
<1>4. PICK f \in Bijection(1 .. n, S) : TRUE
  BY <1>2, Zenon DEF ExistsBijection
<1>5. f \in [1 .. n -> S] /\ IsInjective(f)
  BY <1>4, Zenon DEF Bijection, Injection
<1>6. q \in [1 .. n -> S] /\ IsInjective(q)
  BY <1>3, <1>5, Zenon DEF SetToSeq, Placed
<1>7. IsList(q) /\ Len(q) = n
  BY <1>6, Mapped
<1>8. ASSUME NEW c \in these
      PROVE  LET o == Order(c, opens, status)
             IN WellFormed(o) /\ o.on = c /\ o.opens = opens /\ o.status = status /\ ~o.filled
  BY DEF Order, WellFormed, OrderFields, Open
<1>9. ASSUME NEW i \in 1 .. n PROVE \E c \in these : q[i] = Order(c, opens, status)
  BY <1>6
<1>10. ASSUME NEW i \in 1 .. n, NEW j \in 1 .. n, q[i].on = q[j].on PROVE i = j
  <2>1. q[i] = q[j]
    BY <1>8, <1>9, <1>10
  <2> QED
    BY <1>6, <2>1 DEF IsInjective
<1> QED
  BY <1>7, <1>8, <1>9, <1>10 DEF ArePlaced

(* What is submitted: one order for each contract that the table knows of, *)
(* and those it does not.                                                  *)
LEMMA SubmittedOrders ==
  ASSUME NEW these, IsFiniteSet(these), NEW opens \in BOOLEAN, NEW q \in Submitted(these, opens)
  PROVE  /\ IsList(q)
         /\ \A i \in 1 .. Len(q) :
              /\ WellFormed(q[i]) /\ q[i].on \in these /\ q[i].opens = opens /\ ~q[i].filled
              /\ q[i].status \in {"SENT_TO_BROKER", "UNSEEN"}
              /\ \A j \in 1 .. Len(q) :
                q[i].status = "SENT_TO_BROKER" /\ q[j].status = "SENT_TO_BROKER" /\ q[i].on = q[j].on => i = j
<1>1. PICK unseen \in SUBSET these, lost \in SUBSET these :
        q = Placed(these \ lost, opens, "SENT_TO_BROKER") \o Placed(unseen, opens, "UNSEEN")
  BY DEF Submitted
<1> DEFINE a == Placed(these \ lost, opens, "SENT_TO_BROKER")
           b == Placed(unseen, opens, "UNSEEN")
<1>2. /\ IsFiniteSet(these \ lost) /\ IsFiniteSet(unseen)
      /\ "SENT_TO_BROKER" \in Open \cup {"UNSEEN"} /\ "UNSEEN" \in Open \cup {"UNSEEN"}
      /\ ("SENT_TO_BROKER" = "CREATED" => ~opens) /\ ("UNSEEN" = "CREATED" => ~opens)
  BY FS_Subset DEF Open
<1>3. ArePlaced(a, these \ lost, opens, "SENT_TO_BROKER")
  BY <1>2, PlacedOrders, Zenon
<1>4. ArePlaced(b, unseen, opens, "UNSEEN")
  BY <1>2, PlacedOrders, Zenon
<1>5. q = a \o b
  BY <1>1
<1> HIDE DEF a, b
<1>6. /\ IsList(q) /\ Len(q) = Len(a) + Len(b) /\ Len(a) \in Nat /\ Len(b) \in Nat
      /\ \A i \in 1 .. Len(a) : q[i] = a[i]
      /\ \A i \in 1 .. Len(a) + Len(b) : i > Len(a) => i - Len(a) \in 1 .. Len(b) /\ q[i] = b[i - Len(a)]
  BY <1>3, <1>4, <1>5, Joined, ListFacts DEF ArePlaced
<1>7. \A i \in 1 .. Len(q) : i \in 1 .. Len(a) \/ i > Len(a)
  BY <1>6
<1>8. ASSUME NEW i \in 1 .. Len(q)
      PROVE  /\ WellFormed(q[i]) /\ q[i].on \in these /\ q[i].opens = opens /\ ~q[i].filled
             /\ q[i].status \in {"SENT_TO_BROKER", "UNSEEN"}
             /\ (q[i].status = "SENT_TO_BROKER" => i \in 1 .. Len(a))
  <2>1. CASE i \in 1 .. Len(a)
    BY <1>3, <1>6, <2>1 DEF ArePlaced
  <2>2. CASE i > Len(a)
    <3>1. i - Len(a) \in 1 .. Len(b) /\ q[i] = b[i - Len(a)]
      BY <1>6, <2>2
    <3> QED
      BY <1>4, <3>1 DEF ArePlaced
  <2> QED
    BY <1>7, <2>1, <2>2
<1>9. ASSUME NEW i \in 1 .. Len(a), NEW j \in 1 .. Len(a), q[i].on = q[j].on PROVE i = j
  BY <1>3, <1>6, <1>9 DEF ArePlaced
<1>10. ASSUME NEW i \in 1 .. Len(q), NEW j \in 1 .. Len(q), q[i].status = "SENT_TO_BROKER",
              q[j].status = "SENT_TO_BROKER", q[i].on = q[j].on
       PROVE  i = j
  <2>1. i \in 1 .. Len(a) /\ j \in 1 .. Len(a)
    BY <1>8, <1>10
  <2> QED
    BY <1>6, <1>9, <1>10, <2>1
<1> QED
  BY <1>6, <1>8, <1>10

LEMMA LegFacts ==
  ASSUME LegInv
  PROVE  /\ Len(orders) \in Nat /\ DOMAIN orders = 1 .. Len(orders)
         /\ \A i \in DOMAIN orders : WellFormed(orders[i])
  BY ListFacts DEF LegInv, OrderTypes

(* Orders are added of which none buys a contract of an entry.             *)
LEMMA ExitsAdded ==
  ASSUME LegInv, NEW q, IsList(q), orders' = orders \o q, UNCHANGED <<net, misread>>,
         \A i \in 1 .. Len(q) : WellFormed(q[i]) /\ (q[i].on \in Bought => ~q[i].opens)
  PROVE  LegInv'
<1>1. /\ IsList(orders') /\ Len(orders') = Len(orders) + Len(q) /\ Len(orders) \in Nat /\ Len(q) \in Nat
      /\ \A i \in 1 .. Len(orders) : orders'[i] = orders[i]
      /\ \A i \in 1 .. Len(orders') : i > Len(orders) => i - Len(orders) \in 1 .. Len(q) /\ orders'[i] = q[i - Len(orders)]
  BY Joined, ListFacts DEF LegInv, OrderTypes
<1>2. \A i \in 1 .. Len(orders') : i \in 1 .. Len(orders) \/ i > Len(orders)
  BY <1>1
<1>3. OrderTypes'
  BY <1>1, <1>2 DEF LegInv, OrderTypes
<1>4. ASSUME NEW c \in Bought, NEW i \in 1 .. Len(orders'), Buys(orders'[i], c) PROVE i \in 1 .. Len(orders)
  BY <1>1, <1>2, <1>4 DEF Buys
<1>5. ASSUME NEW c \in Bought, \A i \in 1 .. Len(orders') : ~FilledAstray(orders'[i], c)
      PROVE  \A i \in 1 .. Len(orders) : ~FilledAstray(orders[i], c)
  BY <1>1, <1>5
<1>6. \A c \in Bought : HeldOnce(c)'
  BY <1>1, <1>4, <1>5 DEF LegInv, HeldOnce
<1> QED
  BY <1>3, <1>6 DEF LegInv

(* Orders change and nothing is filled: none becomes one that may buy, and *)
(* a stray fill is not forgotten.                                          *)
LEMMA OrdersChange ==
  ASSUME LegInv, IsList(orders'), Len(orders') = Len(orders), UNCHANGED <<net, misread>>,
         \A i \in 1 .. Len(orders) :
           /\ WellFormed(orders'[i])
           /\ \A c \in Contracts : /\ Buys(orders'[i], c) => Buys(orders[i], c)
                                   /\ FilledAstray(orders[i], c) => FilledAstray(orders'[i], c)
  PROVE  LegInv'
<1>1. OrderTypes'
  BY DEF LegInv, OrderTypes
<1>2. \A c \in Bought : c \in Contracts
  BY DEF Bought, Contracts, Tags
<1>3. \A c \in Bought : HeldOnce(c)'
  BY <1>2 DEF LegInv, HeldOnce
<1> QED
  BY <1>1, <1>3 DEF LegInv

(* Legs and strikes are few, and so are the contracts.                     *)
LEMMA FewContracts == IsFiniteSet(Contracts)
  BY LegsAssumption, FS_Product DEF Contracts, Tags

LEMMA EntryKeeps == ASSUME LegInv, Entry PROVE LegInv'
<1>0. PICK at \in [EntryLegs -> Strikes], p \in Lists : \E sent \in SUBSET Sendable(at, p) :
        /\ \E q \in Submitted(sent, TRUE) : orders' = orders \o q
        /\ misread' = misread \cup {c \in sent : p.net[c] = 0 /\ net[c] # 0}
  BY DEF Entry
<1>1. PICK sent \in SUBSET Sendable(at, p) :
        /\ \E q \in Submitted(sent, TRUE) : orders' = orders \o q
        /\ misread' = misread \cup {c \in sent : p.net[c] = 0 /\ net[c] # 0}
  BY <1>0
<1>9. PICK q \in Submitted(sent, TRUE) : orders' = orders \o q
  BY <1>1
<1>2. /\ sent \in SUBSET Bought /\ net' = net
      /\ \A c \in sent : (c \notin misread' => net[c] = 0) /\ OpenOf(c, TRUE) = {}
  <2>1. \A c \in sent : c \in Bought /\ p.net[c] = 0 /\ OpenOf(c, TRUE) = {}
    <3>1. \A c \in {<<t, at[t]>> : t \in EntryLegs} : c \in Bought
      BY DEF Bought
    <3>2. \A c \in sent : /\ c \in {<<t, at[t]>> : t \in EntryLegs}
                           /\ p.net[c] = 0 /\ OpenOf(c, TRUE) \cup OpenOf(c, FALSE) = {}
      BY <1>1, Zenon DEF Sendable
    <3>3. \A c \in sent : OpenOf(c, TRUE) = {}
      BY <3>2
    <3> QED
      BY <3>1, <3>2, <3>3, Zenon
  <2>2. net' = net
    BY DEF Entry
  <2>3. \A c \in sent : c \notin misread' => net[c] = 0
    BY <1>1, <2>1
  <2> QED
    BY <2>1, <2>2, <2>3
<1>3. /\ IsList(q)
      /\ \A i \in 1 .. Len(q) :
           /\ WellFormed(q[i]) /\ q[i].on \in sent /\ q[i].opens = TRUE /\ ~q[i].filled
           /\ q[i].status \in {"SENT_TO_BROKER", "UNSEEN"}
           /\ \A j \in 1 .. Len(q) :
             q[i].status = "SENT_TO_BROKER" /\ q[j].status = "SENT_TO_BROKER" /\ q[i].on = q[j].on => i = j
  <2>1. Bought \in SUBSET Contracts
    BY DEF Bought, Contracts, Tags
  <2>2. IsFiniteSet(sent)
    BY <1>2, <2>1, FewContracts, FS_Subset
  <2>3. TRUE \in BOOLEAN
    OBVIOUS
  <2> QED
    BY <2>2, <2>3, SubmittedOrders, Zenon
<1>4. /\ IsList(orders') /\ Len(orders') = Len(orders) + Len(q) /\ Len(orders) \in Nat /\ Len(q) \in Nat
      /\ \A i \in 1 .. Len(orders) : orders'[i] = orders[i]
      /\ \A i \in 1 .. Len(orders') : i > Len(orders) => i - Len(orders) \in 1 .. Len(q) /\ orders'[i] = q[i - Len(orders)]
  BY <1>9, <1>3, Joined, ListFacts DEF LegInv, OrderTypes
<1>5. \A i \in 1 .. Len(orders') : i \in 1 .. Len(orders) \/ i > Len(orders)
  BY <1>4
<1>6. OrderTypes'
  BY <1>2, <1>3, <1>4, <1>5 DEF LegInv, OrderTypes
<1>7. ASSUME NEW c \in sent, NEW i \in 1 .. Len(orders) PROVE ~Buys(orders[i], c)
  BY <1>2, LegFacts DEF OpenOf, Buys, Open
<1>8. ASSUME NEW c \in Bought PROVE HeldOnce(c)'
  <2>0. misread \subseteq misread'
    BY <1>1
  <2>1. CASE c \notin sent
    <3>1. ASSUME NEW i \in 1 .. Len(orders'), Buys(orders'[i], c) PROVE i \in 1 .. Len(orders)
      BY <1>3, <1>4, <1>5, <2>1, <3>1 DEF Buys
    <3> QED
      BY <1>2, <1>4, <2>0, <3>1 DEF LegInv, HeldOnce
  <2>2. CASE c \in sent
    <3>1. ASSUME NEW i \in 1 .. Len(orders'), Buys(orders'[i], c)
          PROVE  /\ i > Len(orders) /\ i - Len(orders) \in 1 .. Len(q)
                 /\ q[i - Len(orders)].on = c /\ q[i - Len(orders)].status = "SENT_TO_BROKER"
      BY <1>4, <1>5, <1>7, <2>2, <3>1 DEF Buys
    <3>2. ASSUME NEW i \in 1 .. Len(orders'), Buys(orders'[i], c), NEW j \in 1 .. Len(orders'), Buys(orders'[j], c)
          PROVE  j = i
      <4>1. i - Len(orders) = j - Len(orders)
        BY <1>3, <3>1, <3>2
      <4> QED
        BY <1>4, <4>1
    <3>0. c \notin misread' => net'[c] = 0
      BY <1>2, <2>2
    <3>3. c \notin misread' => net'[c] <= 1 /\ net'[c] <= 0
      BY <3>0
    <3>4. \A i \in 1 .. Len(orders') : Buys(orders'[i], c) =>
            \A j \in 1 .. Len(orders') : Buys(orders'[j], c) => j = i
      BY <3>2
    <3> QED
      BY <3>3, <3>4 DEF HeldOnce
  <2> QED
    BY <2>1, <2>2
<1> QED
  BY <1>6, <1>8 DEF LegInv

LEMMA ExitOrdersKeep ==
  ASSUME LegInv, NEW these, IsFiniteSet(these), orders' = orders \o ExitOrders(these),
         UNCHANGED <<net, misread>>
  PROVE  LegInv'
<1>1. FALSE \in BOOLEAN /\ "CREATED" \in Open \cup {"UNSEEN"} /\ ("CREATED" = "CREATED" => ~FALSE)
  BY DEF Open
<1>2. ArePlaced(ExitOrders(these), these, FALSE, "CREATED")
  BY <1>1, PlacedOrders, Zenon DEF ExitOrders
<1> QED
  BY <1>2, ExitsAdded DEF ArePlaced

LEMMA AdjustKeeps == ASSUME LegInv, Adjust PROVE LegInv'
<1>1. PICK close \in SUBSET Active, new \in SUBSET {t \in ExtraLegs : mem.legs[t].st = "none"} :
        \E at \in [new -> Strikes] : Adjusted(close, new, at)
  BY Zenon DEF Adjust
<1>2. PICK at \in [new -> Strikes] : Adjusted(close, new, at)
  BY <1>1, Zenon
<1>11. PICK sent \in SUBSET (close \cup new) :
        \E q \in Submitted({On(mem, t) : t \in sent \cap close}, FALSE) :
        \E r \in Submitted({<<t, at[t]>> : t \in sent \cap new}, TRUE) : orders' = orders \o (q \o r)
  BY <1>2, Zenon DEF Adjusted
<1> DEFINE C == {On(mem, t) : t \in sent \cap close}
           N == {<<t, at[t]>> : t \in sent \cap new}
<1>3. PICK q \in Submitted(C, FALSE), r \in Submitted(N, TRUE) : orders' = orders \o (q \o r)
  BY <1>11, Zenon
<1>4. IsFiniteSet(C)
  <2> DEFINE g == [t \in sent \cap close |-> On(mem, t)]
  <2>1. g \in Surjection(sent \cap close, C)
    BY DEF Surjection
  <2>2. IsFiniteSet(sent \cap close)
    BY LegsAssumption, FS_Subset DEF Active, Tags
  <2> HIDE DEF g, C
  <2> QED
    BY <2>1, <2>2, FS_Surjection
<1>5. IsFiniteSet(N) /\ \A c \in N : c \notin Bought
  <2>1. N \in SUBSET Contracts
    BY DEF Contracts, Tags
  <2>2. IsFiniteSet(N)
    BY <2>1, FewContracts, FS_Subset
  <2>3. \A c \in N : c[1] \in ExtraLegs
    OBVIOUS
  <2>4. \A c \in Bought : c[1] \in EntryLegs
    BY DEF Bought
  <2> QED
    BY <2>2, <2>3, <2>4, LegsAssumption
<1> HIDE DEF C, N
<1>6. IsList(q) /\ \A i \in 1 .. Len(q) : WellFormed(q[i]) /\ q[i].opens = FALSE
  BY <1>4, SubmittedOrders
<1>7. IsList(r) /\ \A i \in 1 .. Len(r) : WellFormed(r[i]) /\ r[i].on \in N
  BY <1>5, SubmittedOrders
<1>8. /\ IsList(q \o r) /\ Len(q \o r) = Len(q) + Len(r) /\ Len(q) \in Nat /\ Len(r) \in Nat
      /\ \A i \in 1 .. Len(q) : (q \o r)[i] = q[i]
      /\ \A i \in 1 .. Len(q) + Len(r) : i > Len(q) => i - Len(q) \in 1 .. Len(r) /\ (q \o r)[i] = r[i - Len(q)]
  BY <1>6, <1>7, Joined, ListFacts
<1>9. ASSUME NEW i \in 1 .. Len(q \o r)
      PROVE  WellFormed((q \o r)[i]) /\ ((q \o r)[i].on \in Bought => ~(q \o r)[i].opens)
  <2>1. CASE i \in 1 .. Len(q)
    BY <1>6, <1>8, <2>1
  <2>2. CASE i > Len(q)
    BY <1>5, <1>7, <1>8, <2>2
  <2> QED
    BY <1>8, <2>1, <2>2
<1>10. UNCHANGED <<net, misread>>
  BY DEF Adjust
<1> QED
  BY <1>3, <1>8, <1>9, <1>10, ExitsAdded

(* The service expires some of its orders.                                 *)
LEMMA ExpiringKeeps ==
  ASSUME LegInv, NEW these \in [DOMAIN orders -> BOOLEAN], orders' = Expired(these), UNCHANGED <<net, misread>>
  PROVE  LegInv'
<1>1. /\ Len(orders) \in Nat /\ DOMAIN orders = 1 .. Len(orders)
      /\ \A i \in 1 .. Len(orders) : WellFormed(orders[i])
  BY LegFacts
<1>2. orders' = [i \in 1 .. Len(orders) |-> orders'[i]]
  BY <1>1 DEF Expired
<1>3. ASSUME NEW i \in 1 .. Len(orders)
      PROVE  orders'[i] = orders[i] \/ (orders[i].status \in Open /\ orders'[i] = [orders[i] EXCEPT !.status = "EXPIRED"])
  BY <1>1 DEF Expired
<1>4. ASSUME NEW i \in 1 .. Len(orders)
      PROVE  /\ WellFormed(orders'[i])
             /\ \A c \in Contracts : /\ Buys(orders'[i], c) => Buys(orders[i], c)
                                     /\ FilledAstray(orders[i], c) => FilledAstray(orders'[i], c)
  BY <1>1, <1>3 DEF WellFormed, OrderFields, Buys, FilledAstray, Open
<1> QED
  BY <1>1, <1>2, <1>4, Mapped, OrdersChange

(* One order changes otherwise than by a fill.                             *)
LEMMA OneChanges ==
  ASSUME LegInv, NEW n \in DOMAIN orders, NEW o, orders' = [orders EXCEPT ![n] = o], UNCHANGED <<net, misread>>,
         WellFormed(o),
         \A c \in Contracts : /\ Buys(o, c) => Buys(orders[n], c)
                              /\ FilledAstray(orders[n], c) => FilledAstray(o, c)
  PROVE  LegInv'
<1>1. /\ Len(orders) \in Nat /\ DOMAIN orders = 1 .. Len(orders)
      /\ \A i \in 1 .. Len(orders) : WellFormed(orders[i])
  BY LegFacts
<1>2. orders' = [i \in 1 .. Len(orders) |-> orders'[i]]
  BY <1>1 DEF LegInv, OrderTypes, IsList
<1>3. ASSUME NEW i \in 1 .. Len(orders) PROVE orders'[i] = IF i = n THEN o ELSE orders[i]
  BY <1>1
<1> QED
  BY <1>1, <1>2, <1>3, Mapped, OrdersChange

LEMMA DispatchKeeps == ASSUME LegInv, NEW i \in DOMAIN orders, Dispatch(i) PROVE LegInv'
<1> DEFINE o == [orders[i] EXCEPT !.status = "SENT_TO_BROKER", !.live = TRUE]
<1>1. orders' = [orders EXCEPT ![i] = o] /\ UNCHANGED <<net, misread>> /\ orders[i].status = "CREATED" /\ WellFormed(orders[i])
  BY LegFacts DEF Dispatch
<1>2. WellFormed(o) /\ \A c \in Contracts : ~Buys(o, c) /\ ~FilledAstray(orders[i], c)
  BY <1>1 DEF WellFormed, OrderFields, Buys, FilledAstray
<1> HIDE DEF o
<1> QED
  BY <1>1, <1>2, OneChanges

LEMMA PollFilledKeeps == ASSUME LegInv, NEW i \in DOMAIN orders, PollFilled(i) PROVE LegInv'
<1> DEFINE o == [orders[i] EXCEPT !.status = "EXECUTED"]
<1>1. orders' = [orders EXCEPT ![i] = o] /\ UNCHANGED <<net, misread>> /\ orders[i].status = "SENT_TO_BROKER"
      /\ orders[i].filled /\ WellFormed(orders[i])
  BY LegFacts DEF PollFilled
<1>2. WellFormed(o) /\ \A c \in Contracts : ~Buys(o, c) /\ ~FilledAstray(orders[i], c)
  BY <1>1 DEF WellFormed, OrderFields, Buys, FilledAstray
<1> HIDE DEF o
<1> QED
  BY <1>1, <1>2, OneChanges

LEMMA PollRefusedKeeps == ASSUME LegInv, NEW i \in DOMAIN orders, PollRefused(i) PROVE LegInv'
<1> DEFINE o == [orders[i] EXCEPT !.status = "FAILED", !.live = FALSE]
<1>1. orders' = [orders EXCEPT ![i] = o] /\ UNCHANGED <<net, misread>> /\ orders[i].status = "SENT_TO_BROKER" /\ WellFormed(orders[i])
  BY LegFacts DEF PollRefused
<1>2. WellFormed(o) /\ \A c \in Contracts : ~Buys(o, c) /\ ~FilledAstray(orders[i], c)
  BY <1>1 DEF WellFormed, OrderFields, Buys, FilledAstray
<1> HIDE DEF o
<1> QED
  BY <1>1, <1>2, OneChanges

LEMMA NextDayKeeps == ASSUME LegInv, NextDay PROVE LegInv'
<1>1. /\ Len(orders) \in Nat /\ DOMAIN orders = 1 .. Len(orders) /\ UNCHANGED <<net, misread>>
      /\ \A i \in 1 .. Len(orders) : WellFormed(orders[i])
  BY LegFacts DEF NextDay
<1>2. orders' = [i \in 1 .. Len(orders) |-> orders'[i]]
      /\ \A i \in 1 .. Len(orders) : orders'[i] = [orders[i] EXCEPT !.live = FALSE]
  BY <1>1 DEF NextDay
<1>3. ASSUME NEW i \in 1 .. Len(orders)
      PROVE  /\ WellFormed(orders'[i])
             /\ \A c \in Contracts : /\ Buys(orders'[i], c) => Buys(orders[i], c)
                                     /\ FilledAstray(orders[i], c) => FilledAstray(orders'[i], c)
  BY <1>1, <1>2 DEF WellFormed, OrderFields, Buys, FilledAstray
<1> QED
  BY <1>1, <1>2, <1>3, Mapped, OrdersChange

LEMMA BootKeeps == ASSUME LegInv, Boot PROVE LegInv'
<1>1. /\ Len(orders) \in Nat /\ DOMAIN orders = 1 .. Len(orders) /\ UNCHANGED <<net, misread>>
      /\ \A i \in 1 .. Len(orders) : WellFormed(orders[i])
  BY LegFacts DEF Boot
<1>2. orders' = [i \in 1 .. Len(orders) |-> orders'[i]]
      /\ \A i \in 1 .. Len(orders) :
           orders'[i] = orders[i] \/ (orders[i].status = "CREATED" /\ orders'[i] = [orders[i] EXCEPT !.status = "EXPIRED"])
  BY <1>1 DEF Boot
<1>3. ASSUME NEW i \in 1 .. Len(orders)
      PROVE  /\ WellFormed(orders'[i])
             /\ \A c \in Contracts : /\ Buys(orders'[i], c) => Buys(orders[i], c)
                                     /\ FilledAstray(orders[i], c) => FilledAstray(orders'[i], c)
  BY <1>1, <1>2 DEF WellFormed, OrderFields, Buys, FilledAstray
<1> QED
  BY <1>1, <1>2, <1>3, Mapped, OrdersChange

(* A fill: of an order that may buy, the only one and of a contract not    *)
(* held; of a stray one, from when on nothing is said of its contract.     *)
LEMMA FillKeeps == ASSUME LegInv, NEW i \in DOMAIN orders, Fill(i) PROVE LegInv'
<1> DEFINE o == [orders[i] EXCEPT !.filled = TRUE, !.live = FALSE]
           u == orders[i].on
<1>1. /\ Len(orders) \in Nat /\ DOMAIN orders = 1 .. Len(orders)
      /\ \A j \in 1 .. Len(orders) : WellFormed(orders[j])
      /\ net \in [Contracts -> Int]
  BY LegFacts DEF LegInv, OrderTypes
<1>2. /\ orders' = [orders EXCEPT ![i] = o]
      /\ net' = [net EXCEPT ![u] = @ + (IF orders[i].opens THEN 1 ELSE -1)]
      /\ orders[i].live /\ ~orders[i].filled /\ misread' = misread
  BY DEF Fill
<1>3. /\ WellFormed(o) /\ o.on = u
      /\ \A t : ~Buys(o, t) /\ ~FilledAstray(orders[i], t) /\ (t # u => ~FilledAstray(o, t))
      /\ FilledAstray(o, u) \/ (orders[i].status = "SENT_TO_BROKER" /\ (orders[i].opens => Buys(orders[i], u)))
  BY <1>1, <1>2 DEF WellFormed, OrderFields, Buys, FilledAstray
<1> HIDE DEF o
<1>4. IsList(orders') /\ Len(orders') = Len(orders)
      /\ \A j \in 1 .. Len(orders) : orders'[j] = IF j = i THEN o ELSE orders[j]
  BY <1>1, <1>2, Mapped
<1>5. OrderTypes'
  <2>1. net' \in [Contracts -> Int]
    <3>1. DOMAIN net' = Contracts /\ net' = [c \in Contracts |-> net'[c]]
      BY <1>1, <1>2
    <3>2. ASSUME NEW c \in Contracts PROVE net'[c] \in Int
      BY <1>1, <1>2
    <3> QED
      BY <3>1, <3>2
  <2>2. \A j \in 1 .. Len(orders') : WellFormed(orders'[j])
    BY <1>1, <1>3, <1>4
  <2> QED
    BY <1>4, <2>1, <2>2 DEF OrderTypes
<1>6. ASSUME NEW t \in Bought, t \notin misread', \A j \in 1 .. Len(orders') : ~FilledAstray(orders'[j], t)
      PROVE  /\ net'[t] <= 1
             /\ \A j \in 1 .. Len(orders') : Buys(orders'[j], t) =>
                  net'[t] <= 0 /\ \A k \in 1 .. Len(orders') : Buys(orders'[k], t) => k = j
  <2>1. t \in Contracts /\ t \notin misread /\ \A j \in 1 .. Len(orders) : ~FilledAstray(orders[j], t)
    BY <1>2, <1>3, <1>4, <1>6 DEF Bought, Contracts, Tags
  <2>2. /\ net[t] <= 1
        /\ \A j \in 1 .. Len(orders) : Buys(orders[j], t) =>
             net[t] <= 0 /\ \A k \in 1 .. Len(orders) : Buys(orders[k], t) => k = j
    BY <2>1 DEF LegInv, HeldOnce
  <2>3. ASSUME NEW j \in 1 .. Len(orders'), Buys(orders'[j], t) PROVE j # i /\ Buys(orders[j], t)
    BY <1>3, <1>4, <2>1, <2>3
  <2>4. CASE t # u \/ ~orders[i].opens
    <3>1. net'[t] <= net[t] /\ net[t] \in Int /\ net'[t] \in Int
      BY <1>1, <1>2, <1>3, <2>1, <2>4
    <3> QED
      BY <1>4, <2>2, <2>3, <3>1
  <2>5. CASE t = u /\ orders[i].opens
    <3>1. ~FilledAstray(o, u)
      BY <1>1, <1>4, <1>6, <2>5
    <3>2. Buys(orders[i], t)
      BY <1>3, <2>5, <3>1
    <3>3. net[t] <= 0 /\ \A k \in 1 .. Len(orders) : Buys(orders[k], t) => k = i
      BY <1>1, <2>2, <3>2
    <3>4. net'[t] = net[t] + 1 /\ net[t] \in Int
      BY <1>1, <1>2, <1>3, <2>1, <2>5
    <3> QED
      BY <1>4, <2>3, <3>3, <3>4
  <2> QED
    BY <2>4, <2>5
<1> QED
  BY <1>5, <1>6 DEF LegInv, HeldOnce

LEMMA SquareOffKeeps == ASSUME LegInv, NEW t \in Contracts, SquareOff(t) PROVE LegInv'
<1>1. UNCHANGED <<orders, misread>> /\ net' = [net EXCEPT ![t] = 0] /\ net \in [Contracts -> Int]
  BY DEF SquareOff, LegInv, OrderTypes
<1>2. OrderTypes'
  BY <1>1 DEF LegInv, OrderTypes
<1>3. ASSUME NEW s \in Bought PROVE HeldOnce(s)'
  <2>1. HeldOnce(s) /\ s \in Contracts
    BY DEF LegInv, Bought, Contracts, Tags
  <2>2. CASE s # t
    BY <1>1, <2>1, <2>2 DEF HeldOnce
  <2>3. CASE s = t
    <3>1. net'[s] = 0
      BY <1>1, <2>3
    <3>2. net'[s] <= 1 /\ net'[s] <= 0
      BY <3>1
    <3> QED
      BY <1>1, <2>1, <3>2 DEF HeldOnce
  <2> QED
    BY <2>2, <2>3
<1> QED
  BY <1>2, <1>3 DEF LegInv

LEMMA InitLegInv == ASSUME Init PROVE LegInv
<1>1. orders = <<>> /\ net = [c \in Contracts |-> 0]
  BY DEF Init
<1>2. IsList(orders) /\ Len(orders) = 0
  BY <1>1 DEF IsList
<1>3. OrderTypes
  BY <1>1, <1>2 DEF OrderTypes
<1>4. ASSUME NEW c \in Bought PROVE HeldOnce(c)
  <2>1. net[c] = 0
    BY <1>1 DEF Bought, Contracts, Tags
  <2> QED
    BY <1>2, <2>1 DEF HeldOnce
<1> QED
  BY <1>3, <1>4 DEF LegInv

LEMMA NextLegInv == ASSUME LegInv, [Next]_vars PROVE LegInv'
<1>0. IsFiniteSet(Reached)
  BY FewContracts, FS_Subset DEF Reached
<1>1. ASSUME UNCHANGED <<orders, net, misread>> PROVE LegInv'
  BY <1>1 DEF LegInv, OrderTypes, HeldOnce
<1>2. CASE \/ StartExecution \/ StopExecution \/ SaveAfterExit \/ EntryRefused \/ EntrySaved
           \/ Roll \/ TickEnd \/ Complete \/ Crash \/ (\E t \in Tags : Ages(t))
           \/ (\E i \in DOMAIN orders : NotifyFill(i)) \/ OthersRead \/ UNCHANGED vars
  <2>1. UNCHANGED <<orders, net, misread>>
    BY <1>2 DEF StartExecution, StopExecution, SaveAfterExit, EntryRefused, EntrySaved, Roll, TickEnd,
                Complete, Crash, Ages, NotifyFill, OthersRead, vars
  <2> QED
    BY <1>1, <2>1
<1>3. CASE KillSwitch
  <2>1. UNCHANGED <<net, misread>> /\ (orders' = orders \/ orders' = orders \o ExitOrders(Reached))
    BY <1>3 DEF KillSwitch
  <2> QED
    BY <1>0, <1>1, <2>1, ExitOrdersKeep
<1>4. CASE ExitAll
  <2>1. UNCHANGED <<net, misread>> /\ (orders' = orders \/ orders' = orders \o ExitOrders(Reached))
    BY <1>4 DEF ExitAll
  <2> QED
    BY <1>0, <1>1, <2>1, ExitOrdersKeep
<1>5. ASSUME NEW t \in Tags, ExitLeg(t) PROVE LegInv'
  <2>1. /\ UNCHANGED <<net, misread>> /\ orders' = orders \o ExitOrders({On(mem, t)})
        /\ IsFiniteSet({On(mem, t)})
    BY <1>5, FS_Singleton DEF ExitLeg
  <2> QED
    BY <2>1, ExitOrdersKeep
<1>6. CASE CancelAllPending
  <2> DEFINE these == [i \in DOMAIN orders |-> TRUE]
  <2>1. these \in [DOMAIN orders -> BOOLEAN] /\ orders' = Expired(these) /\ UNCHANGED <<net, misread>>
    BY <1>6 DEF CancelAllPending
  <2> HIDE DEF these
  <2> QED
    BY <2>1, ExpiringKeeps
<1>7. CASE TickBegin
  <2> DEFINE these == [i \in DOMAIN orders |-> orders[i].day < today]
  <2>1. UNCHANGED <<net, misread>> /\ (orders' = orders \/ orders' = Expired(these))
    BY <1>7 DEF TickBegin
  <2>2. these \in [DOMAIN orders -> BOOLEAN]
    OBVIOUS
  <2> HIDE DEF these
  <2> QED
    BY <1>1, <2>1, <2>2, ExpiringKeeps
<1>8. CASE Entry
  BY <1>8, EntryKeeps
<1>9. CASE Adjust
  BY <1>9, AdjustKeeps
<1>10. CASE Boot
  BY <1>10, BootKeeps
<1>11. CASE NextDay
  BY <1>11, NextDayKeeps
<1>12. ASSUME NEW t \in Contracts, SquareOff(t) PROVE LegInv'
  BY <1>12, SquareOffKeeps
<1>13. ASSUME NEW i \in DOMAIN orders, Dispatch(i) \/ Fill(i) \/ PollFilled(i) \/ PollRefused(i) PROVE LegInv'
  BY <1>13, DispatchKeeps, FillKeeps, PollFilledKeeps, PollRefusedKeeps
<1> QED
  BY <1>2, <1>3, <1>4, <1>5, <1>6, <1>7, <1>8, <1>9, <1>10, <1>11, <1>12, <1>13 DEF Next, TickStep

LEMMA HeldOnceMeansNotDoubled == ASSUME LegInv PROVE NeverDoubled
<1>1. SUFFICES ASSUME NEW c \in Bought, net[c] > 1, c \notin misread PROVE Strayed(c)
  BY DEF NeverDoubled, Bought
<1>2. net[c] \in Int /\ HeldOnce(c) /\ DOMAIN orders = 1 .. Len(orders)
  BY LegFacts DEF LegInv, OrderTypes, Bought, Contracts, Tags
<1>3. \E i \in 1 .. Len(orders) : FilledAstray(orders[i], c)
  BY <1>1, <1>2 DEF HeldOnce
<1> QED
  BY <1>2, <1>3 DEF FilledAstray, Strayed

(* No contract of an entry is bought twice over: not by a re-entry while   *)
(* an earlier order is out, a restart between the alert and the saving of  *)
(* the state, or a new day, unless an order was filled of which the table  *)
(* did not know, or the entry was on a list without the position.          *)
THEOREM LegsAreBoughtOnce == Spec => []NeverDoubled
<1>1. Init => LegInv
  BY InitLegInv
<1>2. LegInv /\ [Next]_vars => LegInv'
  BY NextLegInv
<1>3. LegInv => NeverDoubled
  BY HeldOnceMeansNotDoubled
<1> QED
  BY <1>1, <1>2, <1>3, PTL DEF Spec

-----------------------------------------------------------------------------
(* A registered strategy runs, so that one a start finds was resumed.      *)
MemoryInv == "legs" \in DOMAIN mem /\ reg \in BOOLEAN /\ up \in BOOLEAN /\ (reg => up)

(* While the process is down nothing is cached.                            *)
ViewInv == up \in BOOLEAN /\ (~up => view = NoList)

(* What memory is after an operation on it: a record with its legs.        *)
LEMMA MemoryKept ==
  ASSUME NEW m, "legs" \in DOMAIN m, NEW p
  PROVE  /\ "legs" \in DOMAIN InLine(m, p)
         /\ \A t \in Tags : p.none \/ p.net[On(m, t)] # 0 => InLine(m, p).legs[t].active = m.legs[t].active
  BY DEF InLine

LEMMA LoadedHasLegs == \A f : "legs" \in DOMAIN Loaded(f)
  BY DEF Loaded, Fresh

LEMMA InitMemoryInv == ASSUME Init PROVE MemoryInv
  BY DEF Init, MemoryInv, Fresh

LEMMA NextMemoryInv == ASSUME MemoryInv, [Next]_vars PROVE MemoryInv'
<1>0. ASSUME UNCHANGED <<mem, up>>, reg' = reg \/ reg' = FALSE PROVE MemoryInv'
  <2>1. "legs" \in DOMAIN mem'
    BY <1>0 DEF MemoryInv
  <2>2. up' = up /\ reg \in BOOLEAN /\ up \in BOOLEAN /\ (reg => up)
    BY <1>0 DEF MemoryInv
  <2>3. reg' \in BOOLEAN /\ up' \in BOOLEAN
    BY <1>0, <2>2, Zenon
  <2>4. reg' => up'
    <3>1. CASE reg' = FALSE
      BY <3>1
    <3>2. CASE reg' = reg
      BY <2>2, <3>2, SMT
    <3> QED
      BY <1>0, <3>1, <3>2, Zenon
  <2> QED
    BY <2>1, <2>3, <2>4, Zenon DEF MemoryInv
<1>1. CASE \/ StopExecution \/ KillSwitch \/ CancelAllPending \/ Complete \/ NextDay
           \/ (\E c \in Contracts : SquareOff(c)) \/ OthersRead \/ UNCHANGED vars
           \/ (\E i \in DOMAIN orders : Dispatch(i) \/ Fill(i) \/ PollFilled(i) \/ PollRefused(i))
  <2>1. UNCHANGED <<mem, up>> /\ (reg' = reg \/ reg' = FALSE)
    BY <1>1 DEF StopExecution, Forget, KillSwitch, CancelAllPending, Complete, NextDay, SquareOff,
                OthersRead, Dispatch, Fill, PollFilled, PollRefused, vars
  <2> QED
    BY <1>0, <2>1
<1>8. CASE StartExecution
  <2>1. up = TRUE /\ up' = up /\ reg' = TRUE /\ \E f : mem' = Loaded(f)
    BY <1>8 DEF StartExecution, MemoryInv
  <2> QED
    BY <2>1, LoadedHasLegs DEF MemoryInv
<1>9. CASE Crash
  <2>1. up' = FALSE /\ reg' = FALSE /\ mem' = Fresh
    BY <1>9 DEF Crash
  <2> QED
    BY <2>1 DEF MemoryInv, Fresh
<1>2. CASE TickBegin \/ ExitAll \/ (\E t \in Tags : ExitLeg(t)) \/ SaveAfterExit
  BY <1>2 DEF MemoryInv, TickBegin, DailyReset, ExitAll, Exited, ExitLeg, SaveAfterExit, At, Go
<1>3. CASE Entry
  BY <1>3 DEF MemoryInv, Entry, Opened
<1>12. CASE EntryRefused
  BY <1>12 DEF MemoryInv, EntryRefused
<1>13. CASE EntrySaved
  BY <1>13 DEF MemoryInv, EntrySaved
<1>10. CASE Roll
  BY <1>10 DEF MemoryInv, Roll
<1>11. ASSUME NEW t \in Tags, Ages(t) PROVE MemoryInv'
  BY <1>11 DEF MemoryInv, Ages
<1>4. CASE Adjust
  BY <1>4 DEF MemoryInv, Adjust
<1>5. CASE \E i \in DOMAIN orders : NotifyFill(i)
  BY <1>5 DEF MemoryInv, NotifyFill, At
<1>6. CASE TickEnd
  BY <1>6, MemoryKept DEF MemoryInv, TickEnd
<1>7. CASE Boot
  <2>1. up' = TRUE /\ reg' \in BOOLEAN /\ (mem' = mem \/ \E p \in Lists : mem' = InLine(Loaded(file), p))
    BY <1>7 DEF Boot, MemoryInv
  <2> QED
    BY <2>1, LoadedHasLegs, MemoryKept DEF MemoryInv
<1> QED
  BY <1>1, <1>2, <1>3, <1>4, <1>5, <1>6, <1>7, <1>8, <1>9, <1>10, <1>11, <1>12, <1>13 DEF Next, TickStep

LEMMA NextViewInv == ASSUME ViewInv, [Next]_vars PROVE ViewInv'
<1>1. CASE Crash
  BY <1>1 DEF Crash, ViewInv, NoList
<1>2. CASE Boot
  BY <1>2 DEF Boot, ViewInv
<1>3. CASE StartExecution \/ TickStep \/ KillSwitch \/ StopExecution
  <2>1. up /\ up' = up
    BY <1>3 DEF StartExecution, StopExecution, KillSwitch, TickStep, TickBegin, ExitAll, SaveAfterExit, Entry,
                EntryRefused, EntrySaved, Adjust, Roll, TickEnd, ExitLeg, At
  <2> QED
    BY <2>1 DEF ViewInv
<1>4. CASE \/ CancelAllPending \/ Complete \/ NextDay \/ (\E t \in Tags : Ages(t)) \/ UNCHANGED vars
           \/ (\E c \in Contracts : SquareOff(c))
           \/ (\E i \in DOMAIN orders : Dispatch(i) \/ Fill(i) \/ PollFilled(i) \/ PollRefused(i) \/ NotifyFill(i))
  <2>1. UNCHANGED <<up, view>>
    BY <1>4 DEF CancelAllPending, Complete, NextDay, Ages, SquareOff, Dispatch, Fill, PollFilled, PollRefused,
                NotifyFill, vars
  <2> QED
    BY <2>1 DEF ViewInv, NoList
<1>5. CASE OthersRead
  BY <1>5 DEF OthersRead, ViewInv
<1> QED
  BY <1>1, <1>2, <1>3, <1>4, <1>5 DEF Next

(* A reconciliation keeps the legs that are held, but on a list from the   *)
(* cache.                                                                  *)
LEMMA HeldLegsKept ==
  ASSUME NEW m, "legs" \in DOMAIN m, NEW p \in Lists, NEW t \in Tags, m.legs[t].active, net[On(m, t)] # 0
  PROVE  InLine(m, p).legs[t].active \/ (p = view /\ ~view.none /\ view.net[On(m, t)] = 0)
<1>1. CASE p.none \/ p.net[On(m, t)] # 0
  BY <1>1, MemoryKept
<1>2. CASE ~p.none /\ p.net[On(m, t)] = 0
  <2>1. p # Account /\ p # NoList
    BY <1>2 DEF Account, NoList
  <2> QED
    BY <1>2, <2>1 DEF Lists
<1> QED
  BY <1>1, <1>2

(* A failing or empty list of positions never makes a strategy forget what *)
(* it holds: a reconciliation with the broker does so only on a cached     *)
(* list from before the leg, and a resumption never does.                  *)
THEOREM HeldLegsAreKept == Spec => HeldLegsStayActive
<1>1. Init => MemoryInv /\ ViewInv
  BY InitMemoryInv DEF Init, ViewInv
<1>2. MemoryInv /\ ViewInv /\ [Next]_vars => MemoryInv' /\ ViewInv'
  BY NextMemoryInv, NextViewInv
<1>3. ASSUME MemoryInv, ViewInv, TickEnd \/ (Boot /\ reg'), NEW m, m = (IF up THEN mem ELSE Loaded(file)),
             NEW t \in Tags, m.legs[t].active, net[On(m, t)] # 0
      PROVE  mem'.legs[t].active \/ OldList(On(m, t))
  <2>1. CASE TickEnd
    <3>1. up /\ m = mem /\ (mem' = mem \/ \E p \in Lists : mem' = InLine(mem, p) /\ view' = p)
      BY <1>3, <2>1 DEF TickEnd
    <3> QED
      BY <1>3, <3>1, HeldLegsKept DEF MemoryInv, OldList
  <2>2. CASE Boot /\ reg'
    <3>1. ~up /\ ~reg /\ view = NoList
      BY <1>3, <2>2 DEF Boot, MemoryInv, ViewInv
    <3>2. m = Loaded(file) /\ \E p \in Lists : mem' = InLine(m, p)
      BY <1>3, <2>2, <3>1 DEF Boot
    <3>3. view.none
      BY <3>1 DEF NoList
    <3> QED
      BY <1>3, <3>2, <3>3, LoadedHasLegs, HeldLegsKept
  <2> QED
    BY <1>3, <2>1, <2>2
<1>4. MemoryInv /\ ViewInv => [(TickEnd \/ (Boot /\ reg')) =>
          LET m == IF up THEN mem ELSE Loaded(file)
          IN \A t \in Tags : m.legs[t].active /\ net[On(m, t)] # 0 => mem'.legs[t].active \/ OldList(On(m, t))]_vars
  BY <1>3
<1> QED
  BY <1>1, <1>2, <1>4, PTL DEF Spec, HeldLegsStayActive

-----------------------------------------------------------------------------
(* The rules of a strategy.  First what the folds need: a non-empty set of  *)
(* naturals has a least member.                                            *)
Below == {p \in Nat \X Nat : p[1] < p[2]}

LEMMA LeastExists ==
  ASSUME NEW S \in SUBSET Nat, S # {}
  PROVE  \E i \in S : \A j \in S : i <= j
<1>1. PICK i \in S : \A j \in S : <<j, i>> \notin Below
  <2>1. IsWellFoundedOn(Below, Nat)
    BY NatLessThanWellFounded, Zenon DEF OpToRel, Below
  <2> QED
    BY <2>1, WFMin, Zenon
<1>2. ASSUME NEW j \in S PROVE i <= j
  <2>1. <<j, i>> \in Nat \X Nat /\ <<j, i>>[1] = j /\ <<j, i>>[2] = i
    OBVIOUS
  <2>2. ~(j < i)
    BY <1>1, <2>1, Zenon DEF Below
  <2> QED
    BY <2>2
<1> QED
  BY <1>2

(* A set of sets that has no smallest one is empty.                        *)
LEMMA SmallestExists ==
  ASSUME NEW S, IsFiniteSet(S), NEW B \in SUBSET (SUBSET S), B # {}
  PROVE  \E s \in B : \A t \in B : Cardinality(s) <= Cardinality(t)
<1> DEFINE N == {n \in Nat : \E s \in B : Cardinality(s) = n}
<1>1. \A s \in B : IsFiniteSet(s) /\ Cardinality(s) \in Nat
  BY FS_Subset, FS_CardinalityType
<1>2. N \in SUBSET Nat /\ N # {}
  BY <1>1
<1>3. PICK n \in N : \A k \in N : n <= k
  BY <1>2, LeastExists
<1> QED
  BY <1>1, <1>3

LEMMA Smaller ==
  ASSUME NEW S, IsFiniteSet(S), NEW s \in SUBSET S, NEW x \in s
  PROVE  /\ s \ {x} \in SUBSET S /\ Cardinality(s) \in Nat /\ Cardinality(s \ {x}) \in Nat
         /\ Cardinality(s \ {x}) = Cardinality(s) - 1
  BY FS_Subset, FS_CardinalityType, FS_RemoveElement

LEMMA NoneLess ==
  ASSUME NEW S, IsFiniteSet(S), NEW s \in SUBSET S
  PROVE  Cardinality(s) \in Nat /\ (Cardinality(s) <= 0 <=> s = {}) /\ Cardinality(s) <= Cardinality(S)
  BY FS_Subset, FS_CardinalityType, FS_EmptySet

(* A finite set of numbers has a greatest.                                 *)
LEMMA GreatestExists ==
  ASSUME NEW S \in SUBSET Int, IsFiniteSet(S), S # {}
  PROVE  \E i \in S : \A j \in S : i >= j
<1> DEFINE Bad == {s \in SUBSET S : s # {} /\ ~\E i \in s : \A j \in s : i >= j}
<1>1. SUFFICES ASSUME Bad # {} PROVE FALSE
  OBVIOUS
<1>2. PICK s \in Bad : \A t \in Bad : Cardinality(s) <= Cardinality(t)
  BY <1>1, SmallestExists
<1>3. PICK x \in s : TRUE
  OBVIOUS
<1>4. s \ {x} \in SUBSET S /\ Cardinality(s \ {x}) = Cardinality(s) - 1 /\ Cardinality(s) \in Nat
  BY Smaller
<1>5. s \ {x} \notin Bad
  <2> HIDE DEF Bad
  <2> QED
    BY <1>2, <1>4
<1>6. CASE s \ {x} = {}
  BY <1>6
<1>7. CASE s \ {x} # {}
  <2>1. PICK i \in s \ {x} : \A j \in s \ {x} : i >= j
    BY <1>4, <1>5, <1>7
  <2>2. CASE i >= x
    BY <2>1, <2>2
  <2>3. CASE x > i
    BY <2>1, <2>3
  <2> QED
    BY <2>2, <2>3
<1> QED
  BY <1>6, <1>7

LEMMA MaxFacts ==
  ASSUME NEW S \in SUBSET Int, IsFiniteSet(S), S # {}
  PROVE  Rules!Max(S) \in S /\ \A j \in S : Rules!Max(S) >= j
  BY GreatestExists DEF Rules!Max

-----------------------------------------------------------------------------
(* Folds are recursive functions over the subsets of their set, and there  *)
(* is one, built for larger and larger subsets.  A kind names the fold.    *)
First(s) == CHOOSE x \in s : TRUE

Seeing(m, s, acc, c) ==
  LET x == Rules!Value(m, s, c.param)
      h == Rules!Holds(c, x, acc.prev[c.param])
  IN [prev |-> [acc.prev EXCEPT ![c.param] = Rules!Remembered(c, x, @)],
      holds |-> IF c.join = "OR" THEN acc.holds \/ h ELSE acc.holds /\ h]

Looking(m, s, acc, c) ==
  IF acc.holds = (conf.any = "OR") /\ acc.some THEN acc
  ELSE LET e == Rules!Evaluate([m EXCEPT !.prev = acc.prev], s, <<c>>)
       IN [prev |-> e.prev, holds |-> e.holds, some |-> TRUE]

Applying(s, acc, i) ==
  LET r == conf.rules[i]
      e == Rules!Evaluate(acc.mem, s, r.conds)
      f == Rules!Evaluate(Rules!Seen(acc.mem, e), s, r.orelse)
      chosen == e.holds \/ (r.else /\ f.holds)
      n == Rules!Seen(acc.mem, IF e.holds \/ ~r.else THEN e ELSE f)
      p == Rules!Performed(n, IF e.holds THEN r.action ELSE r.elseaction, s)
  IN IF ~Rules!MayFire(i, r, acc.mem, acc.marks) THEN acc
     ELSE IF ~chosen \/ p.legs = n.legs THEN [acc EXCEPT !.mem = n]
     ELSE [mem |-> [p EXCEPT !.today = @ + 1, !.life = @ + 1],
           marks |-> Rules!Fired(i, r, acc.marks), fired |-> acc.fired \cup {i}]

Summand(m, l, x) == IF l = "lots" THEN m.legs[x].lots ELSE Rules!ProfitOf(m, x)
SumOf(m, l, f, D) ==
  [t \in D |-> IF t = {} THEN 0 ELSE Summand(m, l, First(t)) + f[t \ {First(t)}]]
ListOf(m, s, l, f, D) ==
  [t \in D |-> IF t = {} THEN [prev |-> m.prev, holds |-> TRUE]
               ELSE Seeing(m, s, f[t \ {Rules!Max(t)}], l[Rules!Max(t)])]
SomeOf(m, s, f, D) ==
  [t \in D |-> IF t = {} THEN [prev |-> m.prev, holds |-> conf.any # "OR", some |-> FALSE]
               ELSE Looking(m, s, f[t \ {Rules!Max(t)}], conf.combined[Rules!Max(t)])]
RulesOf(m, s, f, D) ==
  [t \in D |-> IF t = {} THEN [mem |-> m, marks |-> marks, fired |-> {}]
               ELSE Applying(s, f[t \ {Rules!Max(t)}], Rules!Max(t))]

FoldOf(k, m, s, l, f, D) ==
  CASE k = "sum" -> SumOf(m, l, f, D)
    [] k = "list" -> ListOf(m, s, l, f, D)
    [] k = "some" -> SomeOf(m, s, f, D)
    [] k = "rules" -> RulesOf(m, s, f, D)
Kinds == {"sum", "list", "some", "rules"}
Taken(k, t) == IF k = "sum" THEN First(t) ELSE Rules!Max(t)

LEMMA FoldIsLocal ==
  ASSUME NEW k \in Kinds, NEW m, NEW s, NEW l, NEW f, NEW g, NEW D, NEW E,
         D \subseteq E, \A t \in D : t # {} => f[t \ {Taken(k, t)}] = g[t \ {Taken(k, t)}]
  PROVE  \A t \in D : FoldOf(k, m, s, l, f, D)[t] = FoldOf(k, m, s, l, g, E)[t]
<1>1. CASE k = "sum"
  BY <1>1 DEF FoldOf, SumOf, Taken
<1>2. CASE k = "list"
  BY <1>2 DEF FoldOf, ListOf, Taken
<1>3. CASE k = "some"
  BY <1>3 DEF FoldOf, SomeOf, Taken
<1>4. CASE k = "rules"
  BY <1>4 DEF FoldOf, RulesOf, Taken
<1> QED
  BY <1>1, <1>2, <1>3, <1>4 DEF Kinds

LEMMA FoldIsSame ==
  ASSUME NEW k \in Kinds, NEW m, NEW s, NEW l, NEW f, NEW g, NEW D,
         \A t \in D : t # {} => f[t \ {Taken(k, t)}] = g[t \ {Taken(k, t)}]
  PROVE  FoldOf(k, m, s, l, f, D) = FoldOf(k, m, s, l, g, D)
<1>1. CASE k = "sum"
  BY <1>1 DEF FoldOf, SumOf, Taken
<1>2. CASE k = "list"
  BY <1>2 DEF FoldOf, ListOf, Taken
<1>3. CASE k = "some"
  BY <1>3 DEF FoldOf, SomeOf, Taken
<1>4. CASE k = "rules"
  BY <1>4 DEF FoldOf, RulesOf, Taken
<1> QED
  BY <1>1, <1>2, <1>3, <1>4 DEF Kinds

LEMMA FoldExists ==
  ASSUME NEW k \in Kinds, NEW m, NEW s, NEW l, NEW S, IsFiniteSet(S), k # "sum" => S \subseteq Int
  PROVE  \E f : f = FoldOf(k, m, s, l, f, SUBSET S)
<1> DEFINE Small(n) == {t \in SUBSET S : Cardinality(t) <= n}
           Good(n) == \E f : f = FoldOf(k, m, s, l, f, Small(n))
<1>1. \A t \in SUBSET S : t # {} => Taken(k, t) \in t
  BY MaxFacts, FS_Subset DEF First, Taken
<1>2. Good(0)
  <2> DEFINE f == FoldOf(k, m, s, l, {}, Small(0))
  <2>1. \A t \in Small(0) : t = {}
    BY NoneLess
  <2>2. f = FoldOf(k, m, s, l, f, Small(0))
    <3> HIDE DEF f, Small
    <3> QED
      BY <2>1, FoldIsSame DEF f
  <2> QED
    BY <2>2
<1>3. ASSUME NEW n \in Nat, Good(n) PROVE Good(n + 1)
  <2>1. PICK f : f = FoldOf(k, m, s, l, f, Small(n))
    BY <1>3
  <2> DEFINE g == FoldOf(k, m, s, l, f, Small(n + 1))
  <2>2. Small(n) \subseteq Small(n + 1)
    BY NoneLess
  <2>3. \A t \in Small(n) : f[t] = g[t]
    <3> HIDE DEF Small
    <3> QED
      BY <2>1, <2>2, FoldIsLocal
  <2>4. ASSUME NEW t \in Small(n + 1), t # {} PROVE t \ {Taken(k, t)} \in Small(n)
    BY <1>1, <2>4, Smaller
  <2>5. g = FoldOf(k, m, s, l, g, Small(n + 1))
    <3> HIDE DEF Small, g
    <3>1. \A t \in Small(n + 1) : t # {} => f[t \ {Taken(k, t)}] = g[t \ {Taken(k, t)}]
      BY <2>3, <2>4
    <3>2. FoldOf(k, m, s, l, f, Small(n + 1)) = FoldOf(k, m, s, l, g, Small(n + 1))
      BY <3>1, FoldIsSame
    <3> QED
      BY <3>2 DEF g
  <2> HIDE DEF g
  <2> QED
    BY <2>5
<1>4. ASSUME NEW n \in Nat, ~Good(n) PROVE FALSE
  <2> DEFINE Bad == {j \in Nat : ~Good(j)}
  <2> HIDE DEF Good
  <2>1. PICK j \in Bad : \A i \in Bad : j <= i
    <3>1. Bad \in SUBSET Nat /\ Bad # {}
      BY <1>4
    <3> QED
      BY <3>1, LeastExists
  <2>2. j # 0 /\ j - 1 \in Nat
    BY <1>2
  <2>3. Good(j - 1)
    BY <2>1, <2>2
  <2> QED
    BY <1>3, <2>2, <2>3
<1>5. Small(Cardinality(S)) = SUBSET S /\ Cardinality(S) \in Nat
  BY NoneLess
<1> HIDE DEF Small
<1> QED
  BY <1>4, <1>5

LEMMA SumIsNumber ==
  ASSUME NEW m, NEW l, NEW S, IsFiniteSet(S), \A t \in S : Summand(m, l, t) \in Int
  PROVE  LET f == CHOOSE g : g = SumOf(m, l, g, SUBSET S) IN f[S] \in Int
<1> DEFINE f == CHOOSE g : g = SumOf(m, l, g, SUBSET S)
           Bad == {s \in SUBSET S : f[s] \notin Int}
<1>1. f = SumOf(m, l, f, SUBSET S)
  <2>1. \E g : g = FoldOf("sum", m, 0, l, g, SUBSET S)
    <3>1. "sum" \in Kinds
      BY DEF Kinds
    <3> QED
      BY <3>1, FoldExists, Zenon
  <2> QED
    BY <2>1 DEF FoldOf
<1> HIDE DEF f
<1>2. ASSUME Bad # {} PROVE FALSE
  <2>1. PICK s \in Bad : \A t \in Bad : Cardinality(s) <= Cardinality(t)
    BY <1>2, SmallestExists
  <2>2. f[s] = IF s = {} THEN 0 ELSE Summand(m, l, First(s)) + f[s \ {First(s)}]
    BY <1>1 DEF SumOf
  <2>3. s # {} /\ First(s) \in s
    BY <2>2 DEF First
  <2>4. s \ {First(s)} \notin Bad /\ s \ {First(s)} \in SUBSET S
    BY <2>1, <2>3, Smaller
  <2> QED
    BY <2>2, <2>3, <2>4
<1> QED
  BY <1>2 DEF f

LEMMA SumsAreNumbers ==
  ASSUME NEW m, IsFiniteSet(Rules!Active(m)),
         \A t \in Rules!Active(m) : Rules!ProfitOf(m, t) \in Int /\ m.legs[t].lots \in Int
  PROVE  Rules!Profit(m) \in Int /\ Rules!Lots(m) \in Int
<1> DEFINE S == Rules!Active(m)
           f(l) == CHOOSE g : g = SumOf(m, l, g, SUBSET S)
<1>1. Rules!Profit(m) = f("profit")[S] /\ Rules!Lots(m) = f("lots")[S]
  BY DEF Rules!Profit, Rules!Lots, Rules!MapThenSumSet, Rules!MapThenFoldSet, SumOf, Summand, First
<1>2. \A l : \A t \in S : Summand(m, l, t) \in Int
  BY DEF Summand
<1>3. \A l : f(l)[S] \in Int
  BY <1>2, SumIsNumber
<1> HIDE DEF f
<1> QED
  BY <1>1, <1>3

-----------------------------------------------------------------------------
(* What the memory of a strategy is made of.                               *)
MemFields == {"legs", "trail", "step", "booked", "today", "life", "prev", "entered", "done"}
LegRecord == [st : {"none", "pending", "active", "closed", "failed"}, lots : Int, gain : Int, strike : Int]
Trail == [on : BOOLEAN, level : Int, peak : Int, floor : Int]

IsMem(m) ==
  /\ DOMAIN m = MemFields /\ m.legs \in [RuleTags -> LegRecord] /\ m.trail \in Trail
  /\ DOMAIN m.prev = Rules!Params /\ m.prev["spot_price"] \in Int \cup {Nothing}

(* What has become of m without a change of its stop or of what was seen.  *)
SameStop(n, m) == IsMem(n) /\ n.trail = m.trail /\ n.prev = m.prev

LEMMA NumbersOf ==
  ASSUME NEW m, IsMem(m)
  PROVE  /\ Rules!Profit(m) \in Int /\ Rules!Lots(m) \in Int
         /\ IsFiniteSet(Rules!Active(m)) /\ Rules!Active(m) \subseteq RuleTags
         /\ \A t \in RuleTags : Rules!ProfitOf(m, t) \in Int
<1>1. IsFiniteSet(Rules!Active(m)) /\ Rules!Active(m) \subseteq RuleTags
  BY RulesAssumption, FS_Subset DEF Rules!Active
<1>2. ASSUME NEW t \in RuleTags PROVE Rules!ProfitOf(m, t) \in Int /\ m.legs[t].lots \in Int
  <2>1. m.legs[t].lots \in Int /\ m.legs[t].gain \in Int
    BY DEF IsMem, LegRecord
  <2>2. \A a, b \in Int : a * b \in Int
    OBVIOUS
  <2> QED
    BY <2>1, <2>2 DEF Rules!ProfitOf
<1> QED
  BY <1>1, <1>2, SumsAreNumbers

LEMMA SetLeg ==
  ASSUME NEW m, IsMem(m), NEW t, NEW leg, t \in RuleTags => leg \in LegRecord
  PROVE  SameStop([m EXCEPT !.legs[t] = leg], m)
  BY DEF IsMem, SameStop, MemFields

LEMMA SetLegs ==
  ASSUME NEW m, IsMem(m), NEW legs \in [RuleTags -> LegRecord]
  PROVE  SameStop([m EXCEPT !.legs = legs], m)
  BY DEF IsMem, SameStop, MemFields

LEMMA ShutKeeps ==
  ASSUME NEW m, IsMem(m), NEW t \in RuleTags
  PROVE  SameStop(Rules!Shut(m, t), m)
  BY DEF IsMem, SameStop, MemFields, LegRecord, Rules!Shut

LEMMA LessKeeps ==
  ASSUME NEW m, IsMem(m), NEW t \in RuleTags, NEW n \in Int
  PROVE  SameStop(Rules!Less(m, t, n), m)
<1>1. m.legs[t] \in LegRecord /\ m.legs[t].lots - n \in Int
  BY DEF IsMem, LegRecord
<1>2. CASE n < m.legs[t].lots
  BY <1>1, <1>2 DEF IsMem, SameStop, MemFields, LegRecord, Rules!Less
<1>3. CASE ~(n < m.legs[t].lots)
  BY <1>1, <1>3 DEF IsMem, SameStop, MemFields, LegRecord, Rules!Less
<1> QED
  BY <1>2, <1>3

LEMMA NewLegKeeps ==
  ASSUME NEW m, IsMem(m), NEW tag, NEW lots \in Int, NEW strike \in Int
  PROVE  SameStop(Rules!NewLeg(m, tag, lots, strike), m)
<1> DEFINE leg == [st |-> "pending", lots |-> lots, gain |-> 0, strike |-> strike]
<1>1. leg \in LegRecord
  BY DEF LegRecord
<1> HIDE DEF leg
<1>2. SameStop([m EXCEPT !.legs[Rules!Unused(m, tag)] = leg], m)
  BY <1>1, SetLeg
<1> QED
  BY <1>2 DEF Rules!NewLeg, leg

LEMMA PartIsNumber == ASSUME NEW lots \in Int, NEW pct \in Int PROVE Rules!Part(lots, pct) \in Int
<1>1. lots * pct \in Int
  OBVIOUS
<1>2. ASSUME NEW x \in Int PROVE Rules!Rounded(x) \in Int
  BY DEF Rules!Rounded
<1> QED
  BY <1>1, <1>2 DEF Rules!Part

LEMMA Booking ==
  ASSUME NEW n, NEW m, SameStop(n, m), NEW b
  PROVE  SameStop([n EXCEPT !.booked = b], m)
  BY DEF SameStop, IsMem, MemFields

LEMMA Following == ASSUME NEW k, NEW n, NEW m, SameStop(k, n), SameStop(n, m) PROVE SameStop(k, m)
  BY DEF SameStop

(* The leg an action closes is one of the strategy's, if there is any.     *)
LEMMA CloseTagIsOne ==
  ASSUME NEW m, IsMem(m), NEW name
  PROVE  Rules!CloseTag(m, name) \in RuleTags \cup {Nothing}
<1> DEFINE A == Rules!Active(m)
           gains == {Rules!ProfitOf(m, t) : t \in A}
           losses == {0 - Rules!ProfitOf(m, t) : t \in A}
<1>1. IsFiniteSet(A) /\ A \subseteq RuleTags /\ \A t \in A : Rules!ProfitOf(m, t) \in Int
  BY NumbersOf
<1>2. CASE A = {}
  BY <1>2 DEF Rules!CloseTag
<1>3. CASE A # {}
  <2>1. \E t \in A : \A u \in A : Rules!ProfitOf(m, t) >= Rules!ProfitOf(m, u)
    <3>1. IsFiniteSet(gains)
      <4> DEFINE f == [t \in A |-> Rules!ProfitOf(m, t)]
      <4>1. f \in Surjection(A, gains)
        BY DEF Surjection
      <4> QED
        BY <1>1, <4>1, FS_Surjection, Zenon
    <3>2. gains \in SUBSET Int /\ gains # {}
      BY <1>1, <1>3
    <3>3. PICK i \in gains : \A j \in gains : i >= j
      BY <3>1, <3>2, GreatestExists
    <3> QED
      BY <3>3
  <2>2. \E t \in A : \A u \in A : Rules!ProfitOf(m, t) <= Rules!ProfitOf(m, u)
    <3>1. IsFiniteSet(losses)
      <4> DEFINE f == [t \in A |-> 0 - Rules!ProfitOf(m, t)]
      <4>1. f \in Surjection(A, losses)
        BY DEF Surjection
      <4> QED
        BY <1>1, <4>1, FS_Surjection, Zenon
    <3>2. losses \in SUBSET Int /\ losses # {}
      BY <1>1, <1>3
    <3>3. PICK i \in losses : \A j \in losses : i >= j
      BY <3>1, <3>2, GreatestExists
    <3>4. PICK t \in A : i = 0 - Rules!ProfitOf(m, t)
      BY <3>3
    <3>5. ASSUME NEW u \in A PROVE Rules!ProfitOf(m, t) <= Rules!ProfitOf(m, u)
      <4>1. 0 - Rules!ProfitOf(m, u) \in losses
        OBVIOUS
      <4>2. 0 - Rules!ProfitOf(m, t) >= 0 - Rules!ProfitOf(m, u)
        BY <3>3, <3>4, <4>1
      <4>3. Rules!ProfitOf(m, t) \in Int /\ Rules!ProfitOf(m, u) \in Int
        BY <1>1
      <4> QED
        BY <4>2, <4>3
    <3> QED
      BY <3>5
  <2>3. Rules!Best(m) \in A /\ Rules!Worst(m) \in A
    BY <2>1, <2>2 DEF Rules!Best, Rules!Worst
  <2> QED
    BY <1>1, <1>3, <2>3 DEF Rules!CloseTag
<1> QED
  BY <1>2, <1>3

-----------------------------------------------------------------------------
(* Conditions: what was seen of the spot is what was seen before, or the   *)
(* spot; and a list with an upward crossing holds when that is over the    *)
(* mark.                                                                   *)
After(q, p, s) == DOMAIN q = Rules!Params /\ q["spot_price"] \in {p["spot_price"], s}

Crosses(q, p, s) ==
  /\ p["spot_price"] # Nothing /\ p["spot_price"] <= conf.mark
  /\ s > conf.mark /\ q["spot_price"] = s

LEMMA OneCondition ==
  ASSUME NEW m, NEW s, NEW acc, NEW c, DOMAIN acc.prev = Rules!Params
  PROVE  LET n == Seeing(m, s, acc, c)
         IN /\ After(n.prev, acc.prev, s)
            /\ c.join = "AND" /\ n.holds => acc.holds
            /\ c.join = "AND" /\ n.holds /\ c.cmp = "crosses_above" /\ c.param = "spot_price"
               /\ c.value = conf.mark => Crosses(n.prev, acc.prev, s)
<1> DEFINE n == Seeing(m, s, acc, c)
           x == Rules!Value(m, s, c.param)
           h == Rules!Holds(c, x, acc.prev[c.param])
<1>1. n.prev = [acc.prev EXCEPT ![c.param] = Rules!Remembered(c, x, @)]
  BY DEF Seeing
<1>2. n.holds = IF c.join = "OR" THEN acc.holds \/ h ELSE acc.holds /\ h
  BY DEF Seeing
<1>3. c.param = "spot_price" => x = s
  BY DEF Rules!Value
<1>4. Rules!Remembered(c, x, acc.prev[c.param]) \in {x, acc.prev[c.param]}
  BY DEF Rules!Remembered
<1> HIDE DEF x
<1>5. After(n.prev, acc.prev, s)
  <2> HIDE DEF n
  <2> QED
    BY <1>1, <1>3, <1>4 DEF After, Rules!Params
<1>6. c.join = "AND" /\ n.holds => acc.holds /\ h
  <2> HIDE DEF n, h
  <2> QED
    BY <1>2
<1>7. ASSUME h, c.cmp = "crosses_above", c.param = "spot_price", c.value = conf.mark
      PROVE  Crosses(n.prev, acc.prev, s)
  <2>1. Rules!Crossed(TRUE, acc.prev["spot_price"], s, conf.mark)
    BY <1>3, <1>7 DEF Rules!Holds
  <2>2. n.prev["spot_price"] = s
    <3> HIDE DEF n
    <3> QED
      BY <1>1, <1>3, <1>7 DEF Rules!Remembered, Rules!Crossing, Rules!Params
  <2> HIDE DEF n
  <2> QED
    BY <2>1, <2>2 DEF Crosses, Rules!Crossed
<1> HIDE DEF n, h
<1> QED
  BY <1>5, <1>6, <1>7 DEF n

LEMMA Evaluating ==
  ASSUME conf \in Rulebook, NEW m, NEW s \in Int, NEW l, IsSeries(l), DOMAIN m.prev = Rules!Params
  PROVE  LET e == Rules!Evaluate(m, s, l)
         IN /\ After(e.prev, m.prev, s)
            /\ e.holds /\ Rules!Upward(l) /\ RequiresMark(conf, l) => Crosses(e.prev, m.prev, s)
<1> DEFINE S == DOMAIN l
           f == CHOOSE g : g = ListOf(m, s, l, g, SUBSET S)
           Asks(t) == Rules!Upward(l) /\ RequiresMark(conf, l) /\ \E i \in t : l[i].cmp = "crosses_above"
           Good(t) == /\ After(f[t].prev, m.prev, s)
                      /\ f[t].holds /\ Asks(t) => Crosses(f[t].prev, m.prev, s)
           Bad == {t \in SUBSET S : ~Good(t)}
<1>1. Rules!Evaluate(m, s, l) = f[S]
  BY DEF Rules!Evaluate, Rules!FoldLeft, Rules!MapThenFoldSet, ListOf, Seeing
<1>2. IsFiniteSet(S) /\ S \subseteq Int
  BY DEF IsSeries
<1>3. f = ListOf(m, s, l, f, SUBSET S)
  <2>1. "list" \in Kinds
    BY DEF Kinds
  <2>2. \E g : g = FoldOf("list", m, s, l, g, SUBSET S)
    <3> HIDE DEF S
    <3> QED
      BY <1>2, <2>1, FoldExists
  <2> QED
    BY <2>2 DEF FoldOf
<1> HIDE DEF f
<1>4. ASSUME Bad # {} PROVE FALSE
  <2> HIDE DEF Good
  <2>1. PICK t \in Bad : \A u \in Bad : Cardinality(t) <= Cardinality(u)
    BY <1>2, <1>4, SmallestExists
  <2> DEFINE x == Rules!Max(t)
             acc == f[t \ {x}]
  <2>2. f[t] = IF t = {} THEN [prev |-> m.prev, holds |-> TRUE] ELSE Seeing(m, s, acc, l[x])
    BY <1>3 DEF ListOf
  <2>3. t # {}
    <3> SUFFICES ASSUME t = {} PROVE Good(t)
      BY <2>1
    <3> QED
      BY <2>2 DEF Good, After
  <2>4. x \in t /\ x \in S
    BY <1>2, <2>3, MaxFacts, FS_Subset
  <2> HIDE DEF x
  <2>5. Good(t \ {x})
    BY <1>2, <2>1, <2>4, Smaller
  <2> DEFINE n == Seeing(m, s, acc, l[x])
  <2> HIDE DEF acc
  <2>6. After(acc.prev, m.prev, s) /\ (acc.holds /\ Asks(t \ {x}) => Crosses(acc.prev, m.prev, s))
    BY <2>5 DEF Good, acc
  <2>7. /\ After(n.prev, acc.prev, s) /\ (l[x].join = "AND" /\ n.holds => acc.holds)
        /\ l[x].join = "AND" /\ n.holds /\ l[x].cmp = "crosses_above" /\ l[x].param = "spot_price"
           /\ l[x].value = conf.mark => Crosses(n.prev, acc.prev, s)
    BY <2>6, OneCondition DEF After
  <2>8. f[t] = n
    BY <2>2, <2>3
  <2> HIDE DEF n
  <2>9. After(n.prev, m.prev, s)
    BY <2>6, <2>7 DEF After
  <2>10. ASSUME n.holds, Asks(t) PROVE Crosses(n.prev, m.prev, s)
    <3>1. /\ l[x].join = "AND"
          /\ l[x].cmp = "crosses_above" => l[x].param = "spot_price" /\ l[x].value = conf.mark
      BY <2>4, <2>10 DEF RequiresMark
    <3>2. conf.mark \in Int
      BY MarksAssumption
    <3>3. CASE l[x].cmp = "crosses_above"
      BY <2>6, <2>7, <2>10, <3>1, <3>2, <3>3 DEF Crosses, After
    <3>4. CASE l[x].cmp # "crosses_above"
      BY <2>6, <2>7, <2>10, <3>1, <3>2, <3>4 DEF Crosses, After
    <3> QED
      BY <3>3, <3>4
  <2> QED
    BY <2>1, <2>8, <2>9, <2>10 DEF Good
<1>5. Good(S)
  BY <1>4
<1> QED
  BY <1>1, <1>5 DEF Rules!Upward

LEMMA Combining ==
  ASSUME conf \in Rulebook, NEW m, IsMem(m), NEW s \in Int
  PROVE  After(Rules!Combined(m, s).prev, m.prev, s)
<1> DEFINE S == DOMAIN conf.combined
           f == CHOOSE g : g = SomeOf(m, s, g, SUBSET S)
           Good(t) == After(f[t].prev, m.prev, s)
           Bad == {t \in SUBSET S : ~Good(t)}
<1>1. Rules!Combined(m, s).prev = f[S].prev
  BY DEF Rules!Combined, Rules!FoldLeft, Rules!MapThenFoldSet, SomeOf, Looking
<1>2. IsFiniteSet(S) /\ S \subseteq Int
  BY RulesAssumption DEF IsSeries
<1>3. f = SomeOf(m, s, f, SUBSET S)
  <2>1. "some" \in Kinds
    BY DEF Kinds
  <2>2. \E g : g = FoldOf("some", m, s, 0, g, SUBSET S)
    <3> HIDE DEF S
    <3> QED
      BY <1>2, <2>1, FoldExists
  <2> QED
    BY <2>2 DEF FoldOf
<1> HIDE DEF f
<1>4. ASSUME Bad # {} PROVE FALSE
  <2> HIDE DEF Good
  <2>1. PICK t \in Bad : \A u \in Bad : Cardinality(t) <= Cardinality(u)
    BY <1>2, <1>4, SmallestExists
  <2> DEFINE x == Rules!Max(t)
             acc == f[t \ {x}]
             c == conf.combined[x]
  <2>2. f[t] = IF t = {} THEN [prev |-> m.prev, holds |-> conf.any # "OR", some |-> FALSE]
               ELSE Looking(m, s, acc, c)
    BY <1>3 DEF SomeOf
  <2>3. t # {}
    <3> SUFFICES ASSUME t = {} PROVE Good(t)
      BY <2>1
    <3> QED
      BY <2>2 DEF Good, After, IsMem
  <2>4. x \in t
    BY <1>2, <2>3, MaxFacts, FS_Subset
  <2> HIDE DEF x, c
  <2>5. After(acc.prev, m.prev, s)
    BY <1>2, <2>1, <2>4, Smaller DEF Good
  <2> HIDE DEF acc
  <2> DEFINE e == Rules!Evaluate([m EXCEPT !.prev = acc.prev], s, <<c>>)
  <2>6. After(e.prev, acc.prev, s)
    <3>1. IsSeries(<<c>>)
      <4>1. DOMAIN <<c>> = {1}
        OBVIOUS
      <4>2. IsFiniteSet({1})
        BY FS_Singleton
      <4> QED
        BY <4>1, <4>2 DEF IsSeries
    <3>2. [m EXCEPT !.prev = acc.prev].prev = acc.prev
      BY DEF IsMem, MemFields
    <3>3. DOMAIN acc.prev = Rules!Params
      BY <2>5 DEF After
    <3> QED
      BY <3>1, <3>2, <3>3, Evaluating
  <2>7. Looking(m, s, acc, c).prev \in {acc.prev, e.prev}
    BY DEF Looking
  <2> HIDE DEF e
  <2>8. f[t].prev \in {acc.prev, e.prev}
    BY <2>2, <2>3, <2>7
  <2> QED
    BY <2>1, <2>5, <2>6, <2>8 DEF Good, After
<1> QED
  BY <1>1, <1>4

-----------------------------------------------------------------------------
(* The adjustment rules leave the stop alone. *)
Follows(n, m, s) == IsMem(n) /\ n.trail = m.trail /\ After(n.prev, m.prev, s)

LEMMA SameFollows ==
  ASSUME NEW n, NEW m, NEW s, IsMem(m), SameStop(n, m)
  PROVE  Follows(n, m, s)
  BY DEF SameStop, Follows, IsMem, After

LEMMA SeenFollows ==
  ASSUME NEW m, IsMem(m), NEW s \in Int, NEW e, After(e.prev, m.prev, s)
  PROVE  Follows(Rules!Seen(m, e), m, s) /\ Rules!Seen(m, e).prev = e.prev
         /\ Rules!Seen(m, e).legs = m.legs
  BY DEF Follows, IsMem, MemFields, After, Rules!Seen

LEMMA FollowsOn ==
  ASSUME NEW k, NEW n, NEW m, NEW s, Follows(k, n, s), Follows(n, m, s)
  PROVE  Follows(k, m, s)
  BY DEF Follows, After

LEMMA PerformedKeeps ==
  ASSUME NEW m, IsMem(m), NEW a, a.lots \in Int, NEW s \in Int
  PROVE  SameStop(Rules!Performed(m, a, s), m)
<1> DEFINE t == Rules!CloseTag(m, a.leg)
<1>1. t \in RuleTags \cup {Nothing}
  BY CloseTagIsOne
<1>2. SameStop(m, m)
  BY DEF SameStop
<1> HIDE DEF t
<1>3. SameStop(Rules!Swapped(m, t, a, s), m)
  <2>1. CASE t # Nothing /\ m.legs[t].strike = s
    BY <1>2, <2>1 DEF Rules!Swapped
  <2>2. CASE ~(t # Nothing /\ m.legs[t].strike = s)
    <3> DEFINE c == IF t = Nothing THEN m
                    ELSE [Rules!Shut(m, t) EXCEPT !.booked = @ + Rules!ProfitOf(m, t)]
    <3>1. SameStop(c, m)
      BY <1>1, <1>2, ShutKeeps, Booking
    <3> HIDE DEF c
    <3>2. SameStop(Rules!NewLeg(c, a.new, 1, s), c)
      BY <3>1, NewLegKeeps DEF SameStop
    <3>3. Rules!Swapped(m, t, a, s) = Rules!NewLeg(c, a.new, 1, s)
      BY <2>2 DEF Rules!Swapped, c
    <3> QED
      BY <3>1, <3>2, <3>3, Following
  <2> QED
    BY <2>1, <2>2
<1>4. SameStop(Rules!NewLeg(m, a.new, 1, s), m)
  BY NewLegKeeps
<1>5. ASSUME t # Nothing
      PROVE  /\ SameStop(Rules!Shut(m, t), m) /\ SameStop(Rules!Less(m, t, a.lots), m)
             /\ SameStop(Rules!Less(m, t, Rules!Part(m.legs[t].lots, a.lots)), m)
             /\ SameStop(Rules!Shut(Rules!NewLeg(m, a.new, m.legs[t].lots, m.legs[t].strike), t), m)
             /\ SameStop(Rules!NewLeg(m, a.new, m.legs[t].lots, m.legs[t].strike + 1), m)
  <2>1. t \in RuleTags /\ m.legs[t].lots \in Int /\ m.legs[t].strike \in Int
        /\ m.legs[t].strike + 1 \in Int
    BY <1>1, <1>5 DEF IsMem, LegRecord
  <2> DEFINE n == Rules!NewLeg(m, a.new, m.legs[t].lots, m.legs[t].strike)
  <2>2. SameStop(n, m)
    BY <2>1, NewLegKeeps
  <2> HIDE DEF n
  <2>3. SameStop(Rules!Shut(n, t), m)
    BY <2>1, <2>2, ShutKeeps, Following DEF SameStop
  <2>4. SameStop(Rules!Less(m, t, Rules!Part(m.legs[t].lots, a.lots)), m)
    BY <2>1, PartIsNumber, LessKeeps
  <2>5. SameStop(Rules!Shut(m, t), m) /\ SameStop(Rules!Less(m, t, a.lots), m)
    BY <2>1, ShutKeeps, LessKeeps
  <2>6. SameStop(Rules!NewLeg(m, a.new, m.legs[t].lots, m.legs[t].strike + 1), m)
    BY <2>1, NewLegKeeps
  <2> QED
    BY <2>3, <2>4, <2>5, <2>6 DEF n
<1> DEFINE P == Rules!Performed(m, a, s)
<1>6. \/ P \in {m, Rules!Swapped(m, t, a, s), Rules!NewLeg(m, a.new, 1, s)}
      \/ /\ t # Nothing
         /\ P \in {Rules!Shut(m, t), Rules!Less(m, t, a.lots),
                   Rules!Less(m, t, Rules!Part(m.legs[t].lots, a.lots)),
                   Rules!Shut(Rules!NewLeg(m, a.new, m.legs[t].lots, m.legs[t].strike), t),
                   Rules!NewLeg(m, a.new, m.legs[t].lots, m.legs[t].strike + 1)}
  BY Zenon DEF Rules!Performed, t
<1> HIDE DEF P
<1> QED
  BY <1>2, <1>3, <1>4, <1>5, <1>6 DEF P

(* A rule that fires for an upward crossing has seen the spot cross.       *)
LEMMA OneRule ==
  ASSUME conf \in Rulebook, NEW acc, IsMem(acc.mem), NEW s \in Int, NEW i \in DOMAIN conf.rules,
         DOMAIN acc = {"mem", "marks", "fired"}
  PROVE  LET n == Applying(s, acc, i)
         IN /\ DOMAIN n = {"mem", "marks", "fired"} /\ Follows(n.mem, acc.mem, s)
            /\ \/ n.fired = acc.fired
               \/ /\ n.fired = acc.fired \cup {i}
                  /\ Rules!Upward(conf.rules[i].conds) => Crosses(n.mem.prev, acc.mem.prev, s)
<1> DEFINE r == conf.rules[i]
           e == Rules!Evaluate(acc.mem, s, r.conds)
           g == Rules!Evaluate(Rules!Seen(acc.mem, e), s, r.orelse)
           chosen == e.holds \/ (r.else /\ g.holds)
           n == Rules!Seen(acc.mem, IF e.holds \/ ~r.else THEN e ELSE g)
           p == Rules!Performed(n, IF e.holds THEN r.action ELSE r.elseaction, s)
           q == [p EXCEPT !.today = @ + 1, !.life = @ + 1]
           N == Applying(s, acc, i)
<1>1. /\ r.action.lots \in Int /\ r.elseaction.lots \in Int
      /\ IsSeries(r.conds) /\ IsSeries(r.orelse)
  BY RulesAssumption
<1>2. RequiresMark(conf, r.conds) /\ (Rules!Upward(r.conds) => ~r.else)
  BY MarksAssumption
<1>3. N = IF ~Rules!MayFire(i, r, acc.mem, acc.marks) THEN acc
          ELSE IF ~chosen \/ p.legs = n.legs THEN [acc EXCEPT !.mem = n]
          ELSE [mem |-> q, marks |-> Rules!Fired(i, r, acc.marks), fired |-> acc.fired \cup {i}]
  BY DEF Applying
<1> HIDE DEF r, N
<1>4. /\ After(e.prev, acc.mem.prev, s)
      /\ e.holds /\ Rules!Upward(r.conds) => Crosses(e.prev, acc.mem.prev, s)
  BY <1>1, <1>2, Evaluating DEF IsMem
<1> HIDE DEF e
<1>5. Follows(Rules!Seen(acc.mem, e), acc.mem, s) /\ Rules!Seen(acc.mem, e).prev = e.prev
  BY <1>4, SeenFollows
<1>6. After(g.prev, acc.mem.prev, s)
  <2>1. After(g.prev, Rules!Seen(acc.mem, e).prev, s)
    BY <1>1, <1>5, Evaluating DEF Follows, IsMem
  <2> HIDE DEF g
  <2> QED
    BY <1>4, <1>5, <2>1 DEF After
<1> HIDE DEF g
<1>7. Follows(n, acc.mem, s) /\ (e.holds => n.prev = e.prev)
  BY <1>4, <1>6, SeenFollows
<1> HIDE DEF n
<1>8. SameStop(p, n)
  <2>1. (IF e.holds THEN r.action ELSE r.elseaction).lots \in Int
    BY <1>1
  <2> QED
    BY <1>7, <2>1, PerformedKeeps DEF Follows
<1> HIDE DEF p
<1>9. SameStop(q, n)
  BY <1>8 DEF SameStop, IsMem, MemFields
<1>10. Follows(q, acc.mem, s) /\ q.prev = n.prev
  BY <1>7, <1>9, SameFollows, FollowsOn DEF Follows, SameStop
<1> HIDE DEF q
<1>11. Follows(acc.mem, acc.mem, s)
  BY DEF Follows, After, IsMem
<1>12. CASE ~Rules!MayFire(i, r, acc.mem, acc.marks)
  BY <1>3, <1>11, <1>12 DEF N
<1>13. CASE Rules!MayFire(i, r, acc.mem, acc.marks) /\ (~chosen \/ p.legs = n.legs)
  <2>1. N = [acc EXCEPT !.mem = n]
    BY <1>3, <1>13
  <2>2. DOMAIN N = {"mem", "marks", "fired"} /\ N.mem = n /\ N.fired = acc.fired
    BY <2>1
  <2> QED
    BY <1>7, <2>2 DEF N
<1>14. CASE Rules!MayFire(i, r, acc.mem, acc.marks) /\ ~(~chosen \/ p.legs = n.legs)
  <2>1. N = [mem |-> q, marks |-> Rules!Fired(i, r, acc.marks), fired |-> acc.fired \cup {i}]
    BY <1>3, <1>14
  <2>2. DOMAIN N = {"mem", "marks", "fired"} /\ N.mem = q /\ N.fired = acc.fired \cup {i}
    BY <2>1
  <2>3. Rules!Upward(r.conds) => Crosses(N.mem.prev, acc.mem.prev, s)
    BY <1>2, <1>4, <1>7, <1>10, <1>14, <2>2
  <2> QED
    BY <1>10, <2>2, <2>3 DEF N, r
<1> QED
  BY <1>12, <1>13, <1>14

LEMMA Adjusting ==
  ASSUME conf \in Rulebook, NEW m, IsMem(m), NEW s \in Int
  PROVE  LET a == Rules!Applied(m, s)
         IN /\ Follows(a.mem, m, s)
            /\ (\E i \in a.fired : Rules!Upward(conf.rules[i].conds)) => Crosses(a.mem.prev, m.prev, s)
<1> DEFINE S == DOMAIN conf.rules
           ids == [i \in S |-> i]
           Body(g) == [t \in SUBSET S |-> IF t = {} THEN [mem |-> m, marks |-> marks, fired |-> {}]
                                          ELSE Applying(s, g[t \ {Rules!Max(t)}], ids[Rules!Max(t)])]
           f == CHOOSE g : g = Body(g)
           AsksUp(F) == \E i \in F : Rules!Upward(conf.rules[i].conds)
           Good(t) == /\ DOMAIN f[t] = {"mem", "marks", "fired"} /\ Follows(f[t].mem, m, s)
                      /\ AsksUp(f[t].fired) => Crosses(f[t].mem.prev, m.prev, s)
           Bad == {t \in SUBSET S : ~Good(t)}
<1>1. Rules!Applied(m, s) = f[S]
  BY DEF Rules!Applied, Rules!FoldLeftDomain, Rules!FoldLeft, Rules!MapThenFoldSet, Applying
<1>2. IsFiniteSet(S) /\ S \subseteq Int
  BY RulesAssumption DEF IsSeries
<1>3. f = RulesOf(m, s, f, SUBSET S)
  <2>1. ASSUME NEW t \in SUBSET S, t # {} PROVE ids[Rules!Max(t)] = Rules!Max(t)
    <3>1. Rules!Max(t) \in t
      BY <1>2, <2>1, MaxFacts, FS_Subset
    <3> QED
      BY <3>1
  <2>2. ASSUME NEW g PROVE RulesOf(m, s, g, SUBSET S) = Body(g)
    <3> HIDE DEF ids
    <3> QED
      BY <2>1 DEF RulesOf
  <2> HIDE DEF Body
  <2>3. \E g : g = Body(g)
    <3>1. "rules" \in Kinds
      BY DEF Kinds
    <3>2. \E g : g = FoldOf("rules", m, s, 0, g, SUBSET S)
      <4> HIDE DEF S
      <4> QED
        BY <1>2, <3>1, FoldExists
    <3> QED
      BY <2>2, <3>2 DEF FoldOf
  <2>4. f = Body(f)
    BY <2>3
  <2> QED
    BY <2>2, <2>4
<1> HIDE DEF f
<1>4. ASSUME Bad # {} PROVE FALSE
  <2> HIDE DEF Good
  <2>1. PICK t \in Bad : \A u \in Bad : Cardinality(t) <= Cardinality(u)
    BY <1>2, <1>4, SmallestExists
  <2> DEFINE x == Rules!Max(t)
             acc == f[t \ {x}]
  <2>2. f[t] = IF t = {} THEN [mem |-> m, marks |-> marks, fired |-> {}] ELSE Applying(s, acc, x)
    BY <1>3 DEF RulesOf
  <2>3. t # {}
    <3> SUFFICES ASSUME t = {} PROVE Good(t)
      BY <2>1
    <3>1. f[t] = [mem |-> m, marks |-> marks, fired |-> {}]
      BY <2>2
    <3> QED
      BY <3>1 DEF Good, Follows, After, IsMem
  <2>4. x \in t /\ x \in S
    BY <1>2, <2>3, MaxFacts, FS_Subset
  <2> HIDE DEF x
  <2>5. Good(t \ {x})
    BY <1>2, <2>1, <2>4, Smaller
  <2> HIDE DEF acc
  <2>6. /\ DOMAIN acc = {"mem", "marks", "fired"} /\ Follows(acc.mem, m, s)
        /\ AsksUp(acc.fired) => Crosses(acc.mem.prev, m.prev, s)
    BY <2>5 DEF Good, acc
  <2> DEFINE n == Applying(s, acc, x)
  <2>7. /\ DOMAIN n = {"mem", "marks", "fired"} /\ Follows(n.mem, acc.mem, s)
        /\ \/ n.fired = acc.fired
           \/ /\ n.fired = acc.fired \cup {x}
              /\ Rules!Upward(conf.rules[x].conds) => Crosses(n.mem.prev, acc.mem.prev, s)
    BY <2>4, <2>6, OneRule DEF Follows
  <2>8. f[t] = n
    BY <2>2, <2>3
  <2> HIDE DEF n
  <2>9. Follows(n.mem, m, s)
    BY <2>6, <2>7, FollowsOn
  <2>10. ASSUME AsksUp(n.fired) PROVE Crosses(n.mem.prev, m.prev, s)
    <3>1. conf.mark \in Int
      BY MarksAssumption
    <3>2. CASE AsksUp(acc.fired)
      BY <2>6, <2>7, <3>1, <3>2 DEF Crosses, Follows, After
    <3>3. CASE ~AsksUp(acc.fired)
      <4>1. Crosses(n.mem.prev, acc.mem.prev, s)
        BY <2>7, <2>10, <3>3
      <4> QED
        BY <2>6, <3>1, <4>1 DEF Crosses, Follows, After
    <3> QED
      BY <3>2, <3>3
  <2> QED
    BY <2>1, <2>7, <2>8, <2>9, <2>10 DEF Good
<1>5. Good(S)
  BY <1>4
<1> QED
  BY <1>1, <1>5

-----------------------------------------------------------------------------
(* The stop, once on, is no lower than where it was set, and neither is    *)
(* the place a step would put it, where the trail is an amount: the part   *)
(* of the inductive invariant that is about one memory.                    *)
Locked(m) ==
  m.trail.on /\ Rules!StopNeverLowered(conf) =>
    /\ m.trail.level >= m.trail.floor
    /\ conf.trail # NoLimit => m.trail.peak - conf.trail >= m.trail.floor

Keeps(n, m, s) == IsMem(n) /\ Locked(n) /\ After(n.prev, m.prev, s)

LEMMA FollowsKeeps ==
  ASSUME NEW n, NEW m, NEW s, IsMem(m), Locked(m), Follows(n, m, s)
  PROVE  Keeps(n, m, s)
  BY DEF Follows, Keeps, Locked

LEMMA KeepsOn ==
  ASSUME NEW k, NEW n, NEW m, NEW s, Keeps(k, n, s), Keeps(n, m, s)
  PROVE  Keeps(k, m, s)
  BY DEF Keeps, After

LEMMA NumbersOfConf ==
  ASSUME conf \in Rulebook
  PROVE  /\ conf.trail \in Nat \cup {NoLimit} /\ conf.trailpct \in Int \cup {NoLimit}
         /\ conf.gap \in Int \cup {NoLimit} /\ conf.mark \in Int /\ NoLimit \notin Int /\ Nothing \notin Int
  BY RulesAssumption, MarksAssumption

(* An amount, in percent or not, is a number or not set. *)
LEMMA AmountOfTrail ==
  ASSUME conf \in Rulebook, NEW m, IsMem(m)
  PROVE  /\ Rules!TrailOf(m) \in Int \cup {NoLimit}
         /\ conf.trail # NoLimit => Rules!TrailOf(m) = conf.trail
<1>1. Rules!Lots(m) \in Int
  BY NumbersOf
<1>2. conf.trailpct # NoLimit => conf.trailpct * Rules!Lots(m) \in Int
  BY <1>1, NumbersOfConf
<1> QED
  BY <1>2, NumbersOfConf DEF Rules!TrailOf, Rules!Amount, Rules!IsSet

(* The stop follows the peak, and is set when the profit is there.         *)
LEMMA Trailing ==
  ASSUME conf \in Rulebook, NEW m, IsMem(m), Locked(m), NEW s
  PROVE  Keeps([m EXCEPT !.trail = Rules!Trailed(m)], m, s)
<1> DEFINE p == Rules!Profit(m)
           trail == Rules!TrailOf(m)
           level == p - trail
           sets == ~m.trail.on /\ Rules!IsSet(Rules!LockOf(m)) /\ p >= Rules!LockOf(m)
           t == [m.trail EXCEPT !.peak = IF p > @ THEN p ELSE @]
           u == IF sets THEN [t EXCEPT !.on = TRUE, !.level = level, !.floor = level] ELSE t
           n == [m EXCEPT !.trail = Rules!Trailed(m)]
<1>1. p \in Int
  BY NumbersOf
<1>2. m.trail \in Trail
  BY DEF IsMem
<1>3. trail \in Int \cup {NoLimit} /\ (conf.trail # NoLimit => trail = conf.trail) /\ NoLimit \notin Int
  BY AmountOfTrail, NumbersOfConf
<1>4. Rules!Trailed(m) = IF ~Rules!IsSet(trail) THEN m.trail ELSE IF u.on THEN Rules!Ratcheted(m, u) ELSE u
  <2>1. t.on = m.trail.on
    BY <1>2 DEF Trail
  <2> QED
    BY <2>1 DEF Rules!Trailed
<1>r. ASSUME NEW w \in Trail
      PROVE  Rules!Ratcheted(m, w) = IF Rules!IsSet(conf.gap)
               THEN IF w.peak - w.level >= conf.gap THEN [w EXCEPT !.level = w.peak - trail] ELSE w
               ELSE IF w.peak - trail > w.level THEN [w EXCEPT !.level = w.peak - trail] ELSE w
  BY DEF Rules!Ratcheted
<1> HIDE DEF p, trail
<1>5. CASE trail = NoLimit
  <2>1. Rules!Trailed(m) = m.trail
    BY <1>4, <1>5 DEF Rules!IsSet
  <2> QED
    BY <2>1 DEF Keeps, After, IsMem, MemFields, Locked
<1>6. CASE trail # NoLimit
  <2>1. trail \in Int /\ level \in Int
    BY <1>1, <1>3, <1>6
  <2>2. /\ t \in Trail /\ t.on = m.trail.on /\ t.level = m.trail.level /\ t.floor = m.trail.floor
        /\ t.peak >= p /\ t.peak >= m.trail.peak
    BY <1>1, <1>2 DEF Trail
  <2> HIDE DEF t, level
  <2>3. /\ u \in Trail /\ u.peak = t.peak
        /\ \/ ~sets /\ u = t
           \/ sets /\ u.on /\ u.level = level /\ u.floor = level
    <3>1. CASE sets
      BY <2>1, <2>2, <3>1 DEF Trail
    <3>2. CASE ~sets
      BY <2>2, <3>2
    <3> QED
      BY <3>1, <3>2
  <2> DEFINE good(w) == /\ w.level >= w.floor
                        /\ conf.trail # NoLimit => w.peak - conf.trail >= w.floor
  <2>4. ASSUME u.on, Rules!StopNeverLowered(conf) PROVE good(u)
    <3>1. CASE sets
      <4>1. u.level = level /\ u.floor = level /\ u.peak >= p /\ u.peak \in Int
        BY <2>2, <2>3, <3>1 DEF Trail
      <4> QED
        BY <1>1, <1>3, <2>1, <4>1 DEF level
    <3>2. CASE ~sets
      <4>1. /\ m.trail.on /\ u.level = m.trail.level /\ u.floor = m.trail.floor /\ u.peak >= m.trail.peak
            /\ {u.peak, u.level, u.floor, m.trail.peak} \subseteq Int
        BY <1>2, <2>2, <2>3, <2>4, <3>2 DEF Trail
      <4> HIDE DEF u
      <4>2. /\ m.trail.level >= m.trail.floor
            /\ conf.trail # NoLimit => m.trail.peak - conf.trail >= m.trail.floor
        BY <2>4, <4>1 DEF Locked
      <4>3. conf.trail # NoLimit => conf.trail \in Int
        BY NumbersOfConf
      <4> QED
        BY <4>1, <4>2, <4>3
    <3> QED
      BY <3>1, <3>2
  <2> HIDE DEF u, sets
  <2> DEFINE r == Rules!Ratcheted(m, u)
             w == Rules!Trailed(m)
  <2>5. w = IF u.on THEN r ELSE u
    BY <1>4, <1>6 DEF Rules!IsSet
  <2>6. /\ r \in Trail /\ r.on = u.on /\ r.peak = u.peak /\ r.floor = u.floor
        /\ r.level \in {u.level, u.peak - trail}
        /\ ~Rules!IsSet(conf.gap) => r.level >= u.level
    <3>1. conf.gap \in Int \cup {NoLimit}
      BY NumbersOfConf
    <3>2. u.peak \in Int /\ u.level \in Int /\ u.peak - trail \in Int
      BY <2>1, <2>3 DEF Trail
    <3>3. [u EXCEPT !.level = u.peak - trail] \in Trail
      BY <2>3, <3>2 DEF Trail
    <3> QED
      BY <1>3, <2>1, <2>3, <3>1, <3>2, <3>3, <1>r DEF Trail, Rules!IsSet
  <2>7. ASSUME w.on, Rules!StopNeverLowered(conf) PROVE good(w)
    <3>1. u.on /\ w = r
      BY <2>5, <2>7
    <3>2. good(u)
      BY <2>4, <2>7, <3>1
    <3>3. {u.peak, u.level, u.floor} \subseteq Int /\ r.floor = u.floor /\ r.peak = u.peak
      BY <2>3, <2>6 DEF Trail
    <3> HIDE DEF r, w
    <3>4. CASE conf.trail # NoLimit
      <4>1. trail = conf.trail /\ r.level \in {u.level, u.peak - trail}
        BY <1>3, <2>6, <3>4
      <4> QED
        BY <2>1, <3>1, <3>2, <3>3, <3>4, <4>1
    <3>5. CASE conf.trail = NoLimit
      <4>1. ~Rules!IsSet(conf.gap)
        BY <2>7, <3>5 DEF Rules!StopNeverLowered, Rules!IsSet
      <4>2. r.level >= u.level /\ r.level \in Int
        BY <2>6, <4>1 DEF Trail
      <4> QED
        BY <3>1, <3>2, <3>3, <3>5, <4>2
    <3> QED
      BY <3>4, <3>5
  <2>8. w \in Trail
    BY <2>3, <2>5, <2>6
  <2> HIDE DEF r
  <2>9. n.trail = w /\ n.prev = m.prev /\ IsMem(n)
    BY <2>8 DEF IsMem, MemFields
  <2> HIDE DEF n, w
  <2>10. Keeps(n, m, s)
    BY <2>7, <2>9 DEF Keeps, Locked, After, IsMem
  <2> QED
    BY <2>10 DEF n
<1> QED
  BY <1>5, <1>6

LEMMA Checking ==
  ASSUME conf \in Rulebook, NEW m, IsMem(m), Locked(m), NEW s \in Int
  PROVE  LET x == Rules!CheckExits(m, s)
         IN Keeps(x.mem, m, s) /\ (x.act = "profit_target_trail" => conf.ontarget = "profit_target_trail")
<1> DEFINE t == [m EXCEPT !.trail = Rules!Trailed(m)]
           u == [t EXCEPT !.step = Rules!NextStep(t)]
           c == Rules!Combined(t, s)
           v == Rules!Seen(t, c)
           l == Rules!Evaluate(v, s, conf.leg)
           x == Rules!CheckExits(m, s)
<1>1. /\ x.mem \in {m, t, u, v, Rules!Seen(v, l)}
      /\ x.act \in {conf.ontarget, "exit_stop", "exit_all", conf.onstep, "leg_rule", "none"}
  BY Zenon DEF Rules!CheckExits
<1> HIDE DEF x
<1>2. Keeps(m, m, s)
  BY DEF Keeps, After, IsMem
<1>3. Keeps(t, m, s)
  BY Trailing
<1> HIDE DEF t
<1>4. Keeps(u, m, s)
  BY <1>3 DEF Keeps, IsMem, MemFields, Locked
<1> HIDE DEF u
<1>5. After(c.prev, t.prev, s)
  BY <1>3, Combining DEF Keeps
<1> HIDE DEF c
<1>6. Follows(v, t, s) /\ v.prev = c.prev
  BY <1>3, <1>5, SeenFollows DEF Keeps
<1>7. Keeps(v, m, s)
  BY <1>3, <1>6, FollowsKeeps, KeepsOn DEF Keeps
<1> HIDE DEF v
<1>8. Keeps(Rules!Seen(v, l), m, s)
  <2>1. IsSeries(conf.leg)
    BY RulesAssumption
  <2>2. After(l.prev, v.prev, s)
    BY <1>7, <2>1, Evaluating DEF Keeps, IsMem
  <2> HIDE DEF l
  <2> QED
    BY <1>7, <2>2, SeenFollows, FollowsKeeps, KeepsOn DEF Keeps
<1>9. conf.onstep # "profit_target_trail"
  BY RulesAssumption
<1> QED
  BY <1>1, <1>2, <1>3, <1>4, <1>7, <1>8, <1>9 DEF x

(* What an exit does to a memory. *)
LEMMA Executing ==
  ASSUME conf \in Rulebook, NEW m, IsMem(m), Locked(m), NEW s, NEW act,
         act = "profit_target_trail" => conf.ontarget = "profit_target_trail"
  PROVE  Keeps(Rules!Executed(m, act), m, s)
<1> DEFINE A == Rules!Active(m)
           Out(again) == Rules!Exited(m, again)
           one == Rules!Less(m, Rules!FirstActive(m), 1)
           held == [m EXCEPT !.trail.on = TRUE,
                      !.trail.level = m.trail.peak - (IF Rules!IsSet(conf.trail) THEN conf.trail ELSE 0)]
           step == [m EXCEPT !.trail.level = m.trail.peak - (conf.trail * 3) \div 4]
           all == [m EXCEPT !.legs = [t \in RuleTags |-> IF t \in A THEN Rules!Less(m, t, 1).legs[t] ELSE @[t]]]
           ref == Rules!Shut(m, conf.ref)
           n == Rules!Executed(m, act)
<1>1. Keeps(m, m, s)
  BY DEF Keeps, After, IsMem
<1>2. ASSUME NEW k, SameStop(k, m) PROVE Keeps(k, m, s)
  BY <1>2, SameFollows, FollowsKeeps
<1>3. \/ n \in {m, Out(FALSE), Out(conf.again), all, ref}
      \/ n = one /\ A # {}
      \/ n = held /\ act = "profit_target_trail"
      \/ n = step /\ Rules!IsSet(conf.trail)
  BY Zenon DEF Rules!Executed
<1> HIDE DEF n
<1>4. ASSUME NEW again PROVE Keeps(Out(again), m, s)
  <2> DEFINE shut == Rules!ShutAll(m)
  <2>1. SameStop(shut, m)
    <3>1. \A t \in RuleTags : Rules!Shut(m, t).legs[t] \in LegRecord /\ m.legs[t] \in LegRecord
      BY ShutKeeps DEF SameStop, IsMem
    <3> DEFINE legs == [t \in RuleTags |-> IF t \in A THEN Rules!Shut(m, t).legs[t] ELSE m.legs[t]]
    <3>2. legs \in [RuleTags -> LegRecord]
      BY <3>1
    <3>3. shut = [m EXCEPT !.legs = legs]
      BY DEF Rules!ShutAll, IsMem, MemFields
    <3> HIDE DEF legs
    <3> QED
      BY <3>2, <3>3, SetLegs
  <2> HIDE DEF shut
  <2> DEFINE k == [shut EXCEPT !.booked = @ + Rules!Profit(m)]
  <2>2. SameStop(k, m)
    BY <2>1, Booking
  <2>3. Out(again) = [k EXCEPT !.trail = Rules!Flat, !.step = -1, !.entered = ~again,
                               !.done = IF again THEN @ ELSE TRUE]
    BY DEF Rules!Exited, Rules!Booked, shut
  <2> HIDE DEF k
  <2> QED
    BY <2>2, <2>3 DEF SameStop, Keeps, IsMem, MemFields, After, Locked, Rules!Flat, Trail
<1>5. A # {} => Keeps(one, m, s)
  <2>1. A # {} => Rules!FirstActive(m) \in RuleTags
    BY NumbersOf DEF Rules!FirstActive
  <2> QED
    BY <1>2, <2>1, LessKeeps
<1>6. act = "profit_target_trail" => Keeps(held, m, s)
  <2> DEFINE level == m.trail.peak - (IF Rules!IsSet(conf.trail) THEN conf.trail ELSE 0)
  <2>1. level \in Int
    BY NumbersOfConf DEF IsMem, Trail, Rules!IsSet
  <2> HIDE DEF level
  <2>2. held = [m EXCEPT !.trail = [m.trail EXCEPT !.on = TRUE, !.level = level]]
    BY DEF IsMem, MemFields, level
  <2>3. [m.trail EXCEPT !.on = TRUE, !.level = level] \in Trail
    BY <2>1 DEF IsMem, Trail
  <2> HIDE DEF held
  <2> QED
    BY <2>2, <2>3 DEF Keeps, IsMem, MemFields, Locked, After, Rules!StopNeverLowered
<1>7. Rules!IsSet(conf.trail) => Keeps(step, m, s)
  <2> SUFFICES ASSUME Rules!IsSet(conf.trail) PROVE Keeps(step, m, s)
    OBVIOUS
  <2> DEFINE trail == conf.trail
             cut == (trail * 3) \div 4
  <2>1. trail \in Nat /\ cut \in Nat /\ cut <= trail
    BY NumbersOfConf DEF Rules!IsSet
  <2> HIDE DEF cut
  <2> DEFINE level == m.trail.peak - cut
  <2>2. level \in Int /\ m.trail.peak \in Int
    BY <2>1 DEF IsMem, Trail
  <2>3. step = [m EXCEPT !.trail = [m.trail EXCEPT !.level = level]]
    BY DEF IsMem, MemFields, cut
  <2>4. [m.trail EXCEPT !.level = level] \in Trail
    BY <2>2 DEF IsMem, Trail
  <2> HIDE DEF step
  <2>5. step.trail = [m.trail EXCEPT !.level = level] /\ step.prev = m.prev /\ IsMem(step)
    BY <2>3, <2>4 DEF IsMem, MemFields
  <2>6. /\ step.trail.on = m.trail.on /\ step.trail.peak = m.trail.peak /\ step.trail.level = level
        /\ step.trail.floor = m.trail.floor /\ m.trail.floor \in Int
    BY <2>5 DEF IsMem, Trail
  <2>7. Locked(step)
    BY <2>1, <2>2, <2>6, NumbersOfConf DEF Locked
  <2> QED
    BY <2>5, <2>7 DEF Keeps, After, IsMem
<1>8. Keeps(all, m, s)
  <2>1. \A t \in RuleTags : Rules!Less(m, t, 1).legs[t] \in LegRecord /\ m.legs[t] \in LegRecord
    BY LessKeeps DEF SameStop, IsMem
  <2> DEFINE legs == [t \in RuleTags |-> IF t \in A THEN Rules!Less(m, t, 1).legs[t] ELSE m.legs[t]]
  <2>2. legs \in [RuleTags -> LegRecord]
    BY <2>1
  <2>3. all = [m EXCEPT !.legs = legs]
    BY DEF IsMem, MemFields
  <2> HIDE DEF legs
  <2>4. SameStop(all, m)
    BY <2>2, <2>3, SetLegs
  <2> QED
    BY <1>2, <2>4
<1>9. Keeps(ref, m, s)
  <2>1. conf.ref \in RuleTags
    BY RulesAssumption
  <2> QED
    BY <1>2, <2>1, ShutKeeps
<1> HIDE DEF Out, one, held, step, all, ref
<1> QED
  BY <1>1, <1>3, <1>4, <1>5, <1>6, <1>7, <1>8, <1>9 DEF n

(* A new day, and the market read. *)
LEMMA NewDayKeeps ==
  ASSUME NEW m, IsMem(m), NEW s
  PROVE  Keeps(Rules!NewDay(m), m, s)
<1> DEFINE legs == [t \in RuleTags |-> IF t \in Rules!Active(m) THEN m.legs[t] ELSE Rules!NoLeg]
<1>1. legs \in [RuleTags -> LegRecord]
  BY DEF IsMem, LegRecord, Rules!NoLeg
<1>2. Rules!NewDay(m) = [m EXCEPT !.today = 0, !.entered = FALSE, !.done = FALSE, !.trail = Rules!Flat,
                                  !.step = -1, !.booked = 0, !.legs = legs]
  BY DEF Rules!NewDay, IsMem, MemFields
<1> HIDE DEF legs
<1> QED
  BY <1>1, <1>2 DEF Keeps, IsMem, MemFields, Locked, After, Rules!Flat, Trail

LEMMA ReadKeeps ==
  ASSUME conf \in Rulebook, NEW m, IsMem(m), Locked(m), NEW g \in [Rules!Active(m) -> conf.gains], NEW s
  PROVE  Keeps(Rules!Read(m, g), m, s)
<1> DEFINE legs == [t \in RuleTags |-> IF t \in Rules!Active(m) THEN [m.legs[t] EXCEPT !.gain = g[t]] ELSE m.legs[t]]
<1>1. legs \in [RuleTags -> LegRecord]
  <2>1. \A t \in Rules!Active(m) : g[t] \in Int
    BY RulesAssumption
  <2> QED
    BY <2>1 DEF IsMem, LegRecord
<1>2. Rules!Read(m, g) = [m EXCEPT !.legs = legs]
  BY DEF Rules!Read, IsMem, MemFields
<1> HIDE DEF legs
<1> QED
  BY <1>1, <1>2, SetLegs, SameFollows, FollowsKeeps

LEMMA SameHeld ==
  ASSUME NEW m, IsMem(m)
  PROVE  Rules!Active(Rules!NewDay(m)) = Rules!Active(m)
  BY DEF Rules!Active, Rules!NewDay, IsMem, MemFields, Rules!NoLeg

-----------------------------------------------------------------------------
(* The strengthening of LockedInIsKept and CrossingsActedOnOnce: both      *)
(* memories are as they should be, and a crossing that could be acted on   *)
(* again is one that a crash, not counted so far, has made possible.       *)
Stale(m) == m.prev["spot_price"] \in Int /\ m.prev["spot_price"] <= conf.mark /\ ~low
Again(m) == IF Stale(m) THEN 1 ELSE 0
Kept == IF pc = "off" THEN rfile ELSE rmem

RulesInv ==
  /\ conf \in Rulebook /\ repeats \in Nat /\ crashes \in Nat /\ low \in BOOLEAN
  /\ IsMem(rmem) /\ Locked(rmem) /\ IsMem(rfile) /\ Locked(rfile)
  /\ repeats + Again(Kept) <= crashes

(* What a tick makes of the memory, and whether it acts on a crossing.     *)
Goes(n, acts, s) ==
  /\ Keeps(n, rmem, s) /\ acts \in BOOLEAN
  /\ acts => Crosses(n.prev, rmem.prev, s)

LEMMA Counting ==
  ASSUME RulesInv, pc = "idle", NEW s \in Int, NEW acts, Goes(rmem', acts, s), Rules!Acted(acts, s),
         UNCHANGED <<conf, crashes>>, pc' # "off", rfile' \in {rfile, rmem'}
  PROVE  RulesInv'
<1>1. conf.mark \in Int /\ Nothing \notin Int
  BY NumbersOfConf DEF RulesInv
<1>2. low' = (~acts /\ (low \/ s <= conf.mark)) /\ repeats' = repeats + (IF acts /\ ~low THEN 1 ELSE 0)
  BY DEF Rules!Acted
<1>3. low' \in BOOLEAN /\ repeats' \in Nat
  BY <1>2 DEF RulesInv
<1>4. /\ conf' \in Rulebook /\ IsMem(rmem') /\ Locked(rmem)' /\ IsMem(rfile') /\ Locked(rfile)'
  BY DEF RulesInv, Goes, Keeps, Locked
<1> DEFINE old == rmem.prev["spot_price"]
           new == rmem'.prev["spot_price"]
<1>5. new \in {old, s} /\ old \in Int \cup {Nothing}
  BY DEF Goes, Keeps, After, RulesInv, IsMem
<1>6. Kept = rmem /\ Kept' = rmem' /\ conf' = conf /\ crashes' = crashes
  BY DEF Kept
<1>7. repeats \in Nat /\ crashes \in Nat /\ low \in BOOLEAN /\ acts \in BOOLEAN
  BY DEF RulesInv, Goes
<1>8. repeats + (IF old \in Int /\ old <= conf.mark /\ ~low THEN 1 ELSE 0) <= crashes
  BY <1>6 DEF RulesInv, Again, Stale
<1>9. acts => old # Nothing /\ old <= conf.mark /\ s > conf.mark /\ new = s
  BY DEF Goes, Crosses
<1> HIDE DEF old, new
<1>10. repeats' + (IF new \in Int /\ new <= conf.mark /\ ~low' THEN 1 ELSE 0) <= crashes
  <2>1. CASE acts
    BY <1>1, <1>2, <1>5, <1>7, <1>8, <1>9, <2>1
  <2>2. CASE ~acts
    <3>1. repeats' = repeats /\ (~low' => ~low /\ ~(s <= conf.mark))
      <4>1. ~low' => ~low /\ ~(s <= conf.mark)
        BY <1>2, <2>2, Zenon
      <4>2. repeats' = repeats
        BY <1>2, <1>7, <2>2
      <4> QED
        BY <4>1, <4>2
    <3>2. new \in Int /\ new <= conf.mark /\ ~low' => old \in Int /\ old <= conf.mark /\ ~low
      BY <1>5, <3>1
    <3> QED
      BY <1>7, <1>8, <3>1, <3>2
  <2> QED
    BY <2>1, <2>2
<1>11. repeats' + Again(Kept)' <= crashes'
  BY <1>6, <1>10 DEF Again, Stale, new
<1> QED
  BY <1>3, <1>4, <1>6, <1>7, <1>11 DEF RulesInv

(* Acting on a crossing that was seen by what the tick began with.         *)
LEMMA CrossingFromBefore ==
  ASSUME conf \in Rulebook, NEW n, NEW m, NEW s \in Int, Keeps(m, rmem, s), IsMem(rmem), Crosses(n.prev, m.prev, s)
  PROVE  Crosses(n.prev, rmem.prev, s)
<1>1. conf.mark \in Int /\ Nothing \notin Int
  BY NumbersOfConf
<1> QED
  BY <1>1 DEF Keeps, After, Crosses

LEMMA Going ==
  ASSUME conf \in Rulebook, IsMem(rmem), NEW n, NEW m, NEW s \in Int, Keeps(m, rmem, s), Keeps(n, m, s),
         NEW acts \in BOOLEAN, acts => Crosses(n.prev, m.prev, s)
  PROVE  Goes(n, acts, s)
  BY KeepsOn, CrossingFromBefore DEF Goes

(* The conditions of the entry, whether they are evaluated or not.         *)
LEMMA NotEntering ==
  ASSUME conf \in Rulebook, NEW m, IsMem(m), Locked(m), NEW s \in Int
  PROVE  Keeps(Rules!NotEntered(m, s), m, s)
<1>1. Keeps(m, m, s)
  BY DEF Keeps, After, IsMem
<1>2. Keeps(Rules!Seen(m, Rules!Evaluate(m, s, conf.entry)), m, s)
  <2>1. IsSeries(conf.entry)
    BY RulesAssumption
  <2>2. After(Rules!Evaluate(m, s, conf.entry).prev, m.prev, s)
    BY <2>1, Evaluating DEF IsMem
  <2> QED
    BY <2>2, SeenFollows, FollowsKeeps
<1> QED
  BY <1>1, <1>2 DEF Rules!NotEntered

LEMMA Ticking ==
  ASSUME RulesInv, Rules!Tick
  PROVE  RulesInv'
<1>1. PICK s \in Prices, g \in [Rules!Active(rmem) -> conf.gains] :
        \E x \in {Rules!CheckExits(Rules!Read(IF last = day THEN rmem ELSE Rules!NewDay(rmem), g), s)} :
          Rules!TickExit(x, s) \/ Rules!TickEnter(x, s) \/ Rules!TickAdjust(x, s)
            \/ Rules!TickBroken(x, s) \/ Rules!TickQuiet(x, s)
  BY DEF Rules!Tick
<1> DEFINE begun == IF last = day THEN rmem ELSE Rules!NewDay(rmem)
           read == Rules!Read(begun, g)
           x == Rules!CheckExits(read, s)
<1>2. \/ Rules!TickExit(x, s) \/ Rules!TickEnter(x, s) \/ Rules!TickAdjust(x, s)
      \/ Rules!TickBroken(x, s) \/ Rules!TickQuiet(x, s)
  BY <1>1
<1>3. pc = "idle" /\ conf' = conf /\ crashes' = crashes /\ s \in Int /\ conf \in Rulebook
  BY RulesAssumption DEF Rules!Tick, RulesInv
<1>4. IsMem(rmem) /\ Locked(rmem) /\ IsMem(rfile) /\ Locked(rfile)
  BY DEF RulesInv
<1>5. Keeps(x.mem, rmem, s) /\ (x.act = "profit_target_trail" => conf.ontarget = "profit_target_trail")
  <2>1. Keeps(begun, rmem, s)
    BY <1>4, NewDayKeeps DEF Keeps, After, IsMem
  <2>2. g \in [Rules!Active(begun) -> conf.gains]
    BY <1>4, SameHeld
  <2> HIDE DEF begun
  <2>3. Keeps(read, begun, s)
    BY <1>3, <2>1, <2>2, ReadKeeps DEF Keeps
  <2>4. Keeps(read, rmem, s)
    BY <2>1, <2>3, KeepsOn
  <2> HIDE DEF read
  <2>5. /\ Keeps(x.mem, read, s)
        /\ x.act = "profit_target_trail" => conf.ontarget = "profit_target_trail"
    BY <1>3, <2>4, Checking DEF Keeps
  <2> QED
    BY <2>4, <2>5, KeepsOn
<1> HIDE DEF x
<1> DEFINE m == x.mem
<1>6. IsMem(m) /\ Locked(m) /\ Keeps(m, m, s)
  BY <1>5 DEF Keeps, After, IsMem
<1>7. ASSUME Rules!TickExit(x, s) PROVE RulesInv'
  <2>1. rmem' = Rules!Executed(m, x.act) /\ rfile' = rmem' /\ pc' = pc /\ Rules!Acted(FALSE, s)
    BY <1>7 DEF Rules!TickExit, Rules!NotActed
  <2>2. Keeps(rmem', m, s)
    BY <1>3, <1>5, <1>6, <2>1, Executing
  <2>3. Goes(rmem', FALSE, s)
    BY <1>3, <1>4, <1>5, <2>2, Going
  <2> QED
    BY <1>3, <2>1, <2>3, Counting
<1>8. ASSUME Rules!TickEnter(x, s) PROVE RulesInv'
  <2> DEFINE e == Rules!Evaluate(m, s, conf.entry)
             n == Rules!Seen(m, e)
             acts == Rules!Upward(conf.entry)
  <2>1. IsSeries(conf.entry) /\ RequiresMark(conf, conf.entry) /\ conf.ref \in RuleTags
    BY <1>3, RulesAssumption, MarksAssumption
  <2>2. After(e.prev, m.prev, s) /\ (e.holds /\ acts => Crosses(e.prev, m.prev, s))
    BY <1>3, <1>6, <2>1, Evaluating DEF IsMem
  <2>3. /\ e.holds /\ Rules!Acted(acts, s) /\ rfile' = rfile /\ pc' \in {"sent", pc}
        /\ rmem' \in {[Rules!Entered(n, s) EXCEPT !.entered = TRUE], [n EXCEPT !.legs[conf.ref] = Rules!NoLeg]}
    BY <1>8 DEF Rules!TickEnter, Rules!Enters
  <2> HIDE DEF e, acts
  <2>4. Keeps(n, m, s) /\ n.prev = e.prev
    BY <1>3, <1>6, <2>2, SeenFollows, FollowsKeeps
  <2> HIDE DEF n
  <2>5. Rules!NoLeg \in LegRecord /\ [st |-> "pending", lots |-> 2, gain |-> 0, strike |-> s] \in LegRecord
    BY <1>3 DEF LegRecord, Rules!NoLeg
  <2>6. SameStop(Rules!Entered(n, s), n) /\ SameStop([n EXCEPT !.legs[conf.ref] = Rules!NoLeg], n)
    BY <2>4, <2>5, SetLeg DEF Rules!Entered, Keeps
  <2>7. SameStop([Rules!Entered(n, s) EXCEPT !.entered = TRUE], n)
    BY <2>6 DEF SameStop, IsMem, MemFields
  <2>8. SameStop(rmem', n)
    BY <2>3, <2>6, <2>7
  <2>9. Keeps(rmem', m, s) /\ rmem'.prev = e.prev
    BY <2>4, <2>8, SameFollows, FollowsKeeps, KeepsOn DEF Keeps, SameStop
  <2>10. acts \in BOOLEAN
    BY DEF acts, Rules!Upward
  <2>11. Goes(rmem', acts, s)
    BY <1>3, <1>4, <1>5, <2>2, <2>3, <2>9, <2>10, Going
  <2> QED
    BY <1>3, <2>3, <2>11, Counting
<1>9. ASSUME Rules!TickAdjust(x, s) PROVE RulesInv'
  <2> DEFINE n == Rules!NotEntered(m, s)
             a == Rules!Applied(n, s)
             acts == \E i \in a.fired : Rules!Upward(conf.rules[i].conds)
  <2>1. /\ Rules!Acted(acts, s) /\ rfile' = rfile /\ pc' \in {"sent", pc}
        /\ rmem' \in {a.mem, Rules!Restored(n, a.mem)}
    BY <1>9 DEF Rules!TickAdjust
  <2>2. Keeps(n, m, s)
    BY <1>3, <1>6, NotEntering
  <2> HIDE DEF n
  <2>3. Follows(a.mem, n, s) /\ (acts => Crosses(a.mem.prev, n.prev, s))
    BY <1>3, <2>2, Adjusting DEF Keeps
  <2>4. acts \in BOOLEAN
    OBVIOUS
  <2> HIDE DEF a, acts
  <2>5. SameStop(Rules!Restored(n, a.mem), a.mem)
    BY <2>2, <2>3 DEF SameStop, Rules!Restored, Follows, Keeps, IsMem, MemFields
  <2>6. SameStop(a.mem, a.mem)
    BY <2>3 DEF SameStop, Follows
  <2>7. SameStop(rmem', a.mem)
    BY <2>1, <2>5, <2>6
  <2>8. Follows(rmem', n, s) /\ rmem'.prev = a.mem.prev
    BY <2>3, <2>7, SameFollows, FollowsOn DEF Follows, SameStop
  <2>9. Keeps(rmem', n, s)
    BY <2>2, <2>8, FollowsKeeps DEF Keeps
  <2>10. Keeps(n, rmem, s)
    BY <1>5, <2>2, KeepsOn
  <2>11. Goes(rmem', acts, s)
    BY <1>3, <1>4, <2>3, <2>4, <2>8, <2>9, <2>10, Going
  <2> QED
    BY <1>3, <2>1, <2>11, Counting
<1>10. ASSUME Rules!TickBroken(x, s) PROVE RulesInv'
  <2> DEFINE r == conf.rules[1]
             e == Rules!Evaluate(m, s, r.conds)
             t == Rules!CloseTag(m, r.action.leg)
             n == Rules!Seen(m, e)
             acts == Rules!Upward(r.conds)
  <2>1. /\ e.holds /\ t # Nothing /\ conf.rules # <<>> /\ Rules!Acted(acts, s) /\ rfile' = rfile /\ pc' = pc
        /\ rmem' = [Rules!Shut(n, t) EXCEPT !.booked = @ + Rules!ProfitOf(m, t)]
    BY <1>10 DEF Rules!TickBroken
  <2>2. 1 \in DOMAIN conf.rules
    BY <1>3, <2>1, RulesAssumption DEF IsSeries
  <2>3. IsSeries(r.conds) /\ RequiresMark(conf, r.conds)
    BY <1>3, <2>2, RulesAssumption, MarksAssumption
  <2>4. acts \in BOOLEAN
    BY DEF Rules!Upward
  <2>5. t \in RuleTags
    BY <1>6, <2>1, CloseTagIsOne
  <2> HIDE DEF r, t
  <2>6. After(e.prev, m.prev, s) /\ (e.holds /\ acts => Crosses(e.prev, m.prev, s))
    BY <1>3, <1>6, <2>3, Evaluating DEF IsMem
  <2> HIDE DEF e, acts
  <2>7. Follows(n, m, s) /\ n.prev = e.prev
    BY <1>3, <1>6, <2>6, SeenFollows
  <2> HIDE DEF n
  <2>8. SameStop(rmem', n)
    BY <2>1, <2>5, <2>7, ShutKeeps, Booking DEF Follows
  <2>9. Follows(rmem', m, s) /\ rmem'.prev = e.prev
    BY <2>7, <2>8, SameFollows, FollowsOn DEF Follows, SameStop
  <2>10. Keeps(rmem', m, s)
    BY <1>6, <2>9, FollowsKeeps
  <2>11. Goes(rmem', acts, s)
    BY <1>3, <1>4, <1>5, <2>1, <2>4, <2>6, <2>9, <2>10, Going
  <2> QED
    BY <1>3, <2>1, <2>11, Counting
<1>11. ASSUME Rules!TickQuiet(x, s) PROVE RulesInv'
  <2> DEFINE n == Rules!NotEntered(m, s)
             a == Rules!Applied(n, s)
  <2>1. /\ Rules!Acted(FALSE, s) /\ pc' = pc /\ rfile' \in {rfile, rmem'} /\ rmem' \in {a.mem, n}
    BY <1>11 DEF Rules!TickQuiet, Rules!NotActed
  <2>2. Keeps(n, m, s)
    BY <1>3, <1>6, NotEntering
  <2> HIDE DEF n
  <2>3. Follows(a.mem, n, s)
    BY <1>3, <2>2, Adjusting DEF Keeps
  <2> HIDE DEF a
  <2>4. Keeps(a.mem, m, s)
    BY <2>2, <2>3, FollowsKeeps, KeepsOn DEF Keeps
  <2>5. Keeps(rmem', m, s)
    BY <2>1, <2>2, <2>4
  <2>6. Goes(rmem', FALSE, s)
    BY <1>3, <1>4, <1>5, <2>5, Going
  <2> QED
    BY <1>3, <2>1, <2>6, Counting
<1> QED
  BY <1>2, <1>7, <1>8, <1>9, <1>10, <1>11

LEMMA NewStart == conf \in Rulebook => IsMem(Rules!Blank) /\ Locked(Rules!Blank)
                                       /\ Rules!Blank.prev["spot_price"] = Nothing
  BY DEF IsMem, Locked, MemFields, LegRecord, Trail, Rules!Blank, Rules!NoLeg, Rules!Flat, Rules!Params

LEMMA RulesInit == ASSUME Rules!Init PROVE RulesInv
<1>1. /\ conf \in Rulebook /\ rmem = Rules!Blank /\ rfile = Rules!Blank /\ low = FALSE
      /\ repeats = 0 /\ crashes = 0
  BY DEF Rules!Init
<1>2. Again(Kept) = 0
  BY <1>1, NewStart, NumbersOfConf DEF Kept, Again, Stale
<1>3. IsMem(rmem) /\ Locked(rmem) /\ IsMem(rfile) /\ Locked(rfile)
  BY <1>1, NewStart
<1>4. low \in BOOLEAN /\ repeats \in Nat /\ crashes \in Nat
  BY <1>1
<1>5. repeats + Again(Kept) <= crashes
  BY <1>1, <1>2
<1> QED
  BY <1>1, <1>3, <1>4, <1>5 DEF RulesInv

LEMMA Settling ==
  ASSUME NEW m, IsMem(m), NEW t \in RuleTags, NEW st \in {"active", "failed"}
  PROVE  SameStop([m EXCEPT !.legs[t].st = st], m)
<1> DEFINE leg == [m.legs[t] EXCEPT !.st = st]
<1>1. leg \in LegRecord
  BY DEF IsMem, LegRecord
<1>2. [m EXCEPT !.legs[t].st = st] = [m EXCEPT !.legs[t] = leg]
  BY DEF IsMem, MemFields
<1> HIDE DEF leg
<1> QED
  BY <1>1, <1>2, SetLeg

LEMMA RulesStep ==
  ASSUME RulesInv, Rules!Next
  PROVE  RulesInv'
<1>1. ASSUME Rules!Tick PROVE RulesInv'
  BY <1>1, Ticking
<1>2. ASSUME Rules!Save PROVE RulesInv'
  BY <1>2 DEF Rules!Save, RulesInv, Kept, Again, Stale, Locked
<1>3. ASSUME NEW t \in RuleTags, NEW st \in {"active", "failed"}, Rules!Settle(t, st) PROVE RulesInv'
  <2>1. SameStop(rmem', rmem)
    BY <1>3, Settling DEF Rules!Settle, RulesInv
  <2> QED
    BY <1>3, <2>1 DEF Rules!Settle, RulesInv, SameStop, Kept, Again, Stale, Locked
<1>4. ASSUME Rules!Complete PROVE RulesInv'
  BY <1>4 DEF Rules!Complete, RulesInv, Kept, Again, Stale, Locked
<1>5. ASSUME Rules!NextDay PROVE RulesInv'
  BY <1>5 DEF Rules!NextDay, RulesInv, Kept, Again, Stale, Locked
<1>6. ASSUME Rules!Crash PROVE RulesInv'
  <2>1. repeats <= crashes /\ crashes' = crashes + 1 /\ crashes \in Nat /\ repeats \in Nat
    BY <1>6 DEF Rules!Crash, RulesInv, Again
  <2>2. Again(Kept)' \in {0, 1}
    BY DEF Again
  <2>3. repeats' + Again(Kept)' <= crashes'
    BY <1>6, <2>1, <2>2 DEF Rules!Crash
  <2> QED
    BY <1>6, <2>3 DEF Rules!Crash, RulesInv, Locked
<1>7. ASSUME Rules!Restart PROVE RulesInv'
  <2>1. /\ pc = "off" /\ pc' = "idle" /\ rfile' = rmem' /\ rmem' \in {rfile, Rules!Blank}
        /\ UNCHANGED <<conf, low, repeats, crashes>>
    BY <1>7 DEF Rules!Restart
  <2>2. CASE rmem' = rfile
    BY <2>1, <2>2 DEF RulesInv, Kept, Again, Stale, Locked
  <2>3. CASE rmem' = Rules!Blank
    <3>1. Again(Kept)' = 0
      BY <2>1, <2>3, NewStart, NumbersOfConf DEF RulesInv, Kept, Again, Stale
    <3>2. repeats <= crashes
      BY DEF RulesInv, Again
    <3>3. IsMem(rmem') /\ Locked(rmem)'
      BY <2>1, <2>3, NewStart DEF RulesInv, Locked
    <3> QED
      BY <2>1, <3>1, <3>2, <3>3 DEF RulesInv, Locked
  <2> QED
    BY <2>1, <2>2, <2>3
<1> QED
  BY <1>1, <1>2, <1>3, <1>4, <1>5, <1>6, <1>7 DEF Rules!Next

LEMMA RulesInvIsInvariant == MSpec => []RulesInv
<1>1. MInit => RulesInv
  BY RulesInit DEF MInit
<1>2. RulesInv /\ [MNext]_<<part, vars, ruleVars>> => RulesInv'
  <2> SUFFICES ASSUME RulesInv, [MNext]_<<part, vars, ruleVars>> PROVE RulesInv'
    OBVIOUS
  <2>1. CASE Rules!Next
    BY <2>1, RulesStep
  <2>2. CASE UNCHANGED ruleVars
    BY <2>2 DEF ruleVars, RulesInv, Kept, Again, Stale, Locked
  <2> QED
    BY <2>1, <2>2 DEF MNext
<1> QED
  BY <1>1, <1>2, PTL DEF MSpec

(* LockedInIsKept: a trailing stop that a profit has set is never lower    *)
(* than where it was set: not by peak or step, a partial exit, a new leg,  *)
(* a new day or a restart from the saved state.  It says nothing of        *)
(* configurations whose profit target moves the stop, and of those with a  *)
(* step and the trail in percent.                                          *)
THEOREM LockedInStaysLocked == MSpec => []LockedInIsKept
<1>1. RulesInv => LockedInIsKept
  BY DEF RulesInv, Locked, LockedInIsKept, Rules!LockedInIsKept
<1> QED
  BY <1>1, RulesInvIsInvariant, PTL

(* CrossingsActedOnOnce: an entry or an adjustment that waits for the spot *)
(* to cross its mark acts once on a crossing, whichever rules and exits    *)
(* look at the spot before it; a crash makes up for one repetition.        *)
THEOREM CrossingsAreActedOnOnce == MSpec => []CrossingsActedOnOnce
<1>1. RulesInv => CrossingsActedOnOnce
  BY DEF RulesInv, Again, CrossingsActedOnOnce, Rules!CrossingsActedOnOnce
<1> QED
  BY <1>1, RulesInvIsInvariant, PTL
=============================================================================
