------------------------- MODULE PositionExitsProofs -------------------------
(* Proofs about PositionExits: the shape of the tables; how many orders a  *)
(* managed exit makes; that the stop is the one in the database, and that  *)
(* it ratchets, but for edits during a pass; and what one source of exits  *)
(* alone can sell.                                                         *)
EXTENDS PositionExits, FiniteSetTheorems, TLAPS

-----------------------------------------------------------------------------
(* Shapes. *)
Levels == Prices \union {NoPrice}

Records == [status : {"NONE", "CREATED"} \union Ends, stop : Int, base : Int, anchor : Levels]

Copies == States \union {Untracked}

Orders == [status : {"CREATED", "SENT", "LOST", "ENDED", "DONE"}, of : Sources, qty : Int \ {0}, strays : Nat]

Passes == [at : {"idle", "look", "hit", "placing", "placed", "failed"}, net : Int, ltp : Levels,
           left : SUBSET Managed, keep : SUBSET Managed, drop : SUBSET Managed,
           cur : Managed \union {"none"}, exit : ExitIds \union {0}, blind : BOOLEAN]

Requests == [at : {"idle", "read", "checked", "done"}, net : Int]

Triggering == pass.at \in {"hit", "placing", "placed", "failed"}

(* The managed exits of a pass are each in one of three sets at most.      *)
Sorted ==
  /\ pass.left \intersect pass.keep = {} /\ pass.left \intersect pass.drop = {}
  /\ pass.keep \intersect pass.drop = {}
  /\ Triggering => pass.cur \in pass.left /\ pass.net # 0

(* The order being placed is there. *)
Placing == pass.at = "placing" => pass.exit \in ExitIds /\ exits[pass.exit] \in Orders

FewFailures == \A m \in Managed : table[m].failures < MaxFailures /\ local[m].failures < MaxFailures

Shape ==
  /\ net \in Int /\ ltp \in Prices
  /\ record \in [Managed -> Records]
  /\ exits \in [ExitIds -> Orders \union {NoExit}]
  /\ table \in [Managed -> Copies] /\ local \in [Managed -> Copies]
  /\ pass \in Passes
  /\ request \in [Requesters -> Requests]

TypeInv ==
  /\ Shape /\ Sorted /\ Placing /\ FewFailures
  /\ \A m \in pass.left : local[m] \in States
  /\ \A r \in Requesters : request[r].at \in {"read", "checked"} => request[r].net # 0

-----------------------------------------------------------------------------
(* A record that ends. *)
Closes(m) == \E e \in Ends : record' = [record EXCEPT ![m].status = e]

LEMMA Closing ==
  ASSUME record \in [Managed -> Records], NEW m \in Managed, Closes(m)
  PROVE  /\ record' \in [Managed -> Records]
         /\ record'[m].status \in Ends
         /\ record'[m].stop = record[m].stop /\ record'[m].base = record[m].base
         /\ \A n \in Managed \ {m} : record'[n] = record[n]
<1>1. PICK e \in Ends : record' = [record EXCEPT ![m].status = e]
  BY DEF Closes
<1>2. record[m] \in Records /\ record'[m] = [record[m] EXCEPT !.status = e]
  BY <1>1
<1>3. /\ record'[m] \in Records /\ record'[m].status = e
      /\ record'[m].stop = record[m].stop /\ record'[m].base = record[m].base
  BY <1>2 DEF Records
<1> QED
  BY <1>1, <1>3

(* An order the broker, the watcher or execute_command moves on: its       *)
(* source and quantity stay, and other orders are left alone.              *)
Touched(x) ==
  /\ exits[x] \in Orders /\ exits'[x] \in Orders
  /\ exits'[x].of = exits[x].of /\ exits'[x].qty = exits[x].qty
  /\ exits' \in [ExitIds -> Orders \union {NoExit}]
  /\ \A y \in ExitIds \ {x} : exits'[y] = exits[y]

Placed(x) == Accepted(x) \/ Refused(x) \/ SessionLost(x)

Broker(x) == Fill(x) \/ Reject(x) \/ FillStray(x) \/ RejectStray(x) \/ Reconcile(x) \/ Dispatch(x)

LEMMA SentOrder ==
  ASSUME Shape, NEW x \in ExitIds, exits[x] \in Orders,
         NEW b \in 0 .. MaxAttempts, NEW t \in {"CREATED", "SENT", "LOST", "DONE"}, Sent(x, b, t)
  PROVE  Touched(x) /\ exits'[x].status = t /\ exits'[x].strays = exits[x].strays + b
<1>1. exits \in [ExitIds -> Orders \union {NoExit}]
  BY DEF Shape
<1>2. exits'[x] = [exits[x] EXCEPT !.status = t, !.strays = exits[x].strays + b]
      /\ \A y \in ExitIds \ {x} : exits'[y] = exits[y]
  BY <1>1 DEF Sent
<1>3. exits[x].strays + b \in Nat
  BY ExitAssumption DEF Orders
<1>4. /\ exits'[x] \in Orders /\ exits'[x].of = exits[x].of /\ exits'[x].qty = exits[x].qty
      /\ exits'[x].status = t /\ exits'[x].strays = exits[x].strays + b
  BY <1>2, <1>3 DEF Orders
<1>5. exits' \in [ExitIds -> Orders \union {NoExit}]
  <2>1. exits' = [exits EXCEPT ![x] = exits'[x]]
    BY <1>1, <1>2 DEF Sent
  <2> QED
    BY <1>1, <1>4, <2>1
<1> QED
  BY <1>2, <1>4, <1>5 DEF Touched

LEMMA PlacedOrder ==
  ASSUME Shape, NEW x \in ExitIds, exits[x] \in Orders, Placed(x)
  PROVE  Touched(x) /\ exits'[x].status \in {"CREATED", "SENT", "LOST", "DONE"}
<1>1. PICK b \in 0 .. MaxAttempts, t \in {"CREATED", "SENT", "LOST", "DONE"} : Sent(x, b, t)
  BY ExitAssumption DEF Placed, Accepted, Refused, SessionLost, Unheard
<1> QED
  BY <1>1, SentOrder

LEMMA BrokerOrder ==
  ASSUME Shape, NEW x \in ExitIds, Broker(x)
  PROVE  Touched(x)
<1>1. exits \in [ExitIds -> Orders \union {NoExit}]
  BY DEF Shape
<1>2. exits[x] \in Orders
  BY <1>1 DEF Broker, Fill, Reject, FillStray, RejectStray, Reconcile, Dispatch, NoExit
<1>3. CASE Dispatch(x)
  BY <1>2, <1>3, PlacedOrder DEF Dispatch, Placed
<1>4. CASE Fill(x) \/ Reject(x) \/ Reconcile(x)
  <2>1. PICK t \in {"ENDED", "DONE"} : exits' = [exits EXCEPT ![x].status = t]
    BY <1>4 DEF Fill, Reject, Reconcile
  <2>2. exits'[x] = [exits[x] EXCEPT !.status = t] /\ \A y \in ExitIds \ {x} : exits'[y] = exits[y]
    BY <1>1, <2>1
  <2>3. exits'[x] \in Orders /\ exits'[x].of = exits[x].of /\ exits'[x].qty = exits[x].qty
    BY <1>2, <2>2 DEF Orders
  <2> QED
    BY <1>1, <1>2, <2>1, <2>2, <2>3 DEF Touched
<1>5. CASE FillStray(x) \/ RejectStray(x)
  <2>1. exits' = [exits EXCEPT ![x].strays = exits[x].strays - 1] /\ exits[x].strays > 0
    BY <1>1, <1>5 DEF FillStray, RejectStray
  <2>2. exits'[x] = [exits[x] EXCEPT !.strays = exits[x].strays - 1]
        /\ \A y \in ExitIds \ {x} : exits'[y] = exits[y]
    BY <1>1, <2>1
  <2>3. exits[x].strays - 1 \in Nat
    BY <1>2, <2>1 DEF Orders
  <2>4. exits'[x] \in Orders /\ exits'[x].of = exits[x].of /\ exits'[x].qty = exits[x].qty
    BY <1>2, <2>2, <2>3 DEF Orders
  <2> QED
    BY <1>1, <1>2, <2>1, <2>2, <2>4 DEF Touched
<1> QED
  BY <1>3, <1>4, <1>5 DEF Broker

-----------------------------------------------------------------------------
(* The trailed stop is a stop, and while the position is long it is not    *)
(* below the one it replaces.                                              *)
LEMMA TrailedStop ==
  ASSUME NEW state \in States, pass \in Passes
  PROVE  /\ AnchorOf(state) \in Levels
         /\ Trailed(state) \in Int
         /\ Long => Trailed(state) >= state.stop
<1>1. Levels \subseteq Int /\ pass.ltp \in Int /\ pass.ltp \in Levels
  <2>1. Levels \subseteq Int
    BY ExitAssumption DEF Levels, NoPrice
  <2>2. pass.ltp \in Levels
    BY DEF Passes
  <2> QED
    BY <2>1, <2>2
<1>2. state.stop \in Int /\ state.base \in Int /\ state.anchor \in Levels
  BY DEF States, Levels
<1>3. AnchorOf(state) \in Levels /\ AnchorOf(state) \in Int
  BY <1>1, <1>2 DEF AnchorOf
<1>4. Favourable(state) \in Nat
  BY <1>1, <1>3 DEF Favourable
<1>5. Favourable(state) \div Trigger \in Int
  BY <1>4, ExitAssumption
<1>6. Stepped(state) \in Int
  <2>1. (Favourable(state) \div Trigger) * Step \in Int
    BY <1>5, ExitAssumption
  <2> QED
    BY <2>1, <1>2 DEF Stepped
<1> QED
  BY <1>2, <1>3, <1>6 DEF Trailed, Tighter

LEMMA InitTypeInv == Init => TypeInv
<1> SUFFICES ASSUME Init PROVE TypeInv
  OBVIOUS
<1>1. NoRecord \in Records /\ Untracked \in Copies /\ NoPass \in Passes
  BY DEF NoRecord, Records, Copies, NoPass, Passes, Levels
<1>2. Shape
  BY <1>1, ExitAssumption DEF Init, Shape, NoCopies, Requests
<1>3. Sorted /\ Placing
  BY DEF Init, Sorted, Placing, Triggering, NoPass
<1>4. FewFailures
  BY ExitAssumption DEF Init, FewFailures, NoCopies, Untracked
<1> QED
  BY <1>2, <1>3, <1>4 DEF TypeInv, Init, NoPass

-----------------------------------------------------------------------------
(* What moves one managed exit from left to keep, or to drop, keeps Sorted. *)
LEMMA DoneFields ==
  ASSUME pass \in Passes, NEW m
  PROVE  /\ Done(m) \in Passes /\ Done(m).at = "look" /\ Done(m).left = pass.left \ {m}
         /\ Done(m).net = pass.net /\ Done(m).keep = pass.keep /\ Done(m).drop = pass.drop
<1> DEFINE q == [pass EXCEPT !.at = "look", !.left = pass.left \ {m}, !.cur = "none", !.exit = 0]
<1>1. pass.left \ {m} \in SUBSET Managed
  BY DEF Passes
<1>2. q \in Passes
  BY <1>1 DEF Passes
<1>3. /\ q.at = "look" /\ q.left = pass.left \ {m} /\ q.net = pass.net
      /\ q.keep = pass.keep /\ q.drop = pass.drop
  BY DEF Passes
<1>4. Done(m) = q
  BY DEF Done
<1> QED
  BY <1>2, <1>3, <1>4

LEMMA Moves ==
  ASSUME TypeInv, NEW m \in pass.left, pass' \in {Done(m), Kept(m), Dropped(m)}
  PROVE  /\ pass' \in Passes /\ Sorted' /\ Placing' /\ pass'.left \subseteq pass.left
         /\ pass'.net = pass.net
<1>1. pass \in Passes /\ Sorted /\ m \in Managed
  BY DEF TypeInv, Shape, Passes
<1> DEFINE d == Done(m)
<1>2. /\ d \in Passes /\ d.at = "look" /\ d.left = pass.left \ {m}
      /\ d.net = pass.net /\ d.keep = pass.keep /\ d.drop = pass.drop
  BY <1>1, DoneFields
<1> HIDE DEF d
<1>3. d.keep \union {m} \in SUBSET Managed /\ d.drop \union {m} \in SUBSET Managed
  BY <1>1, <1>2 DEF Passes
<1> DEFINE kept == [d EXCEPT !.keep = d.keep \union {m}]
           dropped == [d EXCEPT !.drop = d.drop \union {m}]
<1>4. /\ kept \in Passes /\ kept.at = "look" /\ kept.left = d.left /\ kept.net = d.net
      /\ kept.keep = d.keep \union {m} /\ kept.drop = d.drop
  BY <1>2, <1>3 DEF Passes
<1>5. /\ dropped \in Passes /\ dropped.at = "look" /\ dropped.left = d.left /\ dropped.net = d.net
      /\ dropped.keep = d.keep /\ dropped.drop = d.drop \union {m}
  BY <1>2, <1>3 DEF Passes
<1>6. Kept(m) = kept /\ Dropped(m) = dropped
  BY DEF Kept, Dropped, d
<1> HIDE DEF kept, dropped
<1>7. pass' = d \/ pass' = kept \/ pass' = dropped
  BY <1>6 DEF d
<1>8. pass' \in Passes /\ pass'.at = "look" /\ pass'.left = pass.left \ {m} /\ pass'.net = pass.net
  BY <1>2, <1>4, <1>5, <1>7
<1>9. \/ pass'.keep = pass.keep /\ pass'.drop = pass.drop
      \/ pass'.keep = pass.keep \union {m} /\ pass'.drop = pass.drop
      \/ pass'.keep = pass.keep /\ pass'.drop = pass.drop \union {m}
  BY <1>2, <1>4, <1>5, <1>7
<1>10. Sorted'
  BY <1>1, <1>8, <1>9 DEF Sorted, Triggering
<1>11. Placing'
  BY <1>8 DEF Placing
<1> QED
  BY <1>8, <1>10, <1>11

(* The market, the broker and the callers of exit_positions. *)
LEMMA MarketTypeInv ==
  ASSUME TypeInv,
         \/ PriceMoves \/ SquaredOff
         \/ \E x \in ExitIds : Broker(x)
         \/ \E r \in Requesters : ReadPositions(r) \/ CheckRecent(r) \/ RegisterExit(r)
  PROVE  TypeInv'
<1> USE DEF TypeInv
<1>0. Shape /\ Sorted /\ Placing /\ FewFailures
  OBVIOUS
<1>1. CASE PriceMoves \/ SquaredOff
  BY <1>1, ExitAssumption DEF PriceMoves, SquaredOff, Shape, Sorted, Placing, FewFailures, Triggering, monitor
<1>2. ASSUME NEW x \in ExitIds, Broker(x) PROVE TypeInv'
  <2>1. Touched(x)
    BY <1>0, <1>2, BrokerOrder
  <2>2. net' \in Int
    <3>1. exits[x].qty \in Int /\ net \in Int
      BY <1>0, <2>1 DEF Touched, Orders, Shape
    <3> QED
      BY <1>2, <3>1 DEF Broker, Fill, Reject, FillStray, RejectStray, Reconcile, Dispatch, market
  <2>3. \A y \in ExitIds : exits[y] \in Orders => exits'[y] \in Orders
    BY <2>1 DEF Touched
  <2>4. UNCHANGED <<ltp, record, table, local, pass, request>>
    BY <1>2 DEF Broker, Fill, Reject, FillStray, RejectStray, Reconcile, Dispatch, market, monitor
  <2> QED
    BY <1>0, <2>1, <2>2, <2>3, <2>4 DEF Touched, Shape, Sorted, Placing, FewFailures, Triggering
<1>3. ASSUME NEW r \in Requesters, ReadPositions(r) \/ CheckRecent(r) \/ RegisterExit(r) PROVE TypeInv'
  <2>1. request \in [Requesters -> Requests] /\ net \in Int
    BY <1>0 DEF Shape
  <2>2. request' \in [Requesters -> Requests]
    BY <1>3, <2>1 DEF ReadPositions, CheckRecent, RegisterExit, Answered, Requests
  <2>3. \A q \in Requesters : request'[q].at \in {"read", "checked"} => request'[q].net # 0
    BY <1>3, <2>1 DEF ReadPositions, CheckRecent, RegisterExit, Answered, Requests
  <2>4. UNCHANGED <<net, ltp, record, table, local, pass>>
    BY <1>3 DEF ReadPositions, CheckRecent, RegisterExit, CreateExit, market, monitor
  <2>5. /\ exits' \in [ExitIds -> Orders \union {NoExit}]
        /\ \A y \in ExitIds : exits[y] \in Orders => exits'[y] \in Orders
    <3>1. CASE ReadPositions(r) \/ CheckRecent(r)
      BY <1>0, <3>1 DEF ReadPositions, CheckRecent, Shape
    <3>2. CASE RegisterExit(r)
      <4>1. request[r].net \in Int \ {0} /\ r \in Sources
        BY <1>0, <2>1, <3>2 DEF RegisterExit, Requests, Sources
      <4>2. [status |-> "CREATED", of |-> r, qty |-> request[r].net, strays |-> 0] \in Orders
        BY <4>1 DEF Orders
      <4> QED
        BY <1>0, <3>2, <4>2 DEF RegisterExit, CreateExit, Shape
    <3> QED
      BY <1>3, <3>1, <3>2
  <2> QED
    BY <1>0, <2>2, <2>3, <2>4, <2>5 DEF Shape, Sorted, Placing, FewFailures, Triggering
<1> QED
  BY <1>1, <1>2, <1>3
(* The dashboard, and the watcher between two passes. *)
LEMMA TableTypeInv ==
  ASSUME TypeInv,
         \/ \E m \in Managed : Register(m) \/ BackoffEnds(m) \/ Remove(m) \/ Withdraw(m)
         \/ \E m \in Managed : \E s \in Stops : Create(m, s) \/ Enable(m, s) \/ Update(m, s)
         \/ Crash
  PROVE  TypeInv'
<1>1. Shape /\ Sorted /\ Placing /\ FewFailures
  BY DEF TypeInv
<1>2. /\ table \in [Managed -> Copies] /\ record \in [Managed -> Records]
      /\ ltp \in Levels /\ Stops \subseteq Int
      /\ MaxFailures \in Nat /\ 0 < MaxFailures
  BY <1>1, ExitAssumption DEF Shape, Levels
<1>3. \A m \in Managed : record[m] \in Records /\ (Tracked(m) => table[m] \in States)
  BY <1>2 DEF Copies, Tracked
<1>4. \A m \in Managed, c \in States :
        c.failures < MaxFailures /\ table' = [table EXCEPT ![m] = c] =>
          table' \in [Managed -> Copies] /\ \A n \in Managed : table'[n].failures < MaxFailures
  BY <1>1, <1>2 DEF Copies, FewFailures
<1>5. \A m \in Managed, r \in Records : [record EXCEPT ![m] = r] \in [Managed -> Records]
  BY <1>2
<1> DEFINE Rest == UNCHANGED <<net, ltp, exits, local, pass, request>>
<1>6. ASSUME table' \in [Managed -> Copies], \A n \in Managed : table'[n].failures < MaxFailures,
             record' \in [Managed -> Records], Rest
      PROVE  TypeInv'
  BY <1>1, <1>6 DEF TypeInv, Shape, Sorted, Placing, FewFailures, Triggering
<1>7. ASSUME NEW m \in Managed, NEW r \in Records, Registered(m, r), Rest PROVE TypeInv'
  <2>1. r.stop \in Int /\ r.base \in Int /\ r.anchor \in Levels
    BY DEF Records
  <2>2. PICK a \in Anchors(r) :
          /\ table' = [table EXCEPT ![m] = [stop |-> r.stop, base |-> r.base, anchor |-> a,
                                            failures |-> 0, waiting |-> FALSE]]
          /\ record' = [record EXCEPT ![m] = [r EXCEPT !.anchor = a]]
    BY <1>7 DEF Registered
  <2>3. a \in Levels
    BY <1>2, <2>1 DEF Anchors, Levels
  <2>4. [r EXCEPT !.anchor = a] \in Records
    BY <2>3 DEF Records
  <2> DEFINE c == [stop |-> r.stop, base |-> r.base, anchor |-> a, failures |-> 0, waiting |-> FALSE]
  <2>5. c \in States /\ c.failures < MaxFailures
    BY <1>2, <2>1, <2>3 DEF States, Levels
  <2> QED
    BY <1>4, <1>5, <1>6, <1>7, <2>2, <2>4, <2>5
<1>8. \A s \in Stops : NewRecord(s) \in Records
  BY <1>2 DEF NewRecord, Records, Levels
<1>9. ASSUME NEW m \in Managed, Register(m) PROVE TypeInv'
  BY <1>3, <1>7, <1>9 DEF Register, market, monitor
<1>10. ASSUME NEW m \in Managed, NEW s \in Stops, Enable(m, s) PROVE TypeInv'
  BY <1>7, <1>8, <1>10 DEF Enable, market, monitor
<1>11. ASSUME NEW m \in Managed, NEW s \in Stops, Create(m, s) PROVE TypeInv'
  BY <1>1, <1>2, <1>5, <1>6, <1>8, <1>11 DEF Create, market, monitor, FewFailures
<1>12. ASSUME NEW m \in Managed, BackoffEnds(m) PROVE TypeInv'
  <2>1. table[m] \in States /\ table[m].failures < MaxFailures
    BY <1>1, <1>2, <1>12 DEF BackoffEnds, Copies, Untracked, FewFailures
  <2> DEFINE c == [table[m] EXCEPT !.waiting = FALSE]
  <2>2. c \in States /\ c.failures < MaxFailures
    BY <2>1 DEF States
  <2>3. table' = [table EXCEPT ![m] = c]
    BY <1>12 DEF BackoffEnds
  <2> HIDE DEF c
  <2>4. table' \in [Managed -> Copies] /\ \A n \in Managed : table'[n].failures < MaxFailures
    BY <1>4, <2>2, <2>3
  <2> QED
    BY <1>2, <1>6, <1>12, <2>4 DEF BackoffEnds, market, monitor
<1>13. ASSUME NEW m \in Managed, NEW s \in Stops, Update(m, s) PROVE TypeInv'
  <2>1. table[m] \in States /\ table[m].failures < MaxFailures /\ s \in Int /\ record[m] \in Records
    BY <1>1, <1>2, <1>3, <1>13 DEF Update, FewFailures
  <2> DEFINE c == [table[m] EXCEPT !.stop = s, !.base = s]
             r == [record[m] EXCEPT !.stop = s, !.base = s, !.anchor = table[m].anchor]
  <2>2. c \in States /\ c.failures < MaxFailures
    BY <2>1 DEF States
  <2>3. table[m].anchor \in Levels
    BY <2>1 DEF States, Levels
  <2>4. r \in Records
    BY <2>1, <2>3 DEF Records
  <2>5. table' = [table EXCEPT ![m] = c] /\ record' = [record EXCEPT ![m] = r]
    BY <1>2, <1>13 DEF Update
  <2> HIDE DEF c, r
  <2>6. table' \in [Managed -> Copies] /\ \A n \in Managed : table'[n].failures < MaxFailures
    BY <1>4, <2>2, <2>5
  <2>7. record' \in [Managed -> Records]
    BY <1>5, <2>4, <2>5
  <2> QED
    BY <1>6, <1>13, <2>6, <2>7 DEF Update, market, monitor
<1>14. ASSUME NEW m \in Managed, Remove(m) \/ Withdraw(m) PROVE TypeInv'
  <2>1. Closes(m)
    BY <1>14 DEF Remove, Withdraw, Closes, Ends
  <2>3. record' \in [Managed -> Records]
    BY <1>2, <2>1, Closing
  <2>4. Untracked \in Copies /\ Untracked.failures < MaxFailures
    BY <1>2 DEF Copies, Untracked
  <2>5. /\ table' \in [Managed -> Copies]
        /\ \A n \in Managed : table'[n].failures < MaxFailures
    BY <1>1, <1>2, <1>14, <2>4 DEF Remove, Withdraw, FewFailures
  <2> QED
    BY <1>6, <1>14, <2>3, <2>5 DEF Remove, Withdraw, market, monitor
<1>15. CASE Crash
  <2>1. Untracked \in Copies /\ Untracked.failures < MaxFailures /\ NoPass \in Passes
    BY <1>2 DEF Copies, Untracked, NoPass, Passes, Levels
  <2>2. /\ request' \in [Requesters -> Requests]
        /\ \A r \in Requesters : request'[r].at \notin {"read", "checked"}
    BY <1>1, <1>15 DEF Crash, Shape, Requests, Answered
  <2>3. Shape'
    BY <1>1, <1>15, <2>1, <2>2 DEF Crash, Shape, NoCopies, market
  <2>4. Sorted' /\ Placing' /\ FewFailures' /\ pass'.left = {}
    BY <1>15, <2>1 DEF Crash, Sorted, Placing, FewFailures, Triggering, NoCopies, NoPass
  <2> QED
    BY <2>2, <2>3, <2>4 DEF TypeInv
<1> QED
  BY <1>9, <1>10, <1>11, <1>12, <1>13, <1>14, <1>15

(* The monitor's pass. *)
LEMMA WatchTypeInv ==
  ASSUME TypeInv, Watch
  PROVE  TypeInv'
<1>1. /\ Shape /\ Sorted /\ Placing /\ FewFailures
      /\ pass \in Passes /\ pass.left \subseteq Managed
      /\ table \in [Managed -> Copies] /\ local \in [Managed -> Copies]
      /\ record \in [Managed -> Records]
      /\ \A m \in pass.left : local[m] \in States
  BY DEF TypeInv, Shape, Passes
<1>2. ASSUME UNCHANGED <<net, ltp, exits, table, local, request>>, record' \in [Managed -> Records],
             NEW m \in pass.left, pass' \in {Done(m), Kept(m), Dropped(m)}
      PROVE  TypeInv'
  <2>1. pass' \in Passes /\ Sorted' /\ Placing' /\ pass'.left \subseteq pass.left
    BY <1>2, Moves
  <2> QED
    BY <1>1, <1>2, <2>1 DEF TypeInv, Shape, FewFailures
<1>3. \A m \in Managed : Closes(m) => record' \in [Managed -> Records]
  BY <1>1, Closing
<1>4. ASSUME NEW m \in Managed, LookClosed(m) \/ LookFlat(m) \/ LookDeferred(m) PROVE TypeInv'
  <2>1. record' = record \/ Closes(m)
    BY <1>4 DEF LookClosed, LookFlat, LookDeferred, Closes, Ends
  <2> QED
    BY <1>1, <1>2, <1>3, <1>4, <2>1 DEF LookClosed, LookFlat, LookDeferred, Live, Looking, market
<1>5. CASE CloseRecord \/ GiveUp
  <2>1. pass.cur \in pass.left /\ pass.cur \in Managed
    BY <1>1, <1>5 DEF CloseRecord, GiveUp, Sorted, Triggering
  <2>2. Closes(pass.cur)
    BY <1>5 DEF CloseRecord, GiveUp, Closes, Ends
  <2> QED
    BY <1>2, <1>3, <1>5, <2>1, <2>2 DEF CloseRecord, GiveUp, market
<1>6. CASE ScheduleRetry
  <2> DEFINE m == pass.cur
             c == [local[m] EXCEPT !.failures = Failures, !.waiting = TRUE]
  <2>1. m \in pass.left /\ m \in Managed
    BY <1>1, <1>6 DEF ScheduleRetry, Sorted, Triggering
  <2>2. pass' \in Passes /\ Sorted' /\ Placing' /\ pass'.left \subseteq pass.left
    BY <1>6, <2>1, Moves DEF ScheduleRetry
  <2>3. local[m] \in States
    BY <1>1, <2>1
  <2>9. Failures \in Nat
    BY <2>3 DEF States, Failures
  <2>10. c \in States
    BY <2>3, <2>9 DEF States
  <2>4. c \in States /\ c.failures < MaxFailures
    <3>1. c.failures = Failures
      BY <2>3 DEF States
    <3> QED
      BY <1>6, <2>10, <3>1 DEF ScheduleRetry
  <2>5. local' = [local EXCEPT ![m] = c]
    BY <1>1, <1>6 DEF ScheduleRetry
  <2> HIDE DEF m, c
  <2>6. /\ local' \in [Managed -> Copies]
        /\ \A n \in Managed : local'[n].failures < MaxFailures
        /\ \A n \in pass.left : local'[n] \in States
    BY <1>1, <2>1, <2>4, <2>5 DEF Copies, FewFailures
  <2>7. UNCHANGED <<net, ltp, record, exits, table, request>>
    BY <1>6 DEF ScheduleRetry, market
  <2> QED
    BY <1>1, <2>2, <2>6, <2>7 DEF TypeInv, Shape, FewFailures
<1>7. ASSUME NEW m \in Managed, Look(m) PROVE TypeInv'
  <2> DEFINE c == [local[m] EXCEPT !.anchor = AnchorOf(local[m]), !.stop = Trailed(local[m])]
  <2>1. m \in pass.left /\ local[m] \in States /\ pass.net # 0 /\ pass.at = "look"
    BY <1>1, <1>7 DEF Look, Live, Looking
  <2>2. AnchorOf(local[m]) \in Levels /\ Trailed(local[m]) \in Int
    BY <1>1, <2>1, TrailedStop
  <2>3. c \in States
    BY <2>1, <2>2 DEF States, Levels
  <2>9. c.failures < MaxFailures
    BY <1>1, <1>7, <2>1 DEF States, FewFailures
  <2>10. c.stop \in Int /\ c.base \in Int /\ c.anchor \in Levels
    BY <2>3 DEF States, Levels
  <2>4. /\ local' = [local EXCEPT ![m] = c] /\ Persist(m, c)
        /\ pass' = Kept(m) \/ pass' = [pass EXCEPT !.at = "hit", !.cur = m]
        /\ UNCHANGED <<net, ltp, exits, table, request>>
    BY <1>7 DEF Look, market
  <2> HIDE DEF c
  <2>5. /\ local' \in [Managed -> Copies]
        /\ \A n \in Managed : local'[n].failures < MaxFailures
        /\ \A n \in pass.left : local'[n] \in States
    BY <1>1, <2>1, <2>3, <2>4, <2>9 DEF Copies, FewFailures
  <2>6. [record[m] EXCEPT !.stop = c.stop, !.base = c.base, !.anchor = c.anchor] \in Records
    BY <1>1, <2>10 DEF Records
  <2>7. record' \in [Managed -> Records]
    BY <1>1, <2>4, <2>6 DEF Persist
  <2>8. pass' \in Passes /\ Sorted' /\ Placing' /\ pass'.left \subseteq pass.left
    <3>1. CASE pass' = Kept(m)
      BY <2>1, <3>1, Moves
    <3>2. CASE pass' = [pass EXCEPT !.at = "hit", !.cur = m]
      <4>1. /\ pass' \in Passes /\ pass'.left = pass.left /\ pass'.keep = pass.keep
            /\ pass'.drop = pass.drop /\ pass'.cur = m /\ pass'.net = pass.net /\ pass'.at = "hit"
        BY <1>1, <1>7, <3>2 DEF Passes
      <4> QED
        BY <1>1, <2>1, <4>1 DEF Sorted, Placing
    <3> QED
      BY <2>4, <3>1, <3>2
  <2> QED
    BY <1>1, <2>4, <2>5, <2>7, <2>8 DEF TypeInv, Shape, FewFailures
<1>8. CASE TriggerExit \/ PlaceExit
  <2>1. Triggering /\ exits \in [ExitIds -> Orders \union {NoExit}]
    BY <1>1, <1>8 DEF TriggerExit, PlaceExit, Triggering, Shape
  <2>2. pass.net \in Int \ {0} /\ pass.cur \in Sources
    BY <1>1, <2>1 DEF Sorted, Sources, Passes
  <2>3. /\ exits' \in [ExitIds -> Orders \union {NoExit}]
        /\ pass' \in Passes /\ pass'.left = pass.left /\ pass'.keep = pass.keep
        /\ pass'.drop = pass.drop /\ pass'.cur = pass.cur /\ pass'.net = pass.net
        /\ Placing'
    <3>1. CASE TriggerExit
      <4>1. PICK x \in ExitIds : /\ CreateExit(x, pass.cur, Abs(pass.net))
                                 /\ pass' = [pass EXCEPT !.at = "placing", !.exit = x]
        BY <3>1 DEF TriggerExit
      <4>2. [status |-> "CREATED", of |-> pass.cur, qty |-> Abs(pass.net), strays |-> 0] \in Orders
        BY <2>2 DEF Orders, Abs
      <4>3. exits' \in [ExitIds -> Orders \union {NoExit}] /\ exits'[x] \in Orders
        BY <2>1, <4>1, <4>2 DEF CreateExit
      <4>4. /\ pass' \in Passes /\ pass'.left = pass.left /\ pass'.keep = pass.keep /\ pass'.exit = x
            /\ pass'.drop = pass.drop /\ pass'.cur = pass.cur /\ pass'.net = pass.net
        BY <1>1, <4>1 DEF Passes
      <4> QED
        BY <4>3, <4>4 DEF Placing
    <3>2. CASE PlaceExit
      <4>1. PICK a \in {"placed", "failed"} : pass' = [pass EXCEPT !.at = a]
        BY <3>2 DEF PlaceExit
      <4>2. /\ pass' \in Passes /\ pass'.left = pass.left /\ pass'.keep = pass.keep /\ pass'.at = a
            /\ pass'.drop = pass.drop /\ pass'.cur = pass.cur /\ pass'.net = pass.net
        BY <1>1, <4>1 DEF Passes
      <4>3. pass.exit \in ExitIds /\ exits[pass.exit] \in Orders
        BY <1>1, <3>2 DEF PlaceExit, Placing
      <4>5. exits' \in [ExitIds -> Orders \union {NoExit}]
        BY <1>1, <3>2, <4>3, PlacedOrder DEF PlaceExit, Placed, Touched
      <4> QED
        BY <4>2, <4>5 DEF Placing
    <3> QED
      BY <1>8, <3>1, <3>2
  <2>4. Sorted'
    BY <1>1, <2>1, <2>3 DEF Sorted
  <2>5. UNCHANGED <<net, ltp, record, table, local, request>>
    BY <1>8 DEF TriggerExit, PlaceExit, market
  <2> QED
    BY <1>1, <2>3, <2>4, <2>5 DEF TypeInv, Shape, FewFailures
<1>9. CASE StartPass
  <2>1. /\ NoPass \in Passes /\ net \in Int /\ ltp \in Levels
        /\ {m \in Managed : Tracked(m)} \in SUBSET Managed
    BY <1>1 DEF NoPass, Passes, Levels, Shape
  <2>2. /\ pass' \in Passes /\ pass'.at = "look" /\ pass'.left = {m \in Managed : Tracked(m)}
        /\ pass'.keep = {} /\ pass'.drop = {}
    BY <1>9, <2>1 DEF StartPass, NoPass, Passes
  <2>3. Sorted' /\ Placing' /\ \A m \in pass'.left : local'[m] \in States
    BY <1>1, <1>9, <2>2 DEF StartPass, Sorted, Placing, Triggering, Tracked, Copies
  <2> QED
    BY <1>1, <1>9, <2>2, <2>3 DEF StartPass, TypeInv, Shape, FewFailures, market
<1>10. CASE EndPass
  <2>1. Untracked \in Copies /\ Untracked.failures < MaxFailures /\ NoPass \in Passes
    BY ExitAssumption DEF Copies, Untracked, NoPass, Passes, Levels
  <2>2. \A m \in Managed : table'[m] \in {Untracked, local[m], table[m]}
    BY <1>10 DEF EndPass, Merged
  <2>3. table' \in [Managed -> Copies] /\ \A m \in Managed : table'[m].failures < MaxFailures
    <3>1. \A m \in Managed : table'[m] \in Copies /\ table'[m].failures < MaxFailures
      BY <1>1, <2>1, <2>2 DEF FewFailures
    <3> QED
      BY <1>10, <3>1 DEF EndPass
  <2>4. /\ local' \in [Managed -> Copies] /\ \A m \in Managed : local'[m].failures < MaxFailures
        /\ pass' \in Passes /\ pass'.left = {} /\ Sorted' /\ Placing'
    BY <1>10, <2>1 DEF EndPass, NoCopies, NoPass, Sorted, Placing, Triggering
  <2> QED
    BY <1>1, <1>10, <2>3, <2>4 DEF EndPass, TypeInv, Shape, FewFailures, market
<1> QED
  BY <1>4, <1>5, <1>6, <1>7, <1>8, <1>9, <1>10 DEF Watch

LEMMA NextTypeInv == TypeInv /\ [Next]_vars => TypeInv'
<1> SUFFICES ASSUME TypeInv, [Next]_vars PROVE TypeInv'
  OBVIOUS
<1>1. CASE UNCHANGED vars
  BY <1>1 DEF vars, market, monitor, TypeInv, Shape, Sorted, Placing, FewFailures, Triggering
<1> QED
  BY <1>1, MarketTypeInv, TableTypeInv, WatchTypeInv DEF Next, Broker

(* The tables, the copies and the orders keep their shape, and a pass      *)
(* sorts each managed exit into one set.                                   *)
THEOREM ExitsTypeCorrect == Spec => []TypeOK
<1>2. TypeInv => TypeOK
  <2> SUFFICES ASSUME TypeInv PROVE TypeOK
    OBVIOUS
  <2>1. /\ Shape /\ Sorted /\ FewFailures
    BY DEF TypeInv
  <2>2. net \in Int /\ ltp \in Prices
    BY <2>1 DEF Shape
  <2>3. ASSUME NEW m \in Managed
        PROVE  /\ record[m].status \in {"NONE", "CREATED"} \union Ends
               /\ record[m].stop \in Int /\ record[m].base \in Int
               /\ record[m].anchor \in Prices \union {NoPrice}
               /\ table[m] \in States \union {Untracked} /\ local[m] \in States \union {Untracked}
               /\ Tracked(m) => table[m].failures < MaxFailures
    <3>1. record[m] \in Records /\ table[m] \in Copies /\ local[m] \in Copies
      BY <2>1 DEF Shape
    <3> QED
      BY <2>1, <3>1 DEF Records, Copies, Levels, FewFailures
  <2>4. ASSUME NEW x \in ExitIds PROVE exits[x] = NoExit \/ (exits[x].of \in Sources /\ exits[x].qty # 0)
    BY <2>1 DEF Shape, Orders
  <2> QED
    BY <2>1, <2>2, <2>3, <2>4 DEF TypeOK, Sorted, Triggering
<1> QED
  BY InitTypeInv, NextTypeInv, <1>2, PTL DEF Spec

-----------------------------------------------------------------------------
(* The orders of a managed exit. *)
Made(m) == {x \in ExitIds : exits[x].of = m}

Count(m) == Cardinality(Made(m))

(* What the crashes have allowed so far. *)
Budget == MaxFailures * crashes

(* The exit whose order was created in this pass and not yet accounted for. *)
Ordered(m) == pass.at \in {"placing", "placed", "failed"} /\ pass.cur = m

InHand(m) == m \in pass.left \union pass.keep

(* Every order beyond the budget is a failure in the copy the monitor will *)
(* merge back, but for the one being placed; a managed exit that lost its  *)
(* count, in a crash, has spent no more than the budget; and a record that *)
(* is closed is never tracked again.                                       *)
RetryOf(m) ==
  /\ Count(m) <= Budget + MaxFailures
  /\ InHand(m) => Count(m) <= Budget + local[m].failures + (IF Ordered(m) THEN 1 ELSE 0)
  /\ Tracked(m) /\ m \notin pass.keep \union pass.drop /\ ~Ordered(m) =>
       Count(m) <= Budget + table[m].failures
  /\ ~Tracked(m) /\ record[m].status \notin Ends => ~InHand(m) /\ Count(m) <= Budget
  /\ m \in pass.drop => record[m].status \in Ends
  /\ Tracked(m) \/ InHand(m) => record[m].status # "NONE"

IdleEmpty == pass.at = "idle" => pass = NoPass

RetryInv == crashes \in Nat /\ IdleEmpty /\ \A m \in Managed : RetryOf(m)

-----------------------------------------------------------------------------
(* Counting the orders of a source. *)
LEMMA Counts ==
  ASSUME NEW m
  PROVE  IsFiniteSet(Made(m)) /\ Count(m) \in Nat
<1>1. IsFiniteSet(ExitIds)
  BY FS_Interval, ExitAssumption DEF ExitIds
<1>2. Made(m) \in SUBSET ExitIds
  BY DEF Made
<1>3. IsFiniteSet(Made(m))
  BY <1>1, <1>2, FS_Subset
<1> QED
  BY <1>3, FS_CardinalityType DEF Count

LEMMA CountKept ==
  ASSUME NEW m, \A x \in ExitIds : (exits'[x].of = m) <=> (exits[x].of = m)
  PROVE  Count(m)' = Count(m)
<1>1. Made(m)' = Made(m)
  BY DEF Made
<1> QED
  BY <1>1 DEF Count

LEMMA CountAdded ==
  ASSUME TypeInv, NEW x \in ExitIds, NEW s \in Sources, NEW q, CreateExit(x, s, q)
  PROVE  /\ Count(s)' = Count(s) + 1
         /\ \A m \in Sources \ {s} : Count(m)' = Count(m)
<1>1. exits \in [ExitIds -> Orders \union {NoExit}]
  BY DEF TypeInv, Shape
<1>2. exits' = [exits EXCEPT ![x] = [status |-> "CREATED", of |-> s, qty |-> q, strays |-> 0]]
      /\ exits[x] = NoExit
  BY DEF CreateExit
<1>3. exits[x].of = "none" /\ exits'[x].of = s /\ \A y \in ExitIds \ {x} : exits'[y] = exits[y]
  BY <1>1, <1>2 DEF NoExit
<1>4. x \notin Made(s) /\ Made(s)' = Made(s) \union {x}
  BY <1>3, ExitAssumption DEF Made
<1>5. Count(s)' = Count(s) + 1
  BY <1>4, Counts, FS_AddElement DEF Count
<1>6. ASSUME NEW m \in Sources \ {s} PROVE Count(m)' = Count(m)
  BY <1>3, <1>6, CountKept, ExitAssumption
<1> QED
  BY <1>5, <1>6

(* A step on an order leaves the counts alone.                             *)
LEMMA TouchedKeepsOf ==
  ASSUME Shape, NEW x \in ExitIds, Touched(x)
  PROVE  \A y \in ExitIds : exits'[y].of = exits[y].of /\ exits'[y].qty = exits[y].qty
BY DEF Touched

LEMMA Budgets == ASSUME crashes \in Nat PROVE Budget \in Nat
BY ExitAssumption DEF Budget

-----------------------------------------------------------------------------
LEMMA InitRetryInv == Init => RetryInv
<1> SUFFICES ASSUME Init, NEW m \in Managed PROVE RetryOf(m)
  BY DEF Init, RetryInv, IdleEmpty
<1>1. Made(m) = {}
  BY ExitAssumption DEF Init, Made, NoExit, Sources
<1>2. Count(m) = 0
  BY <1>1, FS_EmptySet DEF Count
<1>3. Budget \in Nat /\ MaxFailures \in Nat
  BY Budgets, ExitAssumption DEF Init
<1> QED
  BY <1>2, <1>3 DEF Init, RetryOf, InHand, Tracked, NoRecord, NoPass

(* What leaves the table, the copies and the records alone. *)
LEMMA OtherRetryInv ==
  ASSUME RetryInv, UNCHANGED <<record, table, local, pass, crashes>>,
         \A m \in Managed : Count(m)' = Count(m)
  PROVE  RetryInv'
BY DEF RetryInv, RetryOf, InHand, Ordered, Tracked, Budget, IdleEmpty

(* What touches the table and the record of one managed exit. *)
LEMMA OneRetryInv ==
  ASSUME RetryInv, NEW m \in Managed, UNCHANGED <<exits, local, pass, crashes>>,
         \A n \in Managed \ {m} : table'[n] = table[n] /\ record'[n] = record[n],
         RetryOf(m)'
  PROVE  RetryInv'
<1>1. \A n \in Managed : Count(n)' = Count(n)
  BY CountKept
<1> QED
  BY <1>1 DEF RetryInv, RetryOf, InHand, Ordered, Tracked, Budget, IdleEmpty

LEMMA MarketRetryInv ==
  ASSUME TypeInv, RetryInv,
         \/ PriceMoves \/ SquaredOff
         \/ \E x \in ExitIds : Broker(x)
         \/ \E r \in Requesters : ReadPositions(r) \/ CheckRecent(r) \/ RegisterExit(r)
  PROVE  RetryInv'
<1>1. UNCHANGED <<record, table, local, pass, crashes>>
  BY DEF PriceMoves, SquaredOff, Broker, Fill, Reject, FillStray, RejectStray, Reconcile, Dispatch,
         ReadPositions, CheckRecent, RegisterExit, Accepted, Refused, SessionLost, Sent, monitor, counters
<1>2. ASSUME NEW m \in Managed PROVE Count(m)' = Count(m)
  <2>1. CASE \/ PriceMoves \/ SquaredOff
             \/ \E r \in Requesters : ReadPositions(r) \/ CheckRecent(r)
    BY <2>1, CountKept DEF PriceMoves, SquaredOff, ReadPositions, CheckRecent
  <2>2. ASSUME NEW x \in ExitIds, Broker(x) PROVE Count(m)' = Count(m)
    BY <2>2, BrokerOrder, TouchedKeepsOf, CountKept DEF TypeInv
  <2>3. ASSUME NEW r \in Requesters, RegisterExit(r) PROVE Count(m)' = Count(m)
    <3>1. PICK x \in ExitIds : CreateExit(x, r, request[r].net)
      BY <2>3 DEF RegisterExit
    <3>2. r \in Sources /\ m \in Sources \ {r}
      BY ExitAssumption DEF Sources
    <3> QED
      BY <3>1, <3>2, CountAdded
  <2> QED
    BY <2>1, <2>2, <2>3
<1> QED
  BY <1>1, <1>2, OtherRetryInv

(* The dashboard, and the watcher between two passes. *)
LEMMA TableRetryInv ==
  ASSUME TypeInv, RetryInv,
         \/ \E m \in Managed : Register(m) \/ BackoffEnds(m) \/ Remove(m) \/ Withdraw(m)
         \/ \E m \in Managed : \E s \in Stops : Create(m, s) \/ Enable(m, s) \/ Update(m, s)
  PROVE  RetryInv'
<1>1. /\ table \in [Managed -> Copies] /\ record \in [Managed -> Records] /\ local \in [Managed -> Copies]
      /\ Budget \in Nat /\ MaxFailures \in Nat /\ crashes \in Nat
      /\ \A n \in Managed : Count(n) \in Nat
  BY Budgets, Counts, ExitAssumption DEF TypeInv, Shape, RetryInv
<1>2. ASSUME NEW m \in Managed, UNCHANGED <<exits, local, pass, crashes>>,
             \A n \in Managed \ {m} : table'[n] = table[n] /\ record'[n] = record[n],
             record'[m].status \in {record[m].status} \union Ends \/ record[m].status = "NONE",
             \/ Tracked(m)' /\ record'[m].status # "NONE"
                /\ record[m].status \notin Ends /\ ~Tracked(m) /\ table'[m].failures = 0
             \/ Tracked(m)' = Tracked(m) /\ table'[m] = table[m]
             \/ ~Tracked(m)' /\ record'[m].status \in Ends
      PROVE  RetryInv'
  <2>1. Count(m)' = Count(m) /\ Budget' = Budget /\ InHand(m)' = InHand(m) /\ Ordered(m)' = Ordered(m) /\ pass' = pass
    BY <1>2, CountKept DEF Budget, InHand, Ordered
  <2>2. RetryOf(m)
    BY DEF RetryInv
  <2>3. RetryOf(m)'
    BY <1>1, <1>2, <2>1, <2>2 DEF RetryOf, Ends
  <2> QED
    BY <1>2, <2>3, OneRetryInv
<1>12. ASSUME NEW m \in Managed, UNCHANGED <<exits, local, pass, crashes>>,
              \A n \in Managed \ {m} : table'[n] = table[n] /\ record'[n] = record[n],
              Tracked(m), Tracked(m)', record'[m].status = record[m].status, record[m].status # "NONE",
              table'[m].failures = table[m].failures
       PROVE  RetryInv'
  <2>1. Count(m)' = Count(m) /\ Budget' = Budget /\ InHand(m)' = InHand(m) /\ Ordered(m)' = Ordered(m) /\ pass' = pass
    BY <1>12, CountKept DEF Budget, InHand, Ordered
  <2>2. RetryOf(m)
    BY DEF RetryInv
  <2>3. RetryOf(m)'
    BY <1>1, <1>12, <2>1, <2>2 DEF RetryOf
  <2> QED
    BY <1>12, <2>3, OneRetryInv
<1>3. ASSUME NEW m \in Managed, NEW r, Registered(m, r), r.status \in {"NONE", "CREATED"},
             UNCHANGED <<exits, local, pass, crashes>>, ~Tracked(m), record[m].status \in {"NONE", "CREATED"},
             r = record[m] \/ (record[m].status = "NONE" /\ \E s \in Stops : r = NewRecord(s)),
             r.status = "CREATED"
      PROVE  RetryInv'
  <2>1. PICK a :
          /\ table' = [table EXCEPT ![m] = [stop |-> r.stop, base |-> r.base, anchor |-> a,
                                            failures |-> 0, waiting |-> FALSE]]
          /\ record' = [record EXCEPT ![m] = [r EXCEPT !.anchor = a]]
    BY <1>3 DEF Registered
  <2>2. r \in [status : {"CREATED"}, stop : Int, base : Int, anchor : Levels]
    <3>1. CASE r = record[m]
      BY <1>1, <1>3, <3>1 DEF Records
    <3>2. ASSUME NEW s \in Stops, r = NewRecord(s) PROVE r \in [status : {"CREATED"}, stop : Int, base : Int, anchor : Levels]
      BY <3>2, ExitAssumption DEF NewRecord, Levels
    <3> QED
      BY <1>3, <3>1, <3>2
  <2>3. record'[m].status = "CREATED" /\ table'[m].failures = 0
    BY <1>1, <2>1, <2>2
  <2>4. Tracked(m)' /\ \A n \in Managed \ {m} : table'[n] = table[n] /\ record'[n] = record[n]
    <3>1. table'[m].failures # Untracked.failures
      BY <2>3 DEF Untracked
    <3> QED
      BY <1>1, <2>1, <3>1 DEF Tracked
  <2> QED
    BY <1>2, <1>3, <2>3, <2>4 DEF Ends
<1>4. \A m \in Managed : Tracked(m) => record[m].status # "NONE" /\ table[m] \in States
  BY <1>1 DEF RetryInv, RetryOf, Copies, Tracked
<1>5. ASSUME NEW m \in Managed, Register(m) PROVE RetryInv'
  BY <1>3, <1>5 DEF Register, market, monitor, counters
<1>6. ASSUME NEW m \in Managed, NEW s \in Stops, Enable(m, s) PROVE RetryInv'
  <2>1. record[m].status = "NONE" /\ NewRecord(s).status = "CREATED" /\ ~Tracked(m)
    BY <1>4, <1>6 DEF Enable, NoRecord, NewRecord
  <2> QED
    BY <1>3, <1>6, <2>1 DEF Enable, market, monitor, counters
<1>7. ASSUME NEW m \in Managed, NEW s \in Stops, Create(m, s) PROVE RetryInv'
  <2>1. record[m].status = "NONE" /\ record'[m].status = "CREATED"
    BY <1>1, <1>7 DEF Create, NoRecord, NewRecord
  <2>2. ~Tracked(m)
    BY <1>4, <2>1
  <2> QED
    BY <1>1, <1>2, <1>7, <2>1, <2>2 DEF Create, monitor, counters, Tracked
<1>8. ASSUME NEW m \in Managed, BackoffEnds(m) PROVE RetryInv'
  <2>1. table[m] \in States /\ table' = [table EXCEPT ![m] = [table[m] EXCEPT !.waiting = FALSE]]
    BY <1>1, <1>8 DEF BackoffEnds, Copies, Untracked
  <2>2. table'[m] = [table[m] EXCEPT !.waiting = FALSE]
    BY <1>1, <2>1
  <2>3. table'[m].failures = table[m].failures /\ table[m].failures \in Nat
    BY <2>1, <2>2 DEF States
  <2>4. Tracked(m) /\ Tracked(m)'
    BY <2>3 DEF Tracked, Untracked
  <2>5. UNCHANGED <<exits, local, pass, crashes>> /\ \A n \in Managed \ {m} : table'[n] = table[n] /\ record'[n] = record[n]
    BY <1>1, <1>8, <2>1 DEF BackoffEnds, monitor, counters
  <2>6. record'[m].status = record[m].status /\ record[m].status # "NONE" /\ table'[m].failures = table[m].failures
    BY <1>4, <1>8, <2>3, <2>4 DEF BackoffEnds
  <2> QED
    BY <1>12, <2>4, <2>5, <2>6
<1>9. ASSUME NEW m \in Managed, NEW s \in Stops, Update(m, s) PROVE RetryInv'
  <2>1. table[m] \in States /\ record[m] \in Records /\ Tracked(m) /\ record[m].status # "NONE"
    BY <1>1, <1>4, <1>9 DEF Update
  <2>2. table'[m] = [table[m] EXCEPT !.stop = s, !.base = s]
    BY <1>1, <1>9 DEF Update
  <2>3. record'[m] = [record[m] EXCEPT !.stop = s, !.base = s, !.anchor = table[m].anchor]
    BY <1>1, <1>9 DEF Update
  <2>4. table'[m].failures = table[m].failures /\ table[m].failures \in Nat
    BY <2>1, <2>2 DEF States
  <2>5. record'[m].status = record[m].status
    BY <2>1, <2>3 DEF Records
  <2>6. Tracked(m)'
    BY <2>4 DEF Tracked, Untracked
  <2>7. \A n \in Managed \ {m} : table'[n] = table[n] /\ record'[n] = record[n]
    BY <1>1, <1>9 DEF Update
  <2>8. UNCHANGED <<exits, local, pass, crashes>>
    BY <1>9 DEF Update, monitor
  <2> QED
    BY <1>12, <2>1, <2>4, <2>5, <2>6, <2>7, <2>8
<1>10. ASSUME NEW m \in Managed, Remove(m) \/ Withdraw(m) PROVE RetryInv'
  <2>1. Closes(m)
    BY <1>10 DEF Remove, Withdraw, Closes, Ends
  <2>2. record'[m].status \in Ends /\ \A n \in Managed \ {m} : record'[n] = record[n]
    BY <1>1, <2>1, Closing
  <2>3. CASE Remove(m)
    BY <1>1, <1>2, <2>1, <2>2, <2>3 DEF Remove, Tracked, monitor, counters
  <2>4. CASE Withdraw(m)
    BY <1>1, <1>2, <2>1, <2>2, <2>4 DEF Withdraw, Tracked, monitor, counters
  <2> QED
    BY <1>10, <2>3, <2>4
<1> QED
  BY <1>5, <1>6, <1>7, <1>8, <1>9, <1>10

LEMMA CrashRetryInv == ASSUME RetryInv, Crash PROVE RetryInv'
<1>1. crashes' = crashes + 1 /\ UNCHANGED exits /\ UNCHANGED record
  BY DEF Crash
<1>2. Budget' = Budget + MaxFailures /\ Budget \in Nat /\ MaxFailures \in Nat /\ crashes \in Nat
  BY <1>1, Budgets, ExitAssumption DEF Budget, RetryInv
<1>3. ASSUME NEW m \in Managed PROVE RetryOf(m)'
  <2>1. Count(m)' = Count(m) /\ Count(m) \in Nat /\ RetryOf(m)
    BY <1>1, CountKept, Counts DEF RetryInv
  <2>2. ~Tracked(m)' /\ ~InHand(m)' /\ m \notin pass'.drop
    BY DEF Crash, Tracked, InHand, NoPass
  <2> QED
    BY <1>2, <2>1, <2>2 DEF RetryOf
<1> QED
  BY <1>1, <1>2, <1>3 DEF RetryInv, IdleEmpty, Crash

(* Where a managed exit goes when the monitor is done with it.             *)
LEMMA Kinds ==
  ASSUME pass \in Passes, NEW m \in Managed
  PROVE  /\ Done(m).at = "look" /\ Done(m).left = pass.left \ {m}
         /\ Done(m).keep = pass.keep /\ Done(m).drop = pass.drop /\ Done(m).net = pass.net
         /\ Kept(m).at = "look" /\ Kept(m).left = pass.left \ {m}
         /\ Kept(m).keep = pass.keep \union {m} /\ Kept(m).drop = pass.drop /\ Kept(m).net = pass.net
         /\ Dropped(m).at = "look" /\ Dropped(m).left = pass.left \ {m}
         /\ Dropped(m).keep = pass.keep /\ Dropped(m).drop = pass.drop \union {m}
         /\ Dropped(m).net = pass.net
<1> DEFINE d == Done(m)
<1>1. /\ d \in Passes /\ d.at = "look" /\ d.left = pass.left \ {m}
      /\ d.net = pass.net /\ d.keep = pass.keep /\ d.drop = pass.drop
  BY DoneFields
<1> HIDE DEF d
<1>2. Kept(m) = [d EXCEPT !.keep = d.keep \union {m}] /\ Dropped(m) = [d EXCEPT !.drop = d.drop \union {m}]
  BY DEF Kept, Dropped, d
<1>3. /\ Kept(m).at = "look" /\ Kept(m).left = pass.left \ {m}
      /\ Kept(m).keep = pass.keep \union {m} /\ Kept(m).drop = pass.drop /\ Kept(m).net = pass.net
  BY <1>1, <1>2 DEF Passes
<1>4. /\ Dropped(m).at = "look" /\ Dropped(m).left = pass.left \ {m}
      /\ Dropped(m).keep = pass.keep /\ Dropped(m).drop = pass.drop \union {m}
      /\ Dropped(m).net = pass.net
  BY <1>1, <1>2 DEF Passes
<1> QED
  BY <1>1, <1>3, <1>4 DEF d

(* The monitor's pass. *)
LEMMA WatchRetryInv ==
  ASSUME TypeInv, RetryInv, Watch
  PROVE  RetryInv'
<1>1. /\ record \in [Managed -> Records] /\ table \in [Managed -> Copies]
      /\ local \in [Managed -> Copies] /\ pass \in Passes /\ Sorted /\ pass.left \subseteq Managed
      /\ Budget \in Nat /\ MaxFailures \in Nat \ {0} /\ crashes \in Nat
      /\ \A n \in Managed : Count(n) \in Nat /\ RetryOf(n)
      /\ \A n \in pass.left : local[n].failures \in Nat
      /\ \A n \in Managed : table[n].failures < MaxFailures /\ local[n].failures < MaxFailures
      /\ IdleEmpty
      /\ \A n \in Managed : table[n].failures \in Int /\ local[n].failures \in Int
  BY Budgets, Counts, ExitAssumption
     DEF TypeInv, Shape, RetryInv, Passes, FewFailures, Copies, States, Untracked
(* One managed exit is settled or left for the next pass.                  *)
<1>2. ASSUME NEW m \in pass.left, UNCHANGED <<exits, table, crashes>>,
             pass' \in {Done(m), Kept(m), Dropped(m)},
             \A n \in Managed \ {m} : local'[n] = local[n] /\ record'[n] = record[n],
             pass.at \in {"placing", "placed", "failed"} => m = pass.cur,
             record'[m].status \in {record[m].status} \union Ends,
             pass' = Done(m) => ~Ordered(m),
             pass' = Kept(m) => local'[m].failures \in Int /\ Count(m) <= Budget + local'[m].failures,
             pass' = Dropped(m) => record'[m].status \in Ends
      PROVE  RetryInv'
  <2>1. /\ pass'.at = "look" /\ pass'.left = pass.left \ {m}
        /\ \/ pass' = Done(m) /\ pass'.keep = pass.keep /\ pass'.drop = pass.drop
           \/ pass' = Kept(m) /\ pass'.keep = pass.keep \union {m} /\ pass'.drop = pass.drop
           \/ pass' = Dropped(m) /\ pass'.keep = pass.keep /\ pass'.drop = pass.drop \union {m}
    BY <1>1, <1>2, Kinds
  <2>2. Budget' = Budget /\ \A n \in Managed : Count(n)' = Count(n)
    BY <1>2, CountKept DEF Budget
  <2>3. ASSUME NEW n \in Managed \ {m} PROVE RetryOf(n)'
    <3>1. RetryOf(n) /\ ~Ordered(n)
      BY <1>1, <1>2, <2>3 DEF Ordered
    <3> QED
      BY <1>2, <2>1, <2>2, <3>1 DEF RetryOf, InHand, Ordered, Tracked
  <2>4. RetryOf(m)'
    <3>1. RetryOf(m) /\ m \notin pass.keep \union pass.drop /\ m \in Managed /\ InHand(m)
      BY <1>1 DEF Sorted, InHand
    <3>2. record'[m].status # "NONE" /\ Count(m) <= Budget + MaxFailures
      BY <1>2, <3>1 DEF RetryOf, Ends
    <3>3. ~Tracked(m) => record'[m].status \in Ends
      BY <1>2, <3>1 DEF RetryOf
    <3>4. ~Ordered(m)' /\ (Tracked(m)' <=> Tracked(m))
      BY <1>2, <2>1 DEF Ordered, Tracked
    <3>5. CASE pass' = Done(m)
      <4>1. m \notin pass'.keep /\ m \notin pass'.drop /\ ~InHand(m)' /\ ~Ordered(m)
        BY <1>1, <1>2, <2>1, <3>1, <3>5, Kinds DEF InHand
      <4>2. Tracked(m) => Count(m) <= Budget + table[m].failures
        BY <3>1, <4>1 DEF RetryOf
      <4> QED
        BY <1>2, <2>2, <3>1, <3>2, <3>3, <3>4, <4>1, <4>2 DEF RetryOf, Tracked
    <3>6. CASE pass' = Kept(m)
      <4>1. m \in pass'.keep /\ m \notin pass'.drop
        BY <1>1, <3>1, <3>6, Kinds
      <4> QED
        BY <1>1, <1>2, <2>1, <2>2, <3>1, <3>2, <3>3, <3>4, <3>6, <4>1 DEF RetryOf, Tracked
    <3>7. CASE pass' = Dropped(m)
      <4>1. m \notin pass'.left /\ m \notin pass'.keep /\ m \in pass'.drop
        BY <1>1, <3>1, <3>7, Kinds
      <4> QED
        BY <1>2, <2>2, <3>1, <3>2, <3>7, <4>1 DEF RetryOf, InHand
    <3> QED
      BY <1>2, <3>5, <3>6, <3>7
  <2> QED
    BY <1>1, <1>2, <2>1, <2>3, <2>4 DEF RetryInv, IdleEmpty
<1>3. ASSUME NEW m \in Managed, Looking(m)
      PROVE  /\ m \in pass.left /\ pass.at = "look" /\ ~Ordered(m)
             /\ record[m].status \in {"CREATED"} \union Ends
             /\ Count(m) <= Budget + local[m].failures
  <2>1. m \in pass.left /\ pass.at = "look" /\ RetryOf(m) /\ InHand(m)
    BY <1>1, <1>3 DEF Looking, InHand
  <2>2. record[m].status # "NONE" /\ record[m] \in Records
    BY <1>1, <2>1 DEF RetryOf
  <2> QED
    BY <1>1, <2>1, <2>2 DEF RetryOf, Ordered, Records
<1>4. ASSUME NEW m \in Managed, LookClosed(m) \/ LookDeferred(m) PROVE RetryInv'
  <2>1. /\ Looking(m) /\ UNCHANGED <<record, exits, table, local, crashes>>
        /\ (pass' = Dropped(m) /\ record[m].status # "CREATED") \/ pass' = Done(m) \/ pass' = Kept(m)
    BY <1>4 DEF LookClosed, LookDeferred, Live, counters
  <2>2. pass' = Dropped(m) => pass' # Kept(m) /\ pass' # Done(m)
    BY <1>1, <1>3, <2>1, Kinds DEF Sorted
  <2> QED
    BY <1>1, <1>2, <1>3, <2>1, <2>2
<1>5. ASSUME NEW m \in Managed, LookFlat(m) PROVE RetryInv'
  <2>1. /\ Looking(m) /\ UNCHANGED <<exits, table, local, crashes>> /\ pass' = Dropped(m)
        /\ Closes(m)
    BY <1>5 DEF LookFlat, Closes, Ends, counters
  <2>2. record'[m].status \in Ends /\ \A n \in Managed \ {m} : record'[n] = record[n]
    BY <1>1, <2>1, Closing
  <2> QED
    BY <1>1, <1>2, <1>3, <2>1, <2>2
<1>6. CASE CloseRecord \/ GiveUp
  <2> DEFINE m == pass.cur
  <2>1. /\ m \in pass.left /\ m \in Managed /\ UNCHANGED <<exits, table, local, crashes>>
        /\ pass' = Dropped(m) /\ Closes(m)
    BY <1>1, <1>6 DEF CloseRecord, GiveUp, Sorted, Triggering, Closes, Ends, counters
  <2>2. record'[m].status \in Ends /\ \A n \in Managed \ {m} : record'[n] = record[n]
    BY <1>1, <2>1, Closing
  <2>3. pass' # Kept(m) /\ pass' # Done(m)
    <3>1. Dropped(m).drop # pass.drop
      BY <1>1, <2>1, Kinds DEF Sorted
    <3> QED
      BY <1>1, <2>1, <3>1, Kinds
  <2> QED
    BY <1>2, <2>1, <2>2, <2>3
<1>7. CASE ScheduleRetry
  <2> DEFINE m == pass.cur
  <2>1. /\ m \in pass.left /\ m \in Managed /\ UNCHANGED <<exits, table, record, crashes>>
        /\ pass.at = "failed" /\ pass' = Kept(m)
        /\ local' = [local EXCEPT ![m].failures = Failures, ![m].waiting = TRUE]
    BY <1>1, <1>7 DEF ScheduleRetry, Sorted, Triggering, counters
  <2>2. local[m] \in States
    BY <2>1 DEF TypeInv
  <2>3. local'[m] = [local[m] EXCEPT !.failures = Failures, !.waiting = TRUE]
    BY <1>1, <2>1
  <2>4. local'[m].failures = local[m].failures + 1 /\ \A n \in Managed \ {m} : local'[n] = local[n]
    BY <1>1, <2>1, <2>2, <2>3 DEF States, Failures
  <2>5. Count(m) <= Budget + local'[m].failures
    <3>1. Ordered(m) /\ InHand(m) /\ RetryOf(m) /\ local[m].failures \in Nat
      BY <1>1, <2>1 DEF Ordered, InHand
    <3>2. Count(m) <= Budget + local[m].failures + 1
      BY <3>1 DEF RetryOf
    <3> QED
      BY <1>1, <2>1, <2>4, <3>1, <3>2
  <2>6. pass' # Dropped(m) /\ pass' # Done(m)
    <3>1. Kept(m).keep # pass.keep
      BY <1>1, <2>1, Kinds DEF Sorted
    <3> QED
      BY <1>1, <2>1, <3>1, Kinds
  <2> QED
    BY <1>1, <1>2, <2>1, <2>4, <2>5, <2>6
<1>8. ASSUME NEW m \in Managed, Look(m) PROVE RetryInv'
  <2> DEFINE c == [local[m] EXCEPT !.anchor = AnchorOf(local[m]), !.stop = Trailed(local[m])]
  <2>1. /\ Looking(m) /\ UNCHANGED <<exits, table, crashes>>
        /\ local' = [local EXCEPT ![m] = c] /\ Persist(m, c)
        /\ pass' = Kept(m) \/ pass' = [pass EXCEPT !.at = "hit", !.cur = m]
    BY <1>8 DEF Look, Live, counters
  <2>2. local[m] \in States
    BY <1>3, <2>1 DEF TypeInv
  <2>3. c.failures = local[m].failures
    BY <2>2 DEF States
  <2> HIDE DEF c
  <2>4. local'[m].failures = local[m].failures /\ \A n \in Managed \ {m} : local'[n] = local[n]
    BY <1>1, <2>1, <2>3
  <2>5. record'[m].status = record[m].status /\ \A n \in Managed \ {m} : record'[n] = record[n]
    <3>1. CASE record' = record
      BY <3>1
    <3>2. CASE record' = [record EXCEPT ![m].stop = c.stop, ![m].base = c.base, ![m].anchor = c.anchor]
      <4>1. record'[m] = [record[m] EXCEPT !.stop = c.stop, !.base = c.base, !.anchor = c.anchor]
        BY <1>1, <3>2
      <4> QED
        BY <1>1, <3>2, <4>1 DEF Records
    <3> QED
      BY <2>1, <3>1, <3>2 DEF Persist
  <2>6. CASE pass' = Kept(m)
    <3>1. pass' # Dropped(m) /\ pass' # Done(m)
      <4>1. Kept(m).keep # pass.keep
        BY <1>1, <1>3, <2>1, Kinds DEF Sorted
      <4> QED
        BY <1>1, <2>6, <4>1, Kinds
    <3> QED
      BY <1>1, <1>2, <1>3, <2>1, <2>4, <2>5, <2>6, <3>1
  <2>7. CASE pass' = [pass EXCEPT !.at = "hit", !.cur = m]
    <3>1. /\ pass'.at = "hit" /\ pass'.keep = pass.keep /\ pass'.left = pass.left
          /\ pass'.drop = pass.drop
      BY <1>1, <2>7 DEF Passes
    <3>2. Budget' = Budget /\ \A n \in Managed : Count(n)' = Count(n)
      BY <2>1, CountKept DEF Budget
    <3>3. \A n \in Managed : ~Ordered(n) /\ ~Ordered(n)'
      BY <1>3, <2>1, <3>1 DEF Ordered
    <3>4. \A n \in Managed : local'[n].failures = local[n].failures /\ record'[n].status = record[n].status
      BY <2>4, <2>5
    <3>5. ASSUME NEW n \in Managed PROVE RetryOf(n)'
      BY <1>1, <2>1, <3>1, <3>2, <3>3, <3>4 DEF RetryOf, InHand, Tracked
    <3> QED
      BY <1>1, <2>1, <3>1, <3>5 DEF RetryInv, IdleEmpty
  <2> QED
    BY <2>1, <2>6, <2>7
<1>9. CASE TriggerExit
  <2> DEFINE m == pass.cur
  <2>1. PICK x \in ExitIds : /\ CreateExit(x, m, Abs(pass.net))
                             /\ pass' = [pass EXCEPT !.at = "placing", !.exit = x]
    BY <1>9 DEF TriggerExit
  <2>2. m \in pass.left /\ m \in Managed /\ m \in Sources /\ pass.at = "hit"
        /\ UNCHANGED <<record, table, local, crashes>>
    BY <1>1, <1>9 DEF TriggerExit, Sorted, Triggering, Sources, counters
  <2>3. /\ pass'.at = "placing" /\ pass'.keep = pass.keep /\ pass'.left = pass.left
        /\ pass'.drop = pass.drop /\ pass'.cur = m
    BY <1>1, <2>1 DEF Passes
  <2>4. Budget' = Budget /\ Count(m)' = Count(m) + 1 /\ \A n \in Managed \ {m} : Count(n)' = Count(n)
    BY <2>1, <2>2, CountAdded DEF Budget, Sources
  <2>5. \A n \in Managed : ~Ordered(n) /\ (Ordered(n)' <=> n = m)
    BY <2>2, <2>3 DEF Ordered
  <2>6. ASSUME NEW n \in Managed \ {m} PROVE RetryOf(n)'
    <3>1. RetryOf(n) /\ ~Ordered(n) /\ ~Ordered(n)'
      BY <1>1, <2>5
    <3> QED
      BY <2>2, <2>3, <2>4, <3>1 DEF RetryOf, InHand, Tracked
  <2>7. RetryOf(m)'
    <3>1. RetryOf(m) /\ InHand(m) /\ InHand(m)' /\ Ordered(m)' /\ ~Ordered(m) /\ local[m].failures \in Nat
          /\ local[m].failures < MaxFailures
      BY <1>1, <2>2, <2>3, <2>5 DEF InHand
    <3>2. Count(m) <= Budget + local[m].failures /\ Count(m) \in Nat
      BY <1>1, <2>2, <3>1 DEF RetryOf
    <3>3. Count(m)' <= Budget + local[m].failures + 1 /\ Count(m)' <= Budget + MaxFailures
      BY <1>1, <2>4, <3>1, <3>2
    <3> QED
      BY <2>2, <2>3, <2>4, <3>1, <3>3 DEF RetryOf, Tracked
  <2> QED
    BY <1>1, <2>2, <2>3, <2>6, <2>7 DEF RetryInv, IdleEmpty
<1>10. CASE PlaceExit
  <2>1. /\ pass.at = "placing" /\ UNCHANGED <<record, table, local, crashes>>
        /\ \E a \in {"placed", "failed"} : pass' = [pass EXCEPT !.at = a]
        /\ Placed(pass.exit)
    BY <1>10 DEF PlaceExit, Placed, Accepted, Refused, SessionLost, Sent, counters
  <2>2. /\ pass'.at \in {"placed", "failed"} /\ pass'.keep = pass.keep /\ pass'.left = pass.left
        /\ pass'.drop = pass.drop /\ pass'.cur = pass.cur
    BY <1>1, <2>1 DEF Passes
  <2>3. pass.exit \in ExitIds /\ exits[pass.exit] \in Orders
    BY <2>1 DEF TypeInv, Placing
  <2>4. Budget' = Budget /\ \A n \in Managed : Count(n)' = Count(n)
    <3>1. Touched(pass.exit) /\ Shape
      BY <2>1, <2>3, PlacedOrder DEF TypeInv
    <3> QED
      BY <2>1, <2>3, <3>1, TouchedKeepsOf, CountKept DEF Budget
  <2>5. \A n \in Managed : Ordered(n)' <=> Ordered(n)
    BY <2>1, <2>2 DEF Ordered
  <2>6. ASSUME NEW n \in Managed PROVE RetryOf(n)'
    <3>1. RetryOf(n) /\ (Ordered(n)' <=> Ordered(n))
      BY <1>1, <2>5
    <3> QED
      BY <2>1, <2>2, <2>4, <3>1 DEF RetryOf, InHand, Tracked
  <2> QED
    BY <1>1, <2>1, <2>2, <2>6 DEF RetryInv, IdleEmpty
<1>11. CASE StartPass
  <2>1. pass.at = "idle" /\ local' = table /\ UNCHANGED <<record, exits, table, crashes>>
    BY <1>11 DEF StartPass
  <2>2. pass'.at = "look" /\ pass'.left = {m \in Managed : Tracked(m)} /\ pass'.keep = {} /\ pass'.drop = {}
    BY <1>11 DEF StartPass, NoPass
  <2>3. Budget' = Budget /\ \A n \in Managed : Count(n)' = Count(n)
    BY <2>1, CountKept DEF Budget
  <2>4. ASSUME NEW n \in Managed PROVE RetryOf(n)'
    <3>1. RetryOf(n) /\ ~Ordered(n) /\ ~Ordered(n)' /\ (InHand(n)' <=> Tracked(n))
      BY <1>1, <2>1, <2>2 DEF Ordered, InHand
    <3>2. n \notin pass.keep \union pass.drop
      BY <1>1, <2>1 DEF IdleEmpty, NoPass
    <3> QED
      BY <1>1, <2>1, <2>2, <2>3, <3>1, <3>2 DEF RetryOf, Tracked
  <2> QED
    BY <1>1, <2>1, <2>2, <2>4 DEF RetryInv, IdleEmpty
<1>13. CASE EndPass
  <2>1. /\ pass.at = "look" /\ pass.left = {} /\ pass' = NoPass /\ UNCHANGED <<record, exits, crashes>>
        /\ \A m \in Managed : table'[m] = IF m \in pass.drop \/ ~Tracked(m) THEN Untracked
                                          ELSE IF m \in pass.keep THEN local[m] ELSE table[m]
    BY <1>13 DEF EndPass, Merged, counters
  <2>2. Budget' = Budget /\ \A n \in Managed : Count(n)' = Count(n)
    BY <2>1, CountKept DEF Budget
  <2>3. ASSUME NEW n \in Managed PROVE RetryOf(n)'
    <3>1. RetryOf(n) /\ ~Ordered(n)
      BY <1>1, <2>1 DEF Ordered
    <3>2. ~Ordered(n)' /\ ~InHand(n)' /\ n \notin pass'.keep \union pass'.drop
      BY <2>1 DEF Ordered, InHand, NoPass
    <3>3. CASE n \in pass.drop \/ ~Tracked(n)
      <4>1. ~Tracked(n)'
        BY <2>1, <3>3 DEF Tracked
      <4> QED
        BY <2>1, <2>2, <3>1, <3>2, <3>3, <4>1 DEF RetryOf
    <3>4. CASE Tracked(n) /\ n \notin pass.drop
      <4>1. table'[n] = IF n \in pass.keep THEN local[n] ELSE table[n]
        BY <2>1, <3>4
      <4>2. Count(n) <= Budget + table'[n].failures
        BY <1>1, <3>1, <3>4, <4>1 DEF RetryOf, InHand
      <4>3. record[n].status # "NONE" /\ (Tracked(n)' \/ record[n].status \in Ends \/ Count(n) <= Budget)
        BY <1>1, <3>1, <3>4, <4>1, <4>2 DEF RetryOf, Tracked, Copies, States, Untracked
      <4> QED
        BY <2>1, <2>2, <3>1, <3>2, <3>4, <4>2, <4>3 DEF RetryOf
    <3> QED
      BY <3>3, <3>4
  <2> QED
    BY <1>1, <2>1, <2>3 DEF RetryInv, IdleEmpty
<1> QED
  BY <1>4, <1>5, <1>6, <1>7, <1>8, <1>9, <1>10, <1>11, <1>13 DEF Watch

LEMMA NextRetryInv == TypeInv /\ RetryInv /\ [Next]_vars => RetryInv'
<1> SUFFICES ASSUME TypeInv, RetryInv, [Next]_vars PROVE RetryInv'
  OBVIOUS
<1>1. CASE UNCHANGED vars
  <2>1. UNCHANGED <<record, table, local, pass, crashes, exits>>
    BY <1>1 DEF vars, monitor, counters
  <2> QED
    BY <2>1, CountKept, OtherRetryInv
<1> QED
  BY <1>1, MarketRetryInv, TableRetryInv, WatchRetryInv, CrashRetryInv DEF Next, Broker

(* The count of failures is kept in a copy, merged back, and lost in a     *)
(* crash: all the same a managed exit makes at most MaxFailures orders     *)
(* between two restarts, whatever the dashboard does during a pass.        *)
THEOREM RetriesAreBounded == Spec => []BoundedRetries
<1>1. RetryInv => BoundedRetries
  <2> SUFFICES ASSUME RetryInv, NEW m \in Managed
               PROVE  Cardinality({x \in ExitIds : exits[x].of = m}) <= MaxFailures * (crashes + 1)
    BY DEF BoundedRetries
  <2>1. Count(m) <= Budget + MaxFailures /\ crashes \in Nat
    BY DEF RetryInv, RetryOf
  <2>2. MaxFailures * (crashes + 1) = Budget + MaxFailures
    BY <2>1, ExitAssumption DEF Budget
  <2> QED
    BY <2>1, <2>2 DEF Count, Made
<1> QED
  BY InitTypeInv, NextTypeInv, InitRetryInv, NextRetryInv, <1>1, PTL DEF Spec

-----------------------------------------------------------------------------
(* The stop of a tracked exit, in the table, in the copy and on record;    *)
(* or on record is what the dashboard set last, during a pass.             *)
OnRecord(m, state) ==
  record[m].status = "CREATED" => record[m].stop = state.stop /\ record[m].base = state.base

EditedLate(m) ==
  record[m].status = "CREATED" => record[m].stop \in late[m] /\ record[m].base = record[m].stop

Agreed(m, state) == OnRecord(m, state) \/ EditedLate(m)

(* Those the pass has not settled yet are copied as they were, unless they *)
(* were edited meanwhile.                                                  *)
Settled == pass.keep \union pass.drop \union (IF Triggering THEN {pass.cur} ELSE {})

InPass(m) ==
  IF m \in Settled
  THEN Agreed(m, local[m]) /\ (pass.net > 0 /\ m \notin raced => local[m].stop >= table[m].stop)
  ELSE /\ Agreed(m, table[m])
       /\ IF m \in raced THEN EditedLate(m) ELSE m \in pass.left => local[m] = table[m]

StopOf(m) == Tracked(m) => IF pass.at = "idle" THEN Agreed(m, table[m]) ELSE InPass(m)

StopInv ==
  /\ edits \in Nat /\ late \in [Managed -> SUBSET Int]
  /\ pass.at = "idle" => pass.net = 0 /\ raced = {}
  /\ \A m \in raced : m \in Managed /\ record[m].status # "NONE"
  /\ \A m \in Managed : StopOf(m)

LEMMA InitStopInv == Init => StopInv
BY DEF Init, StopInv, StopOf, NoPass, Tracked

(* What leaves tables and passes alone, or only ends or creates records.   *)
LEMMA OtherStopInv ==
  ASSUME StopInv, UNCHANGED <<table, local, pass, edits, late, raced>>,
         \A m \in Managed : \/ record'[m] = record[m]
                            \/ record[m].status = "NONE" /\ record'[m].status # "NONE" /\ ~Tracked(m)
                            \/ record'[m].status \in Ends
  PROVE  StopInv'
<1>1. \A m \in raced' : m \in Managed /\ record'[m].status # "NONE"
  BY DEF StopInv, Ends
<1>2. Settled' = Settled
  BY DEF Settled, Triggering
<1>3. ASSUME NEW m \in Managed PROVE StopOf(m)'
  BY <1>2 DEF StopInv, StopOf, InPass, Agreed, OnRecord, EditedLate, Tracked, Ends
<1> QED
  BY <1>1, <1>3 DEF StopInv

(* The dashboard, and the watcher between two passes.                      *)
LEMMA TableStopInv ==
  ASSUME TypeInv, RetryInv, StopInv,
         \/ \E m \in Managed : Register(m) \/ BackoffEnds(m) \/ Remove(m) \/ Withdraw(m)
         \/ \E m \in Managed : \E s \in Stops : Create(m, s) \/ Enable(m, s) \/ Update(m, s)
         \/ Crash
  PROVE  StopInv'
<1>1. /\ record \in [Managed -> Records] /\ table \in [Managed -> Copies]
      /\ local \in [Managed -> Copies] /\ pass \in Passes /\ Sorted
      /\ edits \in Nat /\ late \in [Managed -> SUBSET Int] /\ raced \subseteq Managed
      /\ \A m \in Managed : RetryOf(m)
  BY DEF TypeInv, Shape, RetryInv, StopInv
<1>2. ASSUME UNCHANGED <<local, pass>>, edits' \in Nat, late' \in [Managed -> SUBSET Int],
             NEW m \in Managed,
             \A n \in Managed \ {m} : /\ table'[n] = table[n] /\ record'[n] = record[n]
                                      /\ late'[n] = late[n] /\ (n \in raced' <=> n \in raced),
             raced' \subseteq Managed, pass.at = "idle" => raced' = {},
             m \in raced' => record'[m].status # "NONE",
             StopOf(m)'
      PROVE  StopInv'
  <2>1. Settled' = Settled
    BY <1>2 DEF Settled, Triggering
  <2>2. ASSUME NEW n \in Managed \ {m} PROVE StopOf(n)'
    BY <1>2, <2>1 DEF StopInv, StopOf, InPass, Agreed, OnRecord, EditedLate, Tracked
  <2>3. \A n \in raced' : n \in Managed /\ record'[n].status # "NONE"
    BY <1>2 DEF StopInv
  <2> QED
    BY <1>2, <2>2, <2>3 DEF StopInv
(* A record that is tracked anew was not in the pass.                      *)
<1>3. ASSUME NEW m \in Managed, NEW r \in Records, r.status = "CREATED", Registered(m, r),
             UNCHANGED <<local, pass, counters>>, pass.at = "idle" \/ record[m].status = "NONE"
      PROVE  StopInv'
  <2>1. PICK a \in Anchors(r) :
          /\ table' = [table EXCEPT ![m] = [stop |-> r.stop, base |-> r.base, anchor |-> a,
                                            failures |-> 0, waiting |-> FALSE]]
          /\ record' = [record EXCEPT ![m] = [r EXCEPT !.anchor = a]]
    BY <1>3 DEF Registered
  <2>2. /\ table'[m].stop = r.stop /\ table'[m].base = r.base
        /\ record'[m] = [r EXCEPT !.anchor = a]
        /\ \A n \in Managed \ {m} : table'[n] = table[n] /\ record'[n] = record[n]
    BY <1>1, <2>1
  <2>3. record'[m].stop = r.stop /\ record'[m].base = r.base /\ record'[m].status = "CREATED"
    BY <1>3, <2>2 DEF Records
  <2>4. Agreed(m, table[m])'
    BY <2>2, <2>3 DEF Agreed, OnRecord
  <2>5. pass.at # "idle" => m \notin Settled /\ m \notin pass.left /\ m \notin raced
    BY <1>1, <1>3 DEF Settled, Sorted, RetryOf, InHand, StopInv, Ends
  <2>6. StopOf(m)'
    BY <1>3, <2>4, <2>5 DEF StopOf, InPass, Settled, Triggering, counters
  <2> QED
    BY <1>1, <1>2, <1>3, <2>2, <2>3, <2>6 DEF StopInv, counters
<1>4. ASSUME NEW m \in Managed, Register(m) PROVE StopInv'
  <2>1. record[m] \in Records /\ record[m].status = "CREATED"
    BY <1>1, <1>4 DEF Register
  <2> QED
    BY <1>3, <1>4, <2>1 DEF Register, monitor
<1>5. ASSUME NEW m \in Managed, NEW s \in Stops, Enable(m, s) PROVE StopInv'
  <2>1. NewRecord(s) \in Records /\ NewRecord(s).status = "CREATED" /\ record[m].status = "NONE"
    BY <1>5, ExitAssumption DEF NewRecord, Records, Levels, Enable, NoRecord
  <2> QED
    BY <1>3, <1>5, <2>1 DEF Enable, monitor
<1>6. ASSUME NEW m \in Managed, NEW s \in Stops, Create(m, s) PROVE StopInv'
  <2>1. record[m].status = "NONE" /\ record'[m].status # "NONE"
    BY <1>1, <1>6 DEF Create, NoRecord, NewRecord
  <2>2. ~Tracked(m)
    BY <1>1, <2>1 DEF RetryOf
  <2> QED
    BY <1>1, <1>6, <2>1, <2>2, OtherStopInv DEF Create, monitor, counters
<1>7. ASSUME NEW m \in Managed, Withdraw(m) PROVE StopInv'
  <2>1. Closes(m)
    BY <1>7 DEF Withdraw, Closes, Ends
  <2> QED
    BY <1>1, <1>7, <2>1, Closing, OtherStopInv DEF Withdraw, monitor, counters
<1>8. ASSUME NEW m \in Managed, BackoffEnds(m) PROVE StopInv'
  <2>1. table[m] \in States /\ Tracked(m) /\ pass.at = "idle"
    BY <1>1, <1>8 DEF BackoffEnds, Copies, Untracked, Tracked
  <2>2. table'[m] = [table[m] EXCEPT !.waiting = FALSE]
    BY <1>1, <1>8 DEF BackoffEnds
  <2>3. table'[m].stop = table[m].stop /\ table'[m].base = table[m].base
    BY <2>1, <2>2 DEF States
  <2>4. UNCHANGED <<local, pass, edits, late, raced, record>>
        /\ \A n \in Managed \ {m} : table'[n] = table[n]
    BY <1>1, <1>8 DEF BackoffEnds, monitor, counters
  <2>5. StopOf(m)'
    <3>1. Agreed(m, table[m])
      BY <2>1 DEF StopInv, StopOf
    <3> QED
      BY <2>1, <2>3, <2>4, <3>1 DEF StopOf, Agreed, OnRecord, EditedLate
  <2> QED
    BY <1>1, <1>2, <2>1, <2>4, <2>5 DEF StopInv
<1>9. ASSUME NEW m \in Managed, NEW s \in Stops, Update(m, s) PROVE StopInv'
  <2>1. table[m] \in States /\ record[m] \in Records /\ record[m].status # "NONE" /\ s \in Int
    BY <1>1, <1>9, ExitAssumption DEF Update, Copies, Tracked, RetryOf
  <2>2. /\ table'[m] = [table[m] EXCEPT !.stop = s, !.base = s]
        /\ record'[m] = [record[m] EXCEPT !.stop = s, !.base = s, !.anchor = table[m].anchor]
        /\ late'[m] = IF pass.at = "idle" THEN {} ELSE {s}
        /\ late' \in [Managed -> SUBSET Int]
        /\ raced' = IF pass.at = "idle" THEN {} ELSE raced \union {m}
        /\ \A n \in Managed \ {m} : table'[n] = table[n] /\ record'[n] = record[n] /\ late'[n] = late[n]
        /\ UNCHANGED <<local, pass>> /\ edits' = edits + 1
    BY <1>1, <1>9, <2>1 DEF Update, monitor
  <2>3. table'[m].stop = s /\ table'[m].base = s
    BY <2>1, <2>2 DEF States
  <2>4. record'[m].stop = s /\ record'[m].base = s /\ record'[m].status = record[m].status
    BY <2>1, <2>2 DEF Records
  <2>5. Agreed(m, table[m])' /\ (pass.at # "idle" => EditedLate(m)' /\ m \in raced')
    BY <2>2, <2>3, <2>4 DEF Agreed, OnRecord, EditedLate
  <2>6. StopOf(m)'
    BY <2>2, <2>5 DEF StopOf, InPass, Agreed
  <2>7. \A n \in Managed \ {m} : n \in raced' <=> n \in raced
    BY <2>2 DEF StopInv
  <2>8. edits' \in Nat /\ raced' \subseteq Managed /\ (pass.at = "idle" => raced' = {})
    BY <1>1, <2>2
  <2> QED
    BY <1>2, <2>1, <2>2, <2>4, <2>6, <2>7, <2>8
<1>10. ASSUME NEW m \in Managed, Remove(m) PROVE StopInv'
  <2>1. ~Tracked(m)' /\ Closes(m) /\ UNCHANGED <<local, pass, edits, late, raced>>
        /\ \A n \in Managed \ {m} : table'[n] = table[n]
    BY <1>1, <1>10 DEF Remove, Tracked, Closes, Ends, monitor, counters
  <2>2. record'[m].status # "NONE" /\ \A n \in Managed \ {m} : record'[n] = record[n]
    BY <1>1, <2>1, Closing DEF Ends
  <2> QED
    BY <1>1, <1>2, <2>1, <2>2 DEF StopOf, StopInv
<1>11. CASE Crash
  <2>1. \A m \in Managed : ~Tracked(m)'
    BY <1>11 DEF Crash, Tracked
  <2>2. /\ edits' = edits /\ late' \in [Managed -> SUBSET Int] /\ raced' = {} /\ pass'.net = 0
    BY <1>11 DEF Crash, NoPass
  <2> QED
    BY <1>1, <2>1, <2>2 DEF StopInv, StopOf
<1> QED
  BY <1>4, <1>5, <1>6, <1>7, <1>8, <1>9, <1>10, <1>11

(* The monitor's pass works on its copy; the merge only moves stops up.    *)
LEMMA WatchStopInv ==
  ASSUME TypeInv, RetryInv, StopInv, Watch
  PROVE  StopInv'
<1>1. /\ record \in [Managed -> Records] /\ table \in [Managed -> Copies]
      /\ local \in [Managed -> Copies] /\ pass \in Passes /\ Sorted /\ pass.left \subseteq Managed
      /\ edits \in Nat /\ late \in [Managed -> SUBSET Int] /\ raced \subseteq Managed
      /\ \A m \in Managed : RetryOf(m)
  BY DEF TypeInv, Shape, Passes, RetryInv, StopInv
(* What is left and not raced is a copy of the table, and what is raced is *)
(* on record as the dashboard set it; so the copy agrees with the record.  *)
<1>2. ASSUME NEW m \in pass.left, m \notin Settled, Tracked(m), pass.at # "idle"
      PROVE  /\ Agreed(m, local[m]) /\ (m \in raced => EditedLate(m))
             /\ m \notin raced => local[m] = table[m] /\ table[m].stop \in Int
  <2>1. InPass(m)
    BY <1>1, <1>2 DEF StopInv, StopOf
  <2>2. table[m].stop \in Int
    BY <1>1, <1>2 DEF Copies, States, Tracked
  <2> QED
    BY <1>2, <2>1, <2>2 DEF InPass, Agreed
(* One managed exit is settled or left for the next pass.                  *)
<1>3. ASSUME NEW m \in pass.left, pass.at # "idle", UNCHANGED <<table, edits, late, raced>>,
             pass'.at # "idle", pass'.net = pass.net, pass'.left \subseteq pass.left,
             \A n \in Managed \ {m} : n \in Settled' <=> n \in Settled,
             \A n \in Managed \ {m} : local'[n] = local[n] /\ record'[n] = record[n],
             record'[m].status # "NONE",
             Tracked(m) => InPass(m)'
      PROVE  StopInv'
  <2>1. ASSUME NEW n \in Managed \ {m} PROVE StopOf(n)'
    <3>1. Tracked(n) => InPass(n)
      BY <1>3 DEF StopInv, StopOf
    <3> QED
      BY <1>3, <3>1 DEF StopOf, InPass, Agreed, OnRecord, EditedLate, Tracked
  <2>2. StopOf(m)'
    BY <1>3 DEF StopOf, Tracked
  <2>3. \A n \in raced' : n \in Managed /\ record'[n].status # "NONE"
    BY <1>1, <1>3 DEF StopInv
  <2> QED
    BY <1>1, <1>3, <2>1, <2>2, <2>3 DEF StopInv
<1>4. ASSUME NEW m \in pass.left, pass.at # "idle", Triggering => m = pass.cur,
             pass' \in {Done(m), Kept(m), Dropped(m)}
      PROVE  /\ pass'.at # "idle" /\ pass'.net = pass.net /\ pass'.left \subseteq pass.left
             /\ \A n \in Managed \ {m} : n \in Settled' <=> n \in Settled
             /\ m \notin pass'.left /\ (m \in Settled' <=> pass' \in {Kept(m), Dropped(m)})
  <2>1. /\ pass'.at = "look" /\ pass'.net = pass.net /\ pass'.left = pass.left \ {m}
        /\ m \notin pass.keep /\ m \notin pass.drop
    BY <1>1, <1>4, Kinds DEF Sorted
  <2>2. Settled' = pass'.keep \union pass'.drop
    BY <2>1 DEF Settled, Triggering
  <2>3. \/ pass' = Done(m) /\ Settled' = pass.keep \union pass.drop
        \/ pass' \in {Kept(m), Dropped(m)} /\ Settled' = pass.keep \union pass.drop \union {m}
    BY <1>1, <1>4, <2>2, Kinds
  <2>4. Done(m) \notin {Kept(m), Dropped(m)}
    BY <1>1, <1>4, <2>1, Kinds
  <2> QED
    BY <1>4, <2>1, <2>3, <2>4 DEF Settled
<1>5. ASSUME NEW m \in Managed, LookClosed(m) \/ LookDeferred(m) PROVE StopInv'
  <2>1. /\ m \in pass.left /\ pass.at = "look" /\ ~Triggering
        /\ UNCHANGED <<table, local, record, edits, late, raced>>
        /\ pass' \in {Done(m), Kept(m), Dropped(m)}
    BY <1>5 DEF LookClosed, LookDeferred, Live, Looking, Triggering, counters
  <2>2. m \notin Settled /\ record[m].status # "NONE"
    BY <1>1, <2>1 DEF Settled, Sorted, RetryOf, InHand
  <2>3. ASSUME Tracked(m) PROVE InPass(m)'
    <3>1. Agreed(m, local[m])' /\ Agreed(m, table[m])' /\ (m \in raced => EditedLate(m)')
          /\ (m \notin raced => local[m].stop >= table[m].stop)
      <4>1. Agreed(m, local[m]) /\ (m \in raced => EditedLate(m))
            /\ (m \notin raced => local[m] = table[m] /\ table[m].stop \in Int)
        BY <1>2, <2>1, <2>2, <2>3
      <4> QED
        BY <2>1, <4>1 DEF Agreed, OnRecord, EditedLate
    <3> QED
      BY <1>4, <2>1, <3>1 DEF InPass
  <2> QED
    BY <1>3, <1>4, <2>1, <2>2, <2>3
<1>6. ASSUME NEW m \in pass.left, pass.at # "idle", Triggering => m = pass.cur, Closes(m),
             pass' = Dropped(m), UNCHANGED <<table, local, edits, late, raced>>,
             Tracked(m) /\ pass.net > 0 /\ m \notin raced => local[m].stop >= table[m].stop
      PROVE  StopInv'
  <2>1. record'[m].status \in Ends /\ \A n \in Managed \ {m} : record'[n] = record[n]
    BY <1>1, <1>6, Closing
  <2>2. Tracked(m) => InPass(m)'
    BY <1>4, <1>6, <2>1 DEF InPass, Agreed, OnRecord, Ends
  <2> QED
    BY <1>3, <1>4, <1>6, <2>1, <2>2 DEF Ends
<1>7. ASSUME NEW m \in Managed, LookFlat(m) PROVE StopInv'
  <2>1. /\ m \in pass.left /\ pass.at = "look" /\ ~Triggering /\ pass.net = 0
        /\ UNCHANGED <<table, local, edits, late, raced>>
        /\ pass' = Dropped(m) /\ Closes(m)
    BY <1>7 DEF LookFlat, Looking, Triggering, Closes, Ends, counters
  <2> QED
    BY <1>6, <2>1
<1>8. CASE CloseRecord \/ GiveUp
  <2> DEFINE m == pass.cur
  <2>1. /\ m \in pass.left /\ Triggering /\ pass.at # "idle" /\ UNCHANGED <<table, local, edits, late, raced>>
        /\ pass' = Dropped(m) /\ Closes(m)
    BY <1>1, <1>8 DEF CloseRecord, GiveUp, Sorted, Triggering, Closes, Ends, counters
  <2>2. Tracked(m) => InPass(m) /\ m \in Settled
    BY <1>1, <2>1 DEF StopInv, StopOf, Settled
  <2> QED
    BY <1>6, <2>1, <2>2 DEF InPass
<1>9. CASE ScheduleRetry
  <2>9. PICK m \in Managed : m = pass.cur /\ m \in pass.left
    BY <1>1, <1>9 DEF ScheduleRetry, Sorted, Triggering
  <2>1. /\ m \in pass.left /\ m \in Managed /\ Triggering /\ m = pass.cur /\ pass.at # "idle"
        /\ UNCHANGED <<table, record, edits, late, raced>> /\ pass' = Kept(m)
        /\ local' = [local EXCEPT ![m].failures = Failures, ![m].waiting = TRUE]
    BY <1>1, <1>9, <2>9 DEF ScheduleRetry, Triggering, market, counters
  <2>2. Tracked(m) => InPass(m) /\ m \in Settled
    BY <1>1, <2>1 DEF StopInv, StopOf, Settled
  <2>3. local[m] \in States
    BY <2>1 DEF TypeInv
  <2>4. local'[m] = [local[m] EXCEPT !.failures = Failures, !.waiting = TRUE]
        /\ \A n \in Managed \ {m} : local'[n] = local[n]
    BY <1>1, <2>1
  <2>5. local'[m].stop = local[m].stop /\ local'[m].base = local[m].base
    BY <2>3, <2>4 DEF States
  <2>8. m \in Settled' /\ pass'.at # "idle" /\ pass'.net = pass.net /\ pass'.left \subseteq pass.left
        /\ \A n \in Managed \ {m} : n \in Settled' <=> n \in Settled
    BY <1>4, <2>1
  <2>6. Tracked(m) => InPass(m)'
    BY <2>1, <2>2, <2>5, <2>8 DEF InPass, Agreed, OnRecord, EditedLate
  <2>7. record'[m].status # "NONE"
    BY <1>1, <2>1 DEF RetryOf, InHand
  <2> QED
    BY <1>3, <2>1, <2>4, <2>6, <2>7, <2>8
<1>10. ASSUME NEW m \in Managed, Look(m) PROVE StopInv'
  <2> DEFINE c == [local[m] EXCEPT !.anchor = AnchorOf(local[m]), !.stop = Trailed(local[m])]
  <2>1. /\ m \in pass.left /\ pass.at = "look" /\ ~Triggering /\ UNCHANGED <<table, edits, late, raced>>
        /\ local' = [local EXCEPT ![m] = c] /\ Persist(m, c)
        /\ pass' = Kept(m) \/ pass' = [pass EXCEPT !.at = "hit", !.cur = m]
    BY <1>10 DEF Look, Live, Looking, Triggering, counters
  <2>2. local[m] \in States
    BY <2>1 DEF TypeInv
  <2>3. Trailed(local[m]) \in Int /\ (Long => Trailed(local[m]) >= local[m].stop) /\ local[m].stop \in Int
    BY <1>1, <2>2, TrailedStop DEF States
  <2>4. c.stop = Trailed(local[m]) /\ c.base = local[m].base
    BY <2>2 DEF States
  <2> HIDE DEF c
  <2>5. local'[m] = c /\ \A n \in Managed \ {m} : local'[n] = local[n]
    BY <1>1, <2>1
  <2>6. m \notin Settled /\ record[m].status # "NONE"
    BY <1>1, <2>1 DEF Settled, Sorted, RetryOf, InHand
  <2>7. /\ \A n \in Managed \ {m} : record'[n] = record[n]
        /\ record'[m].status = record[m].status
        /\ Tracked(m) => Agreed(m, local[m])'
    <3>1. CASE c.stop = local[m].stop
      <4>1. record' = record
        BY <2>1, <3>1 DEF Persist
      <4>2. Tracked(m) => Agreed(m, local[m])
        BY <1>2, <2>1, <2>6
      <4> QED
        BY <2>1, <2>4, <2>5, <3>1, <4>1, <4>2 DEF Agreed, OnRecord, EditedLate
    <3>2. CASE c.stop # local[m].stop
      <4>1. record'[m] = [record[m] EXCEPT !.stop = c.stop, !.base = c.base, !.anchor = c.anchor]
        BY <1>1, <2>1, <3>2 DEF Persist
      <4>2. /\ record'[m].stop = c.stop /\ record'[m].base = c.base
            /\ record'[m].status = record[m].status
        BY <1>1, <4>1 DEF Records
      <4>3. \A n \in Managed \ {m} : record'[n] = record[n]
        BY <1>1, <2>1, <3>2 DEF Persist
      <4> QED
        BY <2>5, <4>2, <4>3 DEF Agreed, OnRecord
    <3> QED
      BY <3>1, <3>2
  <2>8. Tracked(m) /\ pass.net > 0 /\ m \notin raced => local'[m].stop >= table[m].stop
    <3>1. SUFFICES ASSUME Tracked(m), pass.net > 0, m \notin raced PROVE local'[m].stop >= table[m].stop
      OBVIOUS
    <3>2. local[m] = table[m]
      BY <1>2, <2>1, <2>6, <3>1
    <3> QED
      BY <2>3, <2>4, <2>5, <3>1, <3>2 DEF Long
  <2>9. CASE pass' = Kept(m)
    <3>1. Tracked(m) => InPass(m)'
      BY <1>4, <2>1, <2>7, <2>8, <2>9 DEF InPass
    <3> QED
      BY <1>3, <1>4, <2>1, <2>5, <2>6, <2>7, <2>9, <3>1
  <2>10. CASE pass' = [pass EXCEPT !.at = "hit", !.cur = m]
    <3>1. /\ pass'.at = "hit" /\ pass'.cur = m /\ pass'.keep = pass.keep
          /\ pass'.drop = pass.drop /\ pass'.net = pass.net /\ pass'.left = pass.left
      BY <1>1, <2>10 DEF Passes
    <3>2. Settled' = Settled \union {m}
      BY <2>1, <3>1 DEF Settled, Triggering
    <3>3. Tracked(m) => InPass(m)'
      BY <2>1, <2>7, <2>8, <3>1, <3>2 DEF InPass
    <3> QED
      BY <1>3, <2>1, <2>5, <2>6, <2>7, <3>1, <3>2, <3>3
  <2> QED
    BY <2>1, <2>9, <2>10
<1>11. CASE TriggerExit \/ PlaceExit
  <2>1. Triggering /\ UNCHANGED <<record, table, local, edits, late, raced>>
    BY <1>11 DEF TriggerExit, PlaceExit, Triggering, counters, Accepted, Refused, SessionLost, Sent
  <2>2. \/ \E x \in ExitIds : pass' = [pass EXCEPT !.at = "placing", !.exit = x]
        \/ \E a \in {"placed", "failed"} : pass' = [pass EXCEPT !.at = a]
    BY <1>11 DEF TriggerExit, PlaceExit
  <2>3. /\ pass'.at \in {"placing", "placed", "failed"} /\ pass'.cur = pass.cur /\ pass'.left = pass.left
        /\ pass'.keep = pass.keep /\ pass'.drop = pass.drop /\ pass'.net = pass.net
    BY <1>1, <2>2 DEF Passes
  <2>4. Settled' = Settled /\ pass.at # "idle"
    BY <2>1, <2>3 DEF Settled, Triggering
  <2> QED
    BY <2>1, <2>3, <2>4 DEF StopInv, StopOf, InPass, Agreed, OnRecord, EditedLate, Tracked
<1>12. CASE StartPass
  <2>1. /\ pass'.at = "look" /\ pass.at = "idle" /\ local' = table /\ raced = {}
        /\ pass'.keep = {} /\ pass'.drop = {}
        /\ UNCHANGED <<table, record, edits, late, raced>>
    BY <1>12 DEF StartPass, NoPass, StopInv
  <2>2. Settled' = {}
    BY <2>1 DEF Settled, Triggering
  <2>3. ASSUME NEW m \in Managed PROVE StopOf(m)'
    <3>1. Tracked(m) => Agreed(m, table[m])
      BY <2>1 DEF StopInv, StopOf
    <3> QED
      BY <2>1, <2>2, <3>1 DEF StopOf, InPass, Agreed, OnRecord, EditedLate, Tracked
  <2> QED
    BY <2>1, <2>3 DEF StopInv
<1>13. CASE EndPass
  <2>1. /\ pass.at = "look" /\ ~Triggering /\ UNCHANGED <<record, edits, late>>
        /\ pass'.at = "idle" /\ pass'.net = 0 /\ raced' = {}
        /\ \A m \in Managed : table'[m] = IF m \in pass.drop \/ ~Tracked(m) THEN Untracked
                                          ELSE IF m \in pass.keep THEN local[m] ELSE table[m]
    BY <1>13 DEF EndPass, Triggering, NoPass, Merged
  <2>2. ASSUME NEW m \in Managed, Tracked(m)' PROVE Agreed(m, table[m])'
    <3>1. m \notin pass.drop /\ Tracked(m)
      BY <2>1, <2>2 DEF Tracked
    <3>2. InPass(m) /\ (m \in Settled <=> m \in pass.keep)
      BY <2>1, <3>1 DEF StopInv, StopOf, Settled
    <3>3. Agreed(m, IF m \in pass.keep THEN local[m] ELSE table[m])
      BY <3>2 DEF InPass
    <3>4. table'[m] = IF m \in pass.keep THEN local[m] ELSE table[m]
      BY <2>1, <3>1
    <3> QED
      BY <2>1, <3>3, <3>4 DEF Agreed, OnRecord, EditedLate
  <2> QED
    BY <2>1, <2>2 DEF StopInv, StopOf
<1> QED
  BY <1>5, <1>7, <1>8, <1>9, <1>10, <1>11, <1>12, <1>13 DEF Watch

LEMMA NextStopInv == TypeInv /\ RetryInv /\ StopInv /\ [Next]_vars => StopInv'
<1> SUFFICES ASSUME TypeInv, RetryInv, StopInv, [Next]_vars PROVE StopInv'
  OBVIOUS
<1>1. CASE UNCHANGED vars
  BY <1>1, OtherStopInv DEF vars, monitor, counters
<1>2. CASE \/ PriceMoves \/ SquaredOff
           \/ \E x \in ExitIds : Broker(x)
           \/ \E r \in Requesters : ReadPositions(r) \/ CheckRecent(r) \/ RegisterExit(r)
  <2>1. UNCHANGED <<record, table, local, pass, edits, late, raced>>
    BY <1>2 DEF PriceMoves, SquaredOff, Broker, Fill, Reject, FillStray, RejectStray, Reconcile, Dispatch,
                Accepted, Refused, SessionLost, Sent, ReadPositions, CheckRecent, RegisterExit, monitor, counters
  <2> QED
    BY <2>1, OtherStopInv
<1> QED
  BY <1>1, <1>2, TableStopInv, WatchStopInv DEF Next, Broker

(* Between two passes the database has the stop of the table, so that a    *)
(* restart resumes from it, or the one the dashboard set last, during a    *)
(* pass, however passes, retries, edits and restarts interleave.           *)
THEOREM StopIsPersisted == Spec => []StopPersisted
<1>1. StopInv => StopPersisted
  BY DEF StopInv, StopOf, StopPersisted, Agreed, OnRecord, EditedLate
<1> QED
  BY InitTypeInv, NextTypeInv, InitRetryInv, NextRetryInv, InitStopInv, NextStopInv, <1>1, PTL DEF Spec

(* No pass, retry, merge or restart moves the stop of a long position      *)
(* down, but for the merge over a stop that was edited during the pass.    *)
THEOREM StopRatchets == Spec => StopNeverLoosens
<1> DEFINE Ratchet == \A m \in Managed :
      Tracked(m) /\ Tracked(m)' /\ pass.net > 0 /\ edits' = edits /\ m \notin raced =>
        table'[m].stop >= table[m].stop
<1>1. TypeInv /\ RetryInv /\ StopInv /\ [Next]_vars => [Ratchet]_vars
  <2> SUFFICES ASSUME TypeInv, RetryInv, StopInv, Next,
                      NEW m \in Managed, Tracked(m), Tracked(m)', pass.net > 0, edits' = edits, m \notin raced
               PROVE  table'[m].stop >= table[m].stop
    OBVIOUS
  <2>1. table[m].stop \in Int /\ table \in [Managed -> Copies]
    BY DEF TypeInv, Shape, Copies, States, Tracked
  <2>2. pass.at # "idle" /\ InPass(m) /\ record[m].status # "NONE" /\ edits \in Nat
    BY DEF StopInv, StopOf, RetryInv, RetryOf
  <2>3. ~Crash
    BY DEF Crash, Tracked
  <2>4. CASE EndPass
    <3>1. table'[m] = IF m \in pass.keep THEN local[m] ELSE table[m]
      BY <2>4 DEF EndPass, Merged, Tracked
    <3> QED
      BY <2>1, <2>2, <3>1 DEF InPass, Settled
  <2>5. CASE Watch /\ ~EndPass
    <3>1. UNCHANGED table
      BY <2>2, <2>5 DEF Watch, StartPass, TriggerExit, PlaceExit, CloseRecord, GiveUp, ScheduleRetry,
                        LookClosed, LookFlat, LookDeferred, Look
    <3> QED
      BY <2>1, <3>1
  <2>6. CASE ~Watch
    <3>1. ASSUME NEW n \in Managed, NEW s \in Stops, Enable(n, s) PROVE table'[m] = table[m]
      BY <2>1, <2>2, <3>1 DEF Enable, Registered, NoRecord
    <3>2. ASSUME NEW n \in Managed, Remove(n) PROVE table'[m] = table[m]
      BY <2>1, <3>2 DEF Remove, Tracked
    <3>3. \A n \in Managed : \A s \in Stops : ~Update(n, s)
      BY <2>2 DEF Update
    <3>4. table'[m] = table[m]
      BY <2>2, <2>3, <2>6, <3>1, <3>2, <3>3
         DEF Next, PriceMoves, SquaredOff, Fill, Reject, FillStray, RejectStray, Reconcile, Dispatch,
             ReadPositions, CheckRecent, RegisterExit, Register, BackoffEnds, Withdraw, Create
    <3> QED
      BY <2>1, <3>4
  <2> QED
    BY <2>4, <2>5, <2>6
<1> QED
  BY InitTypeInv, NextTypeInv, InitRetryInv, NextRetryInv, InitStopInv, NextStopInv, <1>1, PTL
     DEF Spec, StopNeverLoosens

-----------------------------------------------------------------------------
(* What one source can sell.  No trouble so far, and no other source has   *)
(* made an order:                                                          *)
Quiet == byHand + losses + crashes + extra = 0

Only(s) == \A x \in ExitIds : exits[x].of \in {s, "none"}

(* An order that may still be filled. *)
Out(x) == exits[x].status \in {"CREATED", "SENT"}

(* The source may still make an order. *)
OpenExit(m) ==
  /\ ~(pass.at = "placed" /\ pass.cur = m)
  /\ record[m].status \notin Ends \/ m \in pass.left \/ (Tracked(m) /\ m \notin pass.drop)

Open(s) == (s \in Managed /\ OpenExit(s)) \/ (s \in Requesters /\ request[s].at # "done")

(* As long as it may, nothing was sold and what its pass or its call read  *)
(* is the position still; when it may not, one order at most is out, over  *)
(* no more than the position.                                              *)
Untouched ==
  /\ net = Qty
  /\ \A x \in ExitIds : Out(x) => pass.at = "placing" /\ pass.exit = x
  /\ pass.at # "idle" => pass.net \in {Qty, 0}

SaleOf(s) ==
  /\ net >= 0
  /\ \A x, y \in ExitIds : Out(x) /\ Out(y) => x = y
  /\ \A x \in ExitIds : Out(x) => exits[x].qty <= net
  /\ pass.at = "placing" => pass.cur = s /\ exits[pass.exit].status = "CREATED"
  /\ Open(s) => Untouched
  /\ s \in Requesters /\ request[s].at \in {"read", "checked"} => request[s].net = Qty

NoneYet == \A x \in ExitIds : exits[x] = NoExit

NoStrays == \A x \in ExitIds : exits[x].strays = 0

SaleInv ==
  /\ byHand \in Nat /\ losses \in Nat /\ crashes \in Nat /\ extra \in Nat
  /\ Quiet => NoStrays /\ (NoneYet => net = Qty) /\ \A s \in Sources : Only(s) => SaleOf(s)

LEMMA InitSaleInv == Init => SaleInv
<1> SUFFICES ASSUME Init PROVE SaleInv
  OBVIOUS
<1>1. \A x \in ExitIds : ~Out(x)
  BY DEF Init, Out, NoExit
<1>2. ASSUME NEW s \in Sources PROVE SaleOf(s)
  BY <1>1, ExitAssumption DEF Init, SaleOf, Untouched, NoPass
<1> QED
  BY <1>2 DEF Init, SaleInv, NoStrays, NoExit

(* A record that was closed stays so, and with it the managed exit.        *)
LEMMA OpenFalls ==
  ASSUME TypeInv, RetryInv, Next, ~Crash, NEW s \in Sources, Open(s)'
  PROVE  Open(s)
<1>1. /\ record \in [Managed -> Records] /\ table \in [Managed -> Copies] /\ pass \in Passes /\ Sorted
      /\ request \in [Requesters -> Requests] /\ pass.left \subseteq Managed /\ IdleEmpty
      /\ Managed \intersect Requesters = {}
  BY ExitAssumption DEF TypeInv, Shape, Passes, RetryInv
<1>2. CASE s \in Requesters
  <2>1. request'[s].at # "done"
    BY <1>1, <1>2 DEF Open
  <2>2. request[s].at # "done"
    BY <1>1, <1>2, <2>1
       DEF Next, Watch, StartPass, TriggerExit, PlaceExit, CloseRecord, GiveUp, ScheduleRetry, EndPass,
           LookClosed, LookFlat, LookDeferred, Look, Register, BackoffEnds, Remove, Withdraw, Create, Enable,
           Update, Fill, Reject, FillStray, RejectStray, Reconcile, Dispatch, ReadPositions, CheckRecent, RegisterExit, Answered,
           PriceMoves, SquaredOff
  <2> QED
    BY <1>2, <2>2 DEF Open
<1>3. CASE s \in Managed
  <2>1. OpenExit(s)'
    BY <1>1, <1>3 DEF Open
  <2>2. SUFFICES ASSUME ~OpenExit(s) PROVE FALSE
    BY <1>3 DEF Open
  <2>3. RetryOf(s) /\ (s \in pass.left => record[s].status # "NONE")
    BY <1>3 DEF RetryInv, RetryOf, InHand
  <2> DEFINE Over == record[s].status \in Ends /\ s \notin pass.left /\ (~Tracked(s) \/ s \in pass.drop)
  <2>4. (pass.at = "placed" /\ pass.cur = s) \/ Over
    BY <2>2 DEF OpenExit
  <2>5. CASE ~Watch
    <3>0. UNCHANGED pass
      BY <2>5 DEF Next, Register, BackoffEnds, Remove, Withdraw, Create, Enable, Update, Fill, Reject,
                  FillStray, RejectStray, Reconcile, Dispatch, ReadPositions, CheckRecent, RegisterExit, PriceMoves, SquaredOff, monitor
    <3>1. CASE pass.at = "placed" /\ pass.cur = s
      BY <2>1, <3>0, <3>1 DEF OpenExit
    <3>2. CASE Over /\ UNCHANGED <<record, table>>
      BY <2>1, <2>2, <3>0, <3>2 DEF OpenExit, Tracked
    <3>3. ASSUME NEW m \in Managed, Over,
                 \A n \in Managed \ {m} : table'[n] = table[n] /\ record'[n] = record[n],
                 m = s => record'[m].status \in Ends /\ (~Tracked(m)' \/ s \in pass.drop)
          PROVE  FALSE
      BY <1>3, <2>1, <2>2, <3>0, <3>3 DEF OpenExit, Tracked
    <3>4. ASSUME NEW m \in Managed, NEW r, Registered(m, r), record[m].status \notin Ends, Over PROVE FALSE
      <4>1. m # s /\ \A n \in Managed \ {m} : table'[n] = table[n] /\ record'[n] = record[n]
        BY <1>1, <3>4 DEF Registered
      <4> QED
        BY <3>3, <3>4, <4>1
    <3>5. ASSUME NEW m \in Managed, Over, Register(m) \/ \E t \in Stops : Enable(m, t) PROVE FALSE
      BY <3>4, <3>5 DEF Register, Enable, NoRecord, Ends
    <3>6. ASSUME NEW m \in Managed, Over, BackoffEnds(m) PROVE FALSE
      <4>1. Tracked(m) /\ pass.drop = {}
        BY <1>1, <3>6 DEF BackoffEnds, Tracked, Untracked, IdleEmpty, NoPass
      <4>2. m # s /\ UNCHANGED record /\ \A n \in Managed \ {m} : table'[n] = table[n]
        BY <1>1, <3>6, <4>1 DEF BackoffEnds
      <4> QED
        BY <3>3, <3>6, <4>2
    <3>7. ASSUME NEW m \in Managed, Over, Remove(m) \/ Withdraw(m) PROVE FALSE
      <4>1. Closes(m)
        BY <3>7 DEF Remove, Withdraw, Closes, Ends
      <4>2. record'[m].status \in Ends /\ \A n \in Managed \ {m} : record'[n] = record[n]
        BY <1>1, <4>1, Closing
      <4>3. table'[m] \in {table[m], Untracked} /\ \A n \in Managed \ {m} : table'[n] = table[n]
        BY <1>1, <3>7 DEF Remove, Withdraw
      <4> QED
        BY <3>3, <3>7, <4>2, <4>3 DEF Tracked
    <3>8. ASSUME NEW m \in Managed, NEW t \in Stops, Over, Create(m, t) PROVE FALSE
      <4>1. m # s /\ UNCHANGED table /\ \A n \in Managed \ {m} : record'[n] = record[n]
        BY <1>1, <3>8 DEF Create, NoRecord, Ends
      <4> QED
        BY <3>3, <3>8, <4>1
    <3>9. ASSUME NEW m \in Managed, NEW t \in Stops, Over, Update(m, t) PROVE FALSE
      <4>1. /\ Tracked(m) /\ \A n \in Managed \ {m} : table'[n] = table[n] /\ record'[n] = record[n]
            /\ record'[m] = [record[m] EXCEPT !.stop = t, !.base = t, !.anchor = table[m].anchor]
        BY <1>1, <3>9 DEF Update
      <4>2. record'[m].status = record[m].status
        BY <1>1, <4>1 DEF Records
      <4> QED
        BY <3>3, <3>9, <4>1, <4>2
    <3>10. CASE UNCHANGED <<record, table>>
      BY <2>4, <3>1, <3>2, <3>10
    <3> QED
      BY <2>4, <2>5, <3>1, <3>5, <3>6, <3>7, <3>8, <3>9, <3>10
         DEF Next, Fill, Reject, FillStray, RejectStray, Reconcile, Dispatch, ReadPositions, CheckRecent,
             RegisterExit, PriceMoves, SquaredOff
  <2>6. CASE Watch
    <3>1. ASSUME NEW m \in pass.left, pass' \in {Done(m), Kept(m), Dropped(m)}, UNCHANGED table, Over,
                 \A n \in Managed \ {m} : record'[n] = record[n]
          PROVE  FALSE
      <4>1. pass'.left \subseteq pass.left /\ pass.drop \subseteq pass'.drop /\ pass'.at = "look"
        BY <1>1, <3>1, Kinds
      <4>2. record'[s] = record[s]
        BY <1>3, <3>1
      <4> QED
        BY <2>1, <3>1, <4>1, <4>2 DEF OpenExit, Tracked
    <3>2. CASE CloseRecord
      <4> DEFINE m == pass.cur
      <4>1. /\ m \in pass.left /\ m \in Managed /\ UNCHANGED table /\ pass' = Dropped(m)
            /\ Closes(m)
        BY <1>1, <3>2 DEF CloseRecord, Sorted, Triggering, Closes, Ends
      <4>2. record'[m].status \in Ends /\ \A n \in Managed \ {m} : record'[n] = record[n]
        BY <1>1, <4>1, Closing
      <4>3. pass'.left = pass.left \ {m} /\ m \in pass'.drop
        BY <1>1, <4>1, Kinds
      <4>4. CASE m = s
        BY <2>1, <4>2, <4>3, <4>4 DEF OpenExit
      <4> QED
        BY <2>4, <3>1, <4>1, <4>2, <4>4
    <3>3. CASE GiveUp \/ ScheduleRetry
      <4> DEFINE m == pass.cur
      <4>1. /\ m \in pass.left /\ UNCHANGED table /\ pass' \in {Dropped(m), Kept(m)} /\ pass.at = "failed"
            /\ m \in Managed /\ (record' = record \/ Closes(m))
        BY <1>1, <3>3 DEF GiveUp, ScheduleRetry, Sorted, Triggering, Closes, Ends
      <4>2. \A n \in Managed \ {m} : record'[n] = record[n]
        BY <1>1, <4>1, Closing
      <4> QED
        BY <2>4, <3>1, <4>1, <4>2
    <3>4. ASSUME NEW m \in Managed, LookClosed(m) \/ LookFlat(m) \/ LookDeferred(m) PROVE FALSE
      <4>1. /\ m \in pass.left /\ UNCHANGED table /\ pass' \in {Done(m), Dropped(m), Kept(m)} /\ pass.at = "look"
            /\ record' = record \/ Closes(m)
        BY <3>4 DEF LookClosed, LookFlat, LookDeferred, Live, Looking, Closes, Ends
      <4>2. \A n \in Managed \ {m} : record'[n] = record[n]
        BY <1>1, <4>1, Closing
      <4> QED
        BY <2>4, <3>1, <4>1, <4>2
    <3>5. ASSUME NEW m \in Managed, Look(m) PROVE FALSE
      <4>1. /\ m \in pass.left /\ UNCHANGED table /\ pass.at = "look"
            /\ pass' = Kept(m) \/ pass' = [pass EXCEPT !.at = "hit", !.cur = m]
            /\ \A n \in Managed \ {m} : record'[n] = record[n]
        BY <1>1, <3>5 DEF Look, Live, Looking, Persist
      <4>2. CASE pass' = [pass EXCEPT !.at = "hit", !.cur = m]
        <5>1. pass'.left = pass.left /\ pass'.drop = pass.drop /\ pass'.at = "hit"
          BY <1>1, <4>2 DEF Passes
        <5>2. Over /\ record'[s] = record[s]
          BY <1>3, <2>4, <4>1
        <5> QED
          BY <2>1, <4>1, <5>1, <5>2 DEF OpenExit, Tracked
      <4> QED
        BY <2>4, <3>1, <4>1, <4>2
    <3>6. CASE TriggerExit \/ PlaceExit
      <4>1. pass'.left = pass.left /\ pass'.drop = pass.drop /\ UNCHANGED <<record, table>> /\ Over
        BY <1>1, <2>4, <3>6 DEF TriggerExit, PlaceExit, Passes
      <4> QED
        BY <2>1, <4>1 DEF OpenExit, Tracked
    <3>7. CASE StartPass
      <4>1. pass'.left = {m \in Managed : Tracked(m)} /\ pass.drop = {} /\ UNCHANGED <<record, table>> /\ Over
        BY <1>1, <2>4, <3>7 DEF StartPass, NoPass, IdleEmpty
      <4> QED
        BY <2>1, <4>1 DEF OpenExit, Tracked
    <3>8. CASE EndPass
      <4>1. pass'.left = {} /\ UNCHANGED record /\ Over /\ table'[s] = Untracked
        BY <1>3, <2>4, <3>8 DEF EndPass, NoPass
      <4> QED
        BY <2>1, <4>1 DEF OpenExit, Tracked
    <3> QED
      BY <2>6, <3>2, <3>3, <3>4, <3>5, <3>6, <3>7, <3>8 DEF Watch
  <2> QED
    BY <2>5, <2>6
<1> QED
  BY <1>2, <1>3 DEF Sources

(* What a step without trouble does to the pass, the calls and the orders. *)
PassStep ==
  \/ UNCHANGED pass \/ TriggerExit \/ PlaceExit
  \/ /\ pass.at # "placing" /\ pass'.at # "placing" /\ UNCHANGED exits
     /\ pass'.at # "idle" => pass'.net \in {net, 0} \/ (pass.at # "idle" /\ pass'.net = pass.net)

CallStep ==
  \A r \in Requesters : request'[r].at \in {"read", "checked"} =>
    \/ request[r].at \in {"read", "checked"} /\ request'[r].net = request[r].net
    \/ request[r].at = "idle" /\ request'[r].net = net

OrderStep ==
  \/ UNCHANGED exits /\ net' = net
  \/ TriggerExit \/ PlaceExit \/ \E r \in Requesters : RegisterExit(r)
  \/ \E x \in ExitIds : Broker(x)

LEMMA Steps ==
  ASSUME TypeInv, Next, ~Crash, ~SquaredOff
  PROVE  PassStep /\ CallStep /\ OrderStep
<1>1. pass \in Passes /\ request \in [Requesters -> Requests] /\ Sorted
  BY DEF TypeInv, Shape
<1>2. CASE ~Watch
  <2>1. UNCHANGED pass
    BY <1>2 DEF Next, Register, BackoffEnds, Remove, Withdraw, Create, Enable, Update, Fill, Reject, FillStray,
                RejectStray, Reconcile, Dispatch, ReadPositions, CheckRecent, RegisterExit, PriceMoves,
                SquaredOff, monitor
  <2>2. OrderStep
    BY <1>2 DEF OrderStep, Broker, Next, Register, BackoffEnds, Remove, Withdraw, Create, Enable, Update, ReadPositions,
                CheckRecent, PriceMoves, market
  <2>3. CallStep
    <3>1. CASE UNCHANGED request
      BY <3>1 DEF CallStep
    <3>2. ASSUME NEW q \in Requesters, ReadPositions(q) \/ CheckRecent(q) \/ RegisterExit(q) PROVE CallStep
      <4>1. \A r \in Requesters \ {q} : request'[r] = request[r]
        BY <1>1, <3>2 DEF ReadPositions, CheckRecent, RegisterExit
      <4>2. \/ request'[q] = Answered
            \/ request[q].at = "idle" /\ request'[q].net = net
            \/ request[q].at \in {"read", "checked"} /\ request'[q].net = request[q].net
        BY <1>1, <3>2 DEF ReadPositions, CheckRecent, RegisterExit
      <4> QED
        BY <4>1, <4>2 DEF CallStep, Answered
    <3> QED
      BY <1>2, <3>1, <3>2
         DEF Next, Register, BackoffEnds, Remove, Withdraw, Create, Enable, Update, Fill, Reject, FillStray,
             RejectStray, Reconcile, Dispatch, PriceMoves
  <2> QED
    BY <2>1, <2>2, <2>3 DEF PassStep
<1>3. CASE Watch
  <2>1. UNCHANGED request
    BY <1>3 DEF Watch, StartPass, TriggerExit, PlaceExit, CloseRecord, GiveUp, ScheduleRetry, EndPass,
                LookClosed, LookFlat, LookDeferred, Look
  <2>2. OrderStep
    BY <1>3 DEF OrderStep, Watch, StartPass, CloseRecord, GiveUp, ScheduleRetry, EndPass,
                LookClosed, LookFlat, LookDeferred, Look, market
  <2>3. ASSUME NEW m \in pass.left, pass' \in {Done(m), Kept(m), Dropped(m)}, UNCHANGED exits,
               pass.at \notin {"idle", "placing"}
        PROVE  PassStep
    <3>1. pass'.at = "look" /\ pass'.net = pass.net
      BY <1>1, <2>3, Kinds DEF Passes
    <3> QED
      BY <2>3, <3>1 DEF PassStep
  <2>4. ASSUME NEW m \in Managed, LookClosed(m) \/ LookFlat(m) \/ LookDeferred(m) PROVE PassStep
    BY <2>3, <2>4 DEF LookClosed, LookFlat, LookDeferred, Live, Looking
  <2>5. ASSUME CloseRecord \/ GiveUp \/ ScheduleRetry PROVE PassStep
    BY <1>1, <2>3, <2>5 DEF CloseRecord, GiveUp, ScheduleRetry, Sorted, Triggering
  <2>6. ASSUME NEW m \in Managed, Look(m) PROVE PassStep
    <3>1. /\ pass.at = "look" /\ m \in pass.left /\ UNCHANGED exits
          /\ pass' = Kept(m) \/ pass' = [pass EXCEPT !.at = "hit", !.cur = m]
      BY <2>6 DEF Look, Live, Looking
    <3>2. CASE pass' = [pass EXCEPT !.at = "hit", !.cur = m]
      BY <1>1, <3>1, <3>2 DEF Passes, PassStep
    <3> QED
      BY <2>3, <3>1, <3>2
  <2>7. ASSUME StartPass PROVE PassStep
    <3>1. pass.at = "idle" /\ pass'.at = "look" /\ pass'.net \in {net, 0} /\ UNCHANGED exits
      BY <2>7 DEF StartPass, NoPass
    <3> QED
      BY <3>1 DEF PassStep
  <2>8. ASSUME EndPass PROVE PassStep
    <3>1. pass.at = "look" /\ pass'.at = "idle" /\ UNCHANGED exits
      BY <2>8 DEF EndPass, NoPass
    <3> QED
      BY <3>1 DEF PassStep
  <2>9. PassStep
    BY <1>3, <2>4, <2>5, <2>6, <2>7, <2>8 DEF Watch, PassStep
  <2> QED
    BY <2>1, <2>2, <2>9 DEF CallStep
<1> QED
  BY <1>2, <1>3

(* A step that neither makes an order nor changes one. *)
LEMMA CalmSale ==
  ASSUME NEW s \in Sources, SaleOf(s), Open(s)' => Open(s), PassStep, CallStep,
         s \in Requesters => Managed \intersect Requesters = {},
         ~TriggerExit, ~PlaceExit, UNCHANGED exits, net' = net
  PROVE  SaleOf(s)'
<1>1. \A x \in ExitIds : Out(x)' <=> Out(x)
  BY DEF Out
<1>2. pass' = pass \/ (pass.at # "placing" /\ pass'.at # "placing")
  BY DEF PassStep
<1>3. Open(s)' => Untouched'
  <2> SUFFICES ASSUME Open(s)' PROVE Untouched'
    OBVIOUS
  <2>1. Untouched
    BY DEF SaleOf
  <2>2. pass'.at # "idle" => pass'.net \in {Qty, 0}
    BY <2>1 DEF PassStep, Untouched
  <2> QED
    BY <1>1, <1>2, <2>1, <2>2 DEF Untouched
<1>4. s \in Requesters /\ request'[s].at \in {"read", "checked"} => request'[s].net = Qty
  <2> SUFFICES ASSUME s \in Requesters, request'[s].at \in {"read", "checked"} PROVE request'[s].net = Qty
    OBVIOUS
  <2>1. CASE request[s].at \in {"read", "checked"} /\ request'[s].net = request[s].net
    BY <2>1 DEF SaleOf
  <2>2. CASE request[s].at = "idle" /\ request'[s].net = net
    <3>1. Open(s)
      BY <2>2 DEF Open
    <3> QED
      BY <2>2, <3>1 DEF SaleOf, Untouched
  <2> QED
    BY <2>1, <2>2 DEF CallStep
<1>5. pass'.at = "placing" => pass'.cur = s /\ exits'[pass'.exit].status = "CREATED"
  BY <1>2 DEF SaleOf
<1> QED
  BY <1>1, <1>3, <1>4, <1>5 DEF SaleOf

(* Without trouble execute_command sends an order once, or not at all.     *)
LEMMA CalmPlaced ==
  ASSUME Shape, NEW x \in ExitIds, exits[x] \in Orders, Placed(x),
         extra = 0, extra' = 0, losses \in Nat, losses' = losses
  PROVE  /\ ~SessionLost(x) /\ Touched(x) /\ exits'[x].strays = exits[x].strays
         /\ Accepted(x) => exits'[x].status = "SENT"
         /\ Refused(x) => exits'[x].status = "DONE"
<1>1. ~SessionLost(x)
  BY DEF SessionLost
<1>2. ASSUME NEW b \in 0 .. MaxAttempts, NEW t \in {"SENT", "DONE"}, Sent(x, b, t)
      PROVE  Touched(x) /\ exits'[x].strays = exits[x].strays /\ exits'[x].status = t
  <2>1. b = 0
    BY <1>2 DEF Sent
  <2>2. Touched(x) /\ exits'[x].status = t /\ exits'[x].strays = exits[x].strays + b
    BY <1>2, SentOrder
  <2>3. exits[x].strays \in Nat
    BY DEF Orders
  <2> QED
    BY <2>1, <2>2, <2>3
<1> QED
  BY <1>1, <1>2, ExitAssumption DEF Placed, Accepted, Refused, Unheard

(* ... and the broker and the watcher move on the orders they know.        *)
LEMMA CalmBroker ==
  ASSUME Shape, NEW x \in ExitIds, Broker(x), NoStrays,
         extra = 0, extra' = 0, losses \in Nat, losses' = losses
  PROVE  /\ Fill(x) \/ Reject(x) \/ Reconcile(x) \/ Dispatch(x)
         /\ Touched(x) /\ exits'[x].strays = exits[x].strays
         /\ exits[x].status # "NONE" /\ exits'[x].status \in {"ENDED", "DONE", "SENT"}
         /\ net' # net => Fill(x)
<1>1. Touched(x) /\ exits \in [ExitIds -> Orders \union {NoExit}]
  BY BrokerOrder DEF Shape
<1>2. ~FillStray(x) /\ ~RejectStray(x)
  BY DEF FillStray, RejectStray, NoStrays
<1>3. CASE Dispatch(x)
  BY <1>1, <1>3, CalmPlaced DEF Dispatch, Placed, Touched, market
<1>4. CASE Fill(x) \/ Reject(x) \/ Reconcile(x)
  <2>1. PICK t \in {"ENDED", "DONE"} : exits' = [exits EXCEPT ![x].status = t]
    BY <1>4 DEF Fill, Reject, Reconcile
  <2>2. exits'[x] = [exits[x] EXCEPT !.status = t] /\ exits[x] \in Orders
    BY <1>1, <2>1 DEF Touched
  <2>3. exits'[x].status = t /\ exits'[x].strays = exits[x].strays
    BY <2>2 DEF Orders
  <2> QED
    BY <1>1, <1>4, <2>3 DEF Fill, Reject, Reconcile, market
<1> QED
  BY <1>2, <1>3, <1>4 DEF Broker

(* A step of the broker, or of the watcher between two passes, on an order. *)
LEMMA BrokerSale ==
  ASSUME TypeInv, NEW s \in Sources, SaleOf(s), Open(s)' => Open(s), NEW x \in ExitIds,
         Broker(x), NoStrays, extra = 0, extra' = 0, losses \in Nat, losses' = losses
  PROVE  SaleOf(s)'
<1>1. UNCHANGED <<pass, request>> /\ exits[x].status # "NONE" /\ net \in Int /\ Shape
  BY CalmBroker DEF Broker, Fill, Reject, FillStray, RejectStray, Reconcile, Dispatch, monitor, TypeInv, Shape
<1>2. /\ Fill(x) \/ Reject(x) \/ Reconcile(x) \/ Dispatch(x)
      /\ exits'[x].status \in {"ENDED", "DONE", "SENT"}
  BY <1>1, CalmBroker
<1>3. /\ \A y \in ExitIds : exits'[y].qty = exits[y].qty
      /\ \A y \in ExitIds \ {x} : exits'[y] = exits[y]
      /\ exits[x] \in Orders
  <2>1. Touched(x)
    BY <1>1, BrokerOrder
  <2> QED
    BY <2>1 DEF Touched
<1>4. exits[x].qty \in Int
  BY <1>3 DEF Orders
<1>5. CASE Out(x)
  <2>1. exits[x].status = "SENT" \/ pass.at = "idle"
    BY <1>2, <1>5 DEF Fill, Reject, Reconcile, Dispatch, Out
  <2>2. ~Open(s)' /\ pass.at # "placing"
    <3>1. pass.at # "placing"
      <4>1. SUFFICES ASSUME pass.at = "placing" PROVE FALSE
        OBVIOUS
      <4>2. pass.exit \in ExitIds /\ exits[pass.exit].status = "CREATED"
        BY <4>1 DEF SaleOf, TypeInv, Placing
      <4>3. pass.exit = x
        BY <1>5, <4>2 DEF SaleOf, Out
      <4> QED
        BY <2>1, <4>1, <4>2, <4>3
    <3>2. ~Open(s)
      BY <1>5, <3>1 DEF SaleOf, Untouched
    <3> QED
      BY <3>1, <3>2
  <2>3. net' = net \/ net' = net - exits[x].qty
    BY <1>2 DEF Fill, Reject, Reconcile, Dispatch, market
  <2>4. exits[x].qty <= net /\ net >= 0 /\ \A y \in ExitIds \ {x} : ~Out(y)
    BY <1>5 DEF SaleOf
  <2>5. net' >= 0
    BY <1>1, <1>4, <2>3, <2>4
  <2>6. \A y \in ExitIds \ {x} : ~Out(y)'
    BY <1>3, <2>4 DEF Out
  <2>7. Out(x)' => net' = net
    BY <1>1, <1>2, <1>3 DEF Out, Fill, Reject, Reconcile, Dispatch, market, Orders, Shape
  <2>8. s \in Requesters /\ request'[s].at \in {"read", "checked"} => request'[s].net = Qty
    BY <1>1 DEF SaleOf
  <2>9. \A y \in ExitIds : Out(y)' => y = x /\ exits'[y].qty <= net'
    BY <1>3, <2>4, <2>6, <2>7
  <2> QED
    BY <1>1, <2>2, <2>5, <2>8, <2>9 DEF SaleOf
<1>6. CASE ~Out(x)
  <2>1. Reconcile(x)
    BY <1>2, <1>6 DEF Out, Fill, Reject, Dispatch
  <2>2. net' = net /\ pass.at = "idle" /\ exits'[x].status = "DONE"
    BY <1>1, <1>3, <2>1 DEF Reconcile, market, Shape, Orders
  <2>3. \A y \in ExitIds : Out(y)' <=> Out(y)
    BY <1>3, <1>6, <2>2 DEF Out
  <2> QED
    BY <1>1, <1>3, <2>2, <2>3 DEF SaleOf, Untouched
<1> QED
  BY <1>5, <1>6

(* execute_command on the order of the pass. *)
LEMMA PlaceSale ==
  ASSUME TypeInv, NEW s \in Sources, SaleOf(s), Open(s)' => Open(s), PlaceExit,
         extra = 0, extra' = 0, losses \in Nat, losses' = losses
  PROVE  SaleOf(s)'
<1> DEFINE x == pass.exit
<1>1. /\ pass \in Passes /\ pass.at = "placing" /\ UNCHANGED <<net, request>> /\ net \in Int
      /\ x \in ExitIds /\ exits[x] \in Orders /\ exits[x].status = "CREATED"
      /\ pass.cur = s /\ s \in Managed /\ Shape
  BY DEF PlaceExit, TypeInv, Shape, Placing, SaleOf, market, Sorted, Triggering, Passes
<1>9. /\ ~SessionLost(x) /\ Touched(x)
      /\ Accepted(x) => exits'[x].status = "SENT"
      /\ Refused(x) => exits'[x].status = "DONE"
  BY <1>1, CalmPlaced DEF PlaceExit, Placed
<1>2. \/ exits'[x].status = "SENT" /\ pass' = [pass EXCEPT !.at = "placed"]
      \/ exits'[x].status = "DONE" /\ pass' = [pass EXCEPT !.at = "failed"]
  BY <1>9 DEF PlaceExit
<1>3. /\ \A y \in ExitIds : exits'[y].qty = exits[y].qty
      /\ \A y \in ExitIds \ {x} : exits'[y] = exits[y] /\ ~Out(y)
      /\ exits'[x].status \in {"SENT", "DONE"}
      /\ exits'[x].status = "SENT" => pass' = [pass EXCEPT !.at = "placed"]
  <2>1. \A y \in ExitIds \ {x} : ~Out(y)
    BY <1>1 DEF SaleOf, Out
  <2>2. /\ \A y \in ExitIds : exits'[y].qty = exits[y].qty
        /\ \A y \in ExitIds \ {x} : exits'[y] = exits[y]
    BY <1>9 DEF Touched
  <2> QED
    BY <1>2, <2>1, <2>2
<1>4. \A y \in ExitIds : Out(y)' => y = x /\ exits'[x].status = "SENT"
  BY <1>3 DEF Out
<1>5. pass'.at \in {"placed", "failed"} /\ pass'.cur = s /\ pass'.net = pass.net
      /\ (exits'[x].status = "SENT" => pass'.at = "placed")
  BY <1>1, <1>2, <1>3 DEF Passes
<1>6. Open(s)' => Untouched'
  <2> SUFFICES ASSUME Open(s)' PROVE Untouched'
    OBVIOUS
  <2>1. Untouched
    BY DEF SaleOf
  <2>2. s \notin Requesters
    BY <1>1, ExitAssumption
  <2>3. pass'.at # "placed"
    BY <1>5, <2>2 DEF Open, OpenExit
  <2> QED
    BY <1>1, <1>4, <1>5, <2>1, <2>3 DEF Untouched
<1>7. \A y \in ExitIds : Out(y)' => exits'[y].qty <= net'
  BY <1>1, <1>3, <1>4 DEF SaleOf, Out
<1> QED
  BY <1>1, <1>4, <1>5, <1>6, <1>7 DEF SaleOf

(* The two that make an order. *)
LEMMA MakeSale ==
  ASSUME TypeInv, RetryInv, NEW s \in Sources, SaleOf(s), Open(s)' => Open(s), Only(s)',
         TriggerExit \/ \E r \in Requesters : RegisterExit(r)
  PROVE  SaleOf(s)'
<1>1. /\ pass \in Passes /\ request \in [Requesters -> Requests] /\ Sorted /\ pass.left \subseteq Managed
      /\ exits \in [ExitIds -> Orders \union {NoExit}] /\ Managed \intersect Requesters = {}
      /\ Qty \in Nat \ {0}
  BY ExitAssumption DEF TypeInv, Shape, Passes
<1>2. ASSUME NEW x \in ExitIds, NEW q \in Sources, NEW n, CreateExit(x, q, n)
      PROVE  /\ q = s /\ exits'[x].status = "CREATED" /\ exits'[x].qty = n
             /\ \A y \in ExitIds \ {x} : exits'[y] = exits[y]
  <2>1. exits'[x] = [status |-> "CREATED", of |-> q, qty |-> n, strays |-> 0] /\ \A y \in ExitIds \ {x} : exits'[y] = exits[y]
    BY <1>1, <1>2 DEF CreateExit
  <2>2. q # "none"
    BY ExitAssumption
  <2> QED
    BY <2>1, <2>2 DEF Only
<1>3. CASE TriggerExit
  <2>1. PICK x \in ExitIds : /\ CreateExit(x, pass.cur, Abs(pass.net))
                             /\ pass' = [pass EXCEPT !.at = "placing", !.exit = x]
    BY <1>3 DEF TriggerExit
  <2>2. /\ pass.at = "hit" /\ pass.cur \in pass.left /\ pass.net # 0 /\ UNCHANGED <<net, request>>
    BY <1>1, <1>3 DEF TriggerExit, Sorted, Triggering, market
  <2>3. pass.cur = s /\ s \in Managed /\ Open(s)
    BY <1>1, <1>2, <2>1, <2>2 DEF Sources, Open, OpenExit
  <2>4. Untouched /\ \A y \in ExitIds : ~Out(y)
    BY <2>2, <2>3 DEF SaleOf, Untouched
  <2>5. Abs(pass.net) = Qty /\ net = Qty
    BY <1>1, <2>2, <2>4 DEF Untouched, Abs
  <2>6. exits'[x].status = "CREATED" /\ exits'[x].qty = Qty /\ \A y \in ExitIds \ {x} : ~Out(y)'
    BY <1>2, <2>1, <2>3, <2>4, <2>5 DEF Out, Sources
  <2>7. pass'.at = "placing" /\ pass'.exit = x /\ pass'.cur = s /\ pass'.net = pass.net
    BY <1>1, <2>1, <2>3 DEF Passes
  <2>8. Untouched'
    BY <2>2, <2>4, <2>5, <2>6, <2>7 DEF Untouched
  <2> QED
    BY <1>1, <2>2, <2>3, <2>5, <2>6, <2>7, <2>8 DEF SaleOf
<1>4. ASSUME NEW r \in Requesters, RegisterExit(r) PROVE SaleOf(s)'
  <2>1. PICK x \in ExitIds : CreateExit(x, r, request[r].net)
    BY <1>4 DEF RegisterExit
  <2>2. request[r].at = "checked" /\ UNCHANGED <<net, pass>> /\ request' = [request EXCEPT ![r] = Answered]
    BY <1>4 DEF RegisterExit, market, monitor
  <2>3. r = s /\ s \in Requesters /\ s \notin Managed
    BY <1>1, <1>2, <2>1 DEF Sources
  <2>4. Untouched /\ request[s].net = Qty
    BY <2>2, <2>3 DEF SaleOf, Open
  <2>5. pass.at # "placing"
    BY <1>1, <2>3 DEF SaleOf, Sorted, Triggering
  <2>6. exits'[x].status = "CREATED" /\ exits'[x].qty = Qty /\ \A y \in ExitIds \ {x} : ~Out(y)'
    BY <1>2, <2>1, <2>3, <2>4, <2>5 DEF Out, Untouched, Sources
  <2>7. ~Open(s)' /\ request'[s].at = "done"
    BY <1>1, <2>2, <2>3 DEF Open, Answered
  <2> QED
    BY <1>1, <2>2, <2>4, <2>5, <2>6, <2>7 DEF SaleOf, Untouched
<1> QED
  BY <1>3, <1>4

LEMMA ZeroSum ==
  ASSUME NEW a \in Nat, NEW b \in Nat, NEW c \in Nat, NEW d \in Nat, a + b + c + d = 0
  PROVE  a = 0 /\ b = 0 /\ c = 0 /\ d = 0
OBVIOUS

LEMMA NextSaleInv == TypeInv /\ RetryInv /\ SaleInv /\ [Next]_vars => SaleInv'
<1> SUFFICES ASSUME TypeInv, RetryInv, SaleInv, [Next]_vars PROVE SaleInv'
  OBVIOUS
<1>1. CASE UNCHANGED vars
  <2>1. UNCHANGED <<net, ltp, record, exits, table, local, pass, request, byHand, losses, crashes, extra>>
    BY <1>1 DEF vars, market, monitor, counters
  <2>2. ASSUME NEW s \in Sources, SaleOf(s) PROVE SaleOf(s)'
    <3>1. (Untouched' <=> Untouched) /\ (OpenExit(s)' <=> OpenExit(s))
      BY <2>1 DEF Untouched, Out, OpenExit, Tracked
    <3>2. Open(s)' <=> Open(s)
      BY <2>1, <3>1 DEF Open
    <3> QED
      BY <2>1, <2>2, <3>1, <3>2 DEF SaleOf, Out
  <2>3. (Quiet' <=> Quiet) /\ (NoneYet' <=> NoneYet) /\ (NoStrays' <=> NoStrays)
        /\ \A s \in Sources : Only(s)' => Only(s)
    BY <2>1 DEF Quiet, NoneYet, NoStrays, Only
  <2> QED
    BY <2>1, <2>2, <2>3 DEF SaleInv
<1>2. CASE Next
  <2>0. /\ byHand \in Nat /\ losses \in Nat /\ crashes \in Nat /\ extra \in Nat
        /\ Shape /\ exits \in [ExitIds -> Orders \union {NoExit}]
    BY DEF SaleInv, TypeInv, Shape
  <2>1. /\ byHand' \in {byHand, byHand + 1} /\ losses' \in {losses, losses + 1} /\ crashes' \in {crashes, crashes + 1}
        /\ Crash => crashes' = crashes + 1
        /\ SquaredOff => byHand' = byHand + 1
    BY <1>2 DEF Next, Watch, StartPass, TriggerExit, PlaceExit, CloseRecord, GiveUp, ScheduleRetry, EndPass,
       LookClosed, LookFlat, LookDeferred, Look, Register, BackoffEnds, Remove, Withdraw, Create, Enable,
       Update, Fill, Reject, FillStray, RejectStray, Reconcile, Dispatch, ReadPositions, CheckRecent,
       RegisterExit, PriceMoves, SquaredOff, Crash, Accepted, Refused, SessionLost, Sent, counters
  <2>11. \E b \in Nat : extra' = extra + b
    <3>1. ASSUME NEW x, Placed(x) PROVE \E b \in Nat : extra' = extra + b
      BY <3>1, ExitAssumption DEF Placed, Accepted, Refused, SessionLost, Sent, Unheard
    <3>2. (\E x \in ExitIds : Dispatch(x)) \/ PlaceExit => \E x : Placed(x)
      BY DEF Dispatch, PlaceExit, Placed
    <3>3. (\E x \in ExitIds : Dispatch(x)) \/ PlaceExit \/ extra' = extra
      BY <1>2 DEF Next, Watch, StartPass, TriggerExit, CloseRecord, GiveUp, ScheduleRetry, EndPass,
         LookClosed, LookFlat, LookDeferred, Look, Register, BackoffEnds, Remove, Withdraw, Create, Enable,
         Update, Fill, Reject, FillStray, RejectStray, Reconcile, ReadPositions, CheckRecent,
         RegisterExit, PriceMoves, SquaredOff, Crash, counters
    <3> QED
      BY <2>0, <3>1, <3>2, <3>3
  <2>12. byHand' \in Nat /\ losses' \in Nat /\ crashes' \in Nat /\ extra' \in Nat
    BY <2>0, <2>1, <2>11
  <2>2. SUFFICES ASSUME Quiet'
                 PROVE  NoStrays' /\ (NoneYet' => net' = Qty) /\ \A s \in Sources : Only(s)' => SaleOf(s)'
    BY <2>12 DEF SaleInv
  <2>3. Quiet /\ ~Crash /\ ~SquaredOff /\ extra = 0 /\ extra' = 0 /\ losses' = losses
    <3>1. byHand' = 0 /\ losses' = 0 /\ crashes' = 0 /\ extra' = 0
      BY <2>2, <2>12, ZeroSum DEF Quiet
    <3>2. byHand = 0 /\ losses = 0 /\ crashes = 0 /\ extra = 0
      BY <2>0, <2>1, <2>11, <3>1
    <3> QED
      BY <2>1, <3>1, <3>2 DEF Quiet
  <2>4. PassStep /\ CallStep /\ OrderStep /\ NoStrays
    BY <1>2, <2>3, Steps DEF SaleInv
  <2>5. ASSUME NEW x \in ExitIds, Broker(x)
        PROVE  /\ exits'[x].status # "NONE" /\ \A y \in ExitIds : exits'[y].of = exits[y].of
               /\ NoStrays'
    <3>1. /\ Touched(x) /\ exits'[x].strays = exits[x].strays
          /\ exits'[x].status \in {"ENDED", "DONE", "SENT"}
      BY <2>0, <2>3, <2>4, <2>5, CalmBroker
    <3> QED
      BY <2>4, <3>1 DEF Touched, NoStrays
  <2>6. PlaceExit => /\ exits'[pass.exit].status # "NONE" /\ pass.exit \in ExitIds
                     /\ \A y \in ExitIds : exits'[y].of = exits[y].of
                     /\ NoStrays'
    <3> SUFFICES ASSUME PlaceExit PROVE /\ exits'[pass.exit].status # "NONE" /\ pass.exit \in ExitIds
                                        /\ \A y \in ExitIds : exits'[y].of = exits[y].of
                                        /\ NoStrays'
      OBVIOUS
    <3>1. pass.exit \in ExitIds /\ exits[pass.exit] \in Orders /\ Placed(pass.exit)
      BY DEF PlaceExit, TypeInv, Placing, Placed
    <3>2. /\ Touched(pass.exit) /\ exits'[pass.exit].strays = exits[pass.exit].strays
          /\ exits'[pass.exit].status \in {"DONE", "SENT"}
      BY <2>0, <2>3, <3>1, CalmPlaced DEF Placed
    <3> QED
      BY <2>4, <3>1, <3>2 DEF Touched, NoStrays
  <2>7. ASSUME NEW x \in ExitIds, NEW q, NEW n, CreateExit(x, q, n)
        PROVE  /\ exits'[x].status # "NONE"
               /\ \A y \in ExitIds : exits[y].of = "none" \/ exits'[y].of = exits[y].of
               /\ NoStrays'
    <3>1. exits' = [exits EXCEPT ![x] = [status |-> "CREATED", of |-> q, qty |-> n, strays |-> 0]]
          /\ exits[x] = NoExit
      BY <2>7 DEF CreateExit
    <3> QED
      BY <2>0, <2>4, <3>1 DEF NoExit, NoStrays
  <2>10. NoStrays'
    BY <2>4, <2>5, <2>6, <2>7 DEF OrderStep, TriggerExit, RegisterExit, NoStrays
  <2>8. NoneYet' => net' = Qty
    <3> SUFFICES ASSUME NoneYet' PROVE net' = Qty
      OBVIOUS
    <3>1. \A x \in ExitIds : exits'[x].status = "NONE"
      BY DEF NoneYet, NoExit
    <3>2. UNCHANGED exits /\ net' = net
      BY <2>4, <2>5, <2>6, <2>7, <3>1 DEF OrderStep, TriggerExit, RegisterExit
    <3> QED
      BY <2>3, <3>2 DEF SaleInv, NoneYet
  <2>9. ASSUME NEW s \in Sources, Only(s)' PROVE SaleOf(s)'
    <3>1. Only(s)
      <4>1. \A y \in ExitIds : exits[y].of = "none" \/ exits'[y].of = exits[y].of
        BY <2>4, <2>5, <2>6, <2>7 DEF OrderStep, TriggerExit, RegisterExit
      <4> QED
        BY <2>9, <4>1 DEF Only
    <3>2. SaleOf(s) /\ (Open(s)' => Open(s))
      BY <1>2, <2>3, <3>1, OpenFalls DEF SaleInv
    <3>3. CASE TriggerExit \/ \E r \in Requesters : RegisterExit(r)
      BY <2>9, <3>2, <3>3, MakeSale
    <3>4. CASE PlaceExit
      BY <2>0, <2>3, <3>2, <3>4, PlaceSale
    <3>5. ASSUME NEW x \in ExitIds, Broker(x) PROVE SaleOf(s)'
      BY <2>0, <2>3, <2>4, <3>2, <3>5, BrokerSale
    <3>6. CASE UNCHANGED exits /\ net' = net /\ ~TriggerExit /\ ~PlaceExit
      BY <2>4, <3>2, <3>6, CalmSale, ExitAssumption
    <3> QED
      BY <2>4, <3>3, <3>4, <3>5, <3>6 DEF OrderStep
  <2> QED
    BY <2>8, <2>9, <2>10
<1> QED
  BY <1>1, <1>2

(* However its pass, its retries, the dashboard and the broker interleave, *)
(* one source of exits alone never sells more than the position: it takes  *)
(* orders of two, an order booked without an answer, a lost session, a     *)
(* crash or the user's own square-off.                                     *)
THEOREM OneSourceNeverReverses == Spec => []NoReversalAlone
<1>1. TypeInv /\ SaleInv => NoReversalAlone
  <2> SUFFICES ASSUME TypeInv, SaleInv, net < 0, byHand + losses + crashes + extra <= 0
               PROVE  Cardinality({exits[x].of : x \in ExitIds} \ {"none"}) > 1
    BY DEF NoReversalAlone, SaleInv
  <2> DEFINE Of == {exits[x].of : x \in ExitIds}
             Some == Of \ {"none"}
  <2>1. Quiet
    BY DEF SaleInv, Quiet
  <2>2. net \in Int /\ Qty > 0 /\ exits \in [ExitIds -> Orders \union {NoExit}]
    BY ExitAssumption DEF TypeInv, Shape
  <2>3. Some \subseteq Sources
    BY <2>2 DEF Orders, NoExit
  <2>4. IsFiniteSet(Some)
    <3>1. IsFiniteSet(ExitIds)
      BY FS_Interval, ExitAssumption DEF ExitIds
    <3> DEFINE f == [x \in ExitIds |-> exits[x].of]
    <3>2. f \in Surjection(ExitIds, Of)
      BY DEF Surjection
    <3> QED
      BY <3>1, <3>2, FS_Surjection, FS_Subset
  <2>5. PICK x \in ExitIds : exits[x] # NoExit
    BY <2>1, <2>2 DEF SaleInv, NoneYet
  <2> DEFINE s == exits[x].of
  <2>6. s \in Some
    BY <2>2, <2>5, ExitAssumption DEF Orders
  <2>7. ~Only(s)
    BY <2>1, <2>2, <2>3, <2>6 DEF SaleInv, SaleOf
  <2>8. PICK y \in ExitIds : exits[y].of \in Some /\ exits[y].of # s
    BY <2>7 DEF Only
  <2>9. {s, exits[y].of} \in SUBSET Some /\ s # exits[y].of
    BY <2>6, <2>8
  <2>10. Cardinality({s, exits[y].of}) = 2
    <3>1. {s, exits[y].of} = {s} \union {exits[y].of} /\ exits[y].of \notin {s}
      BY <2>9
    <3>2. IsFiniteSet({s}) /\ Cardinality({s}) = 1
      BY FS_Singleton
    <3> HIDE DEF s
    <3>3. Cardinality({s} \union {exits[y].of}) = Cardinality({s}) + 1
      BY <3>1, <3>2, FS_AddElement
    <3> QED
      BY <3>1, <3>2, <3>3
  <2> HIDE DEF s, Some
  <2>11. 2 <= Cardinality(Some) /\ Cardinality(Some) \in Nat
    BY <2>4, <2>9, <2>10, FS_Subset, FS_CardinalityType
  <2> QED
    BY <2>11 DEF Some
<1> QED
  BY InitTypeInv, NextTypeInv, InitRetryInv, NextRetryInv, InitSaleInv, NextSaleInv, <1>1, PTL DEF Spec
=============================================================================
