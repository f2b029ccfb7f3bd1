--------------------------- MODULE LegMonitorProofs ---------------------------
(* Proofs about LegMonitor, for any legs, requests, days, runs and faults. *)
EXTENDS MCEntriesAndRows, TLAPS

RowType == [st : {"none", "ACTIVE", "CLOSED"}, opened : Int, realized : Nat]

TypeInv ==
  /\ day \in Int
  /\ legs \in [Keys -> {"none", "wait", "on", "off"}]
  /\ closings \in [Keys -> Nat]
  /\ cache \in [Keys -> RowType] /\ table \in [Keys -> RowType]

(* A row that still shows its leg open has not counted its last closing,   *)
(* whether it is in the cache or only in the table.                        *)
Owed(row, k) ==
  /\ row.realized <= closings[k]
  /\ row.st = "ACTIVE" /\ legs[k] = "off" => row.realized < closings[k]

OwedAll(rows) == \A k \in Keys : Owed(rows[k], k)

GainInv == TypeInv /\ OwedAll(cache) /\ OwedAll(table)

-----------------------------------------------------------------------------
LEMMA EmptyRows ==
  ASSUME TypeInv
  PROVE  Rows!NoRows \in [Keys -> RowType] /\ OwedAll(Rows!NoRows)
  BY DEF TypeInv, Rows!NoRows, Rows!NoRow, RowType, OwedAll, Owed

LEMMA InitGainInv == Rows!Init => GainInv
  BY DEF Rows!Init, GainInv, TypeInv, OwedAll, Owed, Rows!NoRows, Rows!NoRow, Rows!NoLegs, Rows!Never, RowType

LEMMA TodaysRows ==
  ASSUME TypeInv, NEW rows \in [Keys -> RowType], OwedAll(rows)
  PROVE  Rows!OfToday(rows) \in [Keys -> RowType] /\ OwedAll(Rows!OfToday(rows))
<1> DEFINE new == Rows!OfToday(rows)
<1>1. \A k \in Keys : new[k] \in RowType /\ new[k] \in {rows[k], Rows!NoRow}
  BY DEF Rows!OfToday, Rows!NoRow, RowType
<1>2. new \in [Keys -> RowType]
  BY <1>1 DEF Rows!OfToday
<1>3. \A k \in Keys : Owed(Rows!NoRow, k)
  BY DEF TypeInv, Rows!NoRow, Owed
<1> HIDE DEF new
<1>4. OwedAll(new)
  BY <1>1, <1>3 DEF OwedAll
<1> QED
  BY <1>2, <1>4 DEF new

(* A refresh counts the closing a row still owes, and no other.            *)
LEMMA RefreshedRow ==
  ASSUME GainInv, NEW k \in Keys
  PROVE  Rows!Refreshed(k) \in RowType /\ Owed(Rows!Refreshed(k), k)
<1> DEFINE old == cache[k]
           row == IF old.st = "none" THEN [Rows!NoRow EXCEPT !.opened = day] ELSE old
           gain == IF Rows!ClosedNow(row, k) THEN Rows!Gain(k) ELSE 0
<1>1. old \in RowType /\ Owed(old, k) /\ closings[k] \in Nat /\ day \in Int
  BY DEF GainInv, TypeInv, OwedAll
<1>2. row \in RowType /\ Owed(row, k)
  BY <1>1 DEF Owed, Rows!NoRow, RowType
<1>3. Rows!Refreshed(k) = [st |-> IF legs[k] = "on" THEN "ACTIVE" ELSE "CLOSED", opened |-> row.opened,
                      realized |-> row.realized + gain]
  BY DEF Rows!Refreshed
<1>4. gain \in {0, 1} /\ (gain = 1 => row.st = "ACTIVE" /\ legs[k] = "off")
  BY DEF Rows!ClosedNow, Rows!Gain
<1> HIDE DEF row, gain
<1>5. row.realized + gain \in Nat /\ row.realized + gain <= closings[k]
  BY <1>1, <1>2, <1>4 DEF Owed, RowType
<1>6. Rows!Refreshed(k).st = "ACTIVE" => legs[k] = "on"
  BY <1>3
<1> QED
  BY <1>1, <1>2, <1>3, <1>5, <1>6 DEF Owed, RowType

LEMMA RefreshedRows ==
  ASSUME GainInv
  PROVE  Rows!Rows \in [Keys -> RowType] /\ OwedAll(Rows!Rows)
<1>1. ASSUME NEW k \in Keys
      PROVE  Rows!Rows[k] \in {Rows!Refreshed(k), cache[k], Rows!NoRow}
  BY DEF Rows!Rows
<1>2. ASSUME NEW k \in Keys PROVE Rows!NoRow \in RowType /\ Owed(Rows!NoRow, k)
  BY DEF GainInv, TypeInv, Rows!NoRow, Owed, RowType
<1>3. ASSUME NEW k \in Keys PROVE Rows!Rows[k] \in RowType /\ Owed(Rows!Rows[k], k)
  BY <1>1, <1>2, RefreshedRow DEF GainInv, TypeInv, OwedAll
<1>4. Rows!Rows = [k \in Keys |-> Rows!Rows[k]]
  BY DEF Rows!Rows
<1> QED
  BY <1>3, <1>4 DEF OwedAll

(* Every step but a closing: the rows are good ones, and no leg is newly off. *)
LEMMA GoodRows ==
  ASSUME GainInv, NEW c \in [Keys -> RowType], NEW t \in [Keys -> RowType],
         OwedAll(c), OwedAll(t), cache' = c, table' = t,
         legs' \in [Keys -> {"none", "wait", "on", "off"}],
         \A k \in Keys : legs'[k] = "off" => legs[k] = "off",
         closings' = closings, day' \in Int
  PROVE  GainInv'
<1>1. TypeInv'
  BY DEF GainInv, TypeInv
<1>2. \A k \in Keys : Owed(c[k], k)' /\ Owed(t[k], k)'
  BY DEF OwedAll, Owed
<1>3. OwedAll(cache)' /\ OwedAll(table)'
  BY <1>2 DEF OwedAll
<1> QED
  BY <1>1, <1>3 DEF GainInv

LEMMA SameLegs ==
  ASSUME GainInv, NEW c \in [Keys -> RowType], NEW t \in [Keys -> RowType],
         OwedAll(c), OwedAll(t), cache' = c, table' = t,
         legs' = legs, closings' = closings, day' \in Int
  PROVE  GainInv'
  BY GoodRows DEF GainInv, TypeInv

LEMMA SameRows ==
  ASSUME GainInv, cache' = cache, table' = table,
         legs' \in [Keys -> {"none", "wait", "on", "off"}],
         \A k \in Keys : legs'[k] = "off" => legs[k] = "off",
         closings' = closings, day' \in Int
  PROVE  GainInv'
  BY GoodRows DEF GainInv, TypeInv

LEMMA SavedRows ==
  ASSUME GainInv, NEW old, NEW new, Rows!Written(old, new)
  PROVE  table' \in {old, new}
  BY DEF Rows!Written

-----------------------------------------------------------------------------
LEMMA StartGainInv == ASSUME GainInv, Rows!Start PROVE GainInv'
<1>1. PICK cleared \in BOOLEAN :
        LET rows == IF cleared THEN Rows!NoRows ELSE table
        IN cache' = Rows!OfToday(rows) /\ Rows!Written(rows, Rows!OfToday(rows))
  BY DEF Rows!Start
<1> DEFINE rows == IF cleared THEN Rows!NoRows ELSE table
<1>2. rows \in [Keys -> RowType] /\ OwedAll(rows)
  BY EmptyRows DEF GainInv, TypeInv
<1>3. cache' = Rows!OfToday(rows) /\ table' \in {rows, Rows!OfToday(rows)}
  BY <1>1, SavedRows
<1>4. Rows!OfToday(rows) \in [Keys -> RowType] /\ OwedAll(Rows!OfToday(rows))
  BY <1>2, TodaysRows DEF GainInv
<1>5. legs' = Rows!NoLegs /\ closings' = closings /\ day' = day
  BY DEF Rows!Start
<1>6. legs' \in [Keys -> {"none", "wait", "on", "off"}] /\ \A k \in Keys : legs'[k] # "off"
  BY <1>5 DEF Rows!NoLegs
<1> HIDE DEF rows
<1> QED
  BY <1>2, <1>3, <1>4, <1>5, <1>6, GoodRows DEF GainInv, TypeInv

LEMMA LegGainInv ==
  ASSUME GainInv, NEW k \in Keys, Rows!Adds(k) \/ Rows!Fills(k) PROVE GainInv'
<1>1. legs' \in [Keys -> {"none", "wait", "on", "off"}] /\ \A j \in Keys : legs'[j] = "off" => legs[j] = "off"
  BY DEF Rows!Adds, Rows!Fills, GainInv, TypeInv
<1> QED
  BY <1>1, SameRows DEF Rows!Adds, Rows!Fills, GainInv, TypeInv

(* The leg that is closed owes its row one more than the row can have.     *)
LEMMA ClosesGainInv ==
  ASSUME GainInv, NEW k \in Keys, Rows!Closes(k) PROVE GainInv'
<1>1. /\ legs' = [legs EXCEPT ![k] = "off"] /\ closings' = [closings EXCEPT ![k] = @ + 1]
      /\ cache' = cache /\ table' = table /\ day' = day
  BY DEF Rows!Closes
<1>2. TypeInv'
  BY <1>1 DEF GainInv, TypeInv
<1>3. ASSUME NEW row \in RowType, NEW j \in Keys, Owed(row, j) PROVE Owed(row, j)'
  <2>1. closings'[j] = (IF j = k THEN closings[j] + 1 ELSE closings[j]) /\ closings[j] \in Nat
    BY <1>1 DEF GainInv, TypeInv
  <2>2. j # k => legs'[j] = legs[j]
    BY <1>1 DEF GainInv, TypeInv
  <2> QED
    BY <1>3, <2>1, <2>2 DEF Owed, RowType
<1>4. \A j \in Keys : Owed(cache[j], j)' /\ Owed(table[j], j)'
  <2> TAKE j \in Keys
  <2>1. cache[j] \in RowType /\ table[j] \in RowType /\ Owed(cache[j], j) /\ Owed(table[j], j)
    BY DEF GainInv, TypeInv, OwedAll
  <2>2. cache'[j] = cache[j] /\ table'[j] = table[j]
    BY <1>1
  <2> QED
    BY <1>3, <2>1, <2>2 DEF Owed
<1> QED
  BY <1>2, <1>4 DEF GainInv, OwedAll

LEMMA ShowsGainInv ==
  ASSUME GainInv, Rows!Shows, UNCHANGED <<legs, closings, day>> PROVE GainInv'
<1>1. Rows!Rows \in [Keys -> RowType] /\ OwedAll(Rows!Rows)
  BY RefreshedRows
<1>2. cache' \in {cache, Rows!Rows} /\ table' \in {table, Rows!Rows}
  BY SavedRows DEF Rows!Shows
<1> QED
  BY <1>1, <1>2, SameLegs DEF GainInv, TypeInv

(* Rows that are emptied, or the table alone.                              *)
LEMMA EmptiedGainInv ==
  ASSUME GainInv, cache' \in {cache, Rows!NoRows}, table' \in {table, Rows!NoRows},
         legs' \in {legs, Rows!NoLegs}, UNCHANGED <<closings, day>>
  PROVE GainInv'
<1>1. Rows!NoRows \in [Keys -> RowType] /\ OwedAll(Rows!NoRows)
  BY EmptyRows DEF GainInv
<1>2. legs' \in [Keys -> {"none", "wait", "on", "off"}] /\ \A k \in Keys : legs'[k] = "off" => legs[k] = "off"
  BY DEF GainInv, TypeInv, Rows!NoLegs
<1> QED
  BY <1>1, <1>2, GoodRows DEF GainInv, TypeInv

LEMMA BootGainInv == ASSUME GainInv, Rows!Boot PROVE GainInv'
<1>1. Rows!OfToday(table) \in [Keys -> RowType] /\ OwedAll(Rows!OfToday(table))
  BY TodaysRows DEF GainInv, TypeInv
<1>2. /\ table' = Rows!OfToday(table) /\ cache' \in {cache, Rows!OfToday(table)} /\ legs' \in {legs, Rows!NoLegs}
      /\ closings' = closings /\ day' = day
  BY DEF Rows!Boot
<1>3. legs' \in [Keys -> {"none", "wait", "on", "off"}] /\ \A k \in Keys : legs'[k] = "off" => legs[k] = "off"
  BY <1>2 DEF GainInv, TypeInv, Rows!NoLegs
<1> QED
  BY <1>1, <1>2, <1>3, GoodRows DEF GainInv, TypeInv

LEMMA NextGainInv ==
  ASSUME GainInv, [Rows!Next]_Rows!vars
  PROVE  GainInv'
<1>1. ASSUME Rows!ExitsFill \/ Rows!CycleEnds \/ Rows!ReadHistory \/ Rows!DeleteOne \/ Rows!DeleteAll PROVE GainInv'
  BY <1>1, SameRows DEF Rows!ExitsFill, Rows!CycleEnds, Rows!ReadHistory, Rows!DeleteOne, Rows!DeleteAll, GainInv, TypeInv
<1>2. ASSUME Rows!DailyReset PROVE GainInv'
  <2>1. legs' \in [Keys -> {"none", "wait", "on", "off"}] /\ \A k \in Keys : legs'[k] # "off"
    BY <1>2 DEF Rows!DailyReset
  <2> QED
    BY <1>2, <2>1, SameRows DEF Rows!DailyReset, GainInv, TypeInv
<1>3. ASSUME Rows!NextDay PROVE GainInv'
  BY <1>3, SameRows DEF Rows!NextDay, GainInv, TypeInv
<1>4. ASSUME Rows!Poll PROVE GainInv'
  BY <1>4, ShowsGainInv DEF Rows!Poll
<1>5. ASSUME Rows!Crash PROVE GainInv'
  BY <1>5, EmptiedGainInv DEF Rows!Crash
<1>6. ASSUME NEW k \in Keys, Rows!Adds(k) \/ Rows!Fills(k) \/ Rows!Closes(k) PROVE GainInv'
  BY <1>6, LegGainInv, ClosesGainInv
<1>7. ASSUME NEW t \in Rows!Takers, Rows!Begins(t) PROVE GainInv'
  BY <1>7, SameRows DEF Rows!Begins, GainInv, TypeInv
<1>8. ASSUME NEW t \in Rows!Takers, Rows!Refresh(t) PROVE GainInv'
  BY <1>8, ShowsGainInv DEF Rows!Refresh
<1>9. ASSUME NEW t \in Rows!Takers, Rows!Archive(t) PROVE GainInv'
  <2>1. table' \in {table, Rows!NoRows}
    BY <1>9, SavedRows DEF Rows!Archive
  <2> QED
    BY <1>9, <2>1, EmptiedGainInv DEF Rows!Archive
<1>10. ASSUME NEW t \in Rows!Takers, Rows!Unregister(t) PROVE GainInv'
  <2>1. table' \in {table, Rows!NoRows}
    BY <1>10, SavedRows DEF Rows!Unregister
  <2> QED
    BY <1>10, <2>1, EmptiedGainInv DEF Rows!Unregister
<1>11. ASSUME UNCHANGED Rows!vars PROVE GainInv'
  BY <1>11, SameRows DEF Rows!vars, GainInv, TypeInv
<1> QED
  BY <1>1, <1>2, <1>3, <1>4, <1>5, <1>6, <1>7, <1>8, <1>9, <1>10, <1>11,
     StartGainInv, BootGainInv DEF Rows!Next

(* Polls, two takers, re-entries, failing saves, crashes and restarts in   *)
(* any order: what is shown as realized of a leg counts no closing twice.  *)
THEOREM GainsAreCountedOnce == Rows!Spec => []GainsCountOnce
<1>1. GainInv => GainsCountOnce
  BY DEF GainInv, OwedAll, Owed, GainsCountOnce, Rows!GainsCountOnce
<1> QED
  BY <1>1, InitGainInv, NextGainInv, PTL DEF Rows!Spec
=============================================================================
