------------------------------ MODULE LegMonitor ------------------------------
(* What the dashboard is shown of the legs of one strategy: the rows of    *)
(* its run, kept in a cache and in the table monitor_leg_rows, and the     *)
(* history of its completed runs, in memory and in a table of its own.     *)
(*                                                                         *)
(* A run ends by the loop of the service, when its cycle is complete, or   *)
(* by the user; each archives first and takes the strategy out afterwards, *)
(* in steps between which the other may come.                              *)
(*                                                                         *)
(* Simplifications: one strategy; every leg that was filled has earned one *)
(* when it is closed; a failing write of the table changes nothing.        *)
EXTENDS Integers, FiniteSets, FiniteSetsExt

CONSTANTS
  Keys,        \* the legs, by tag and symbol
  Users,       \* requests to stop the strategy
  MaxRuns, MaxDays,
  MaxFaults    \* bound on failing writes, crashes and deletions, together

Loop == "loop"
Takers == Users \cup {Loop}

VARIABLES
  up,        \* the process runs
  run,       \* number of the run; history
  reg,       \* the strategy is registered
  done,      \* cycle_completed of its executor
  exits,     \* exit orders of the day are open
  legs,      \* per leg "none", "wait", "on" or "off"
  cache,     \* _monitor_cache, a row for each leg
  table,     \* monitor_leg_rows
  listed,    \* _completed_monitor_history
  archive,   \* completed_monitor_history: a set of [id, run, realized]
  stage,     \* per taker how far it is
  day, reset,   \* the day, and that of the last tick
  closings,  \* history: how often each leg was closed
  shown,     \* history: [since, open], since when it has a row, and whether the last
             \* that was saved is of an open leg
  gone,      \* history: [ids, runs], the records that were deleted, and the runs whose
             \* record was deleted or could not be written
  faults

vars == <<up, run, reg, done, exits, legs, cache, table, listed, archive, stage, day, reset,
          closings, shown, gone, faults>>

NoRow == [st |-> "none", opened |-> 0, realized |-> 0]
NoRows == [k \in Keys |-> NoRow]
NoLegs == [k \in Keys |-> "none"]
Never == [k \in Keys |-> 0]
Unseen == [k \in Keys |-> [since |-> 0, open |-> FALSE]]

Init ==
  /\ up = TRUE /\ run = 0 /\ reg = FALSE /\ done = FALSE /\ exits = FALSE
  /\ legs = NoLegs /\ cache = NoRows /\ table = NoRows /\ listed = {} /\ archive = {}
  /\ stage = [t \in Takers |-> "idle"] /\ day = 1 /\ reset = 1
  /\ closings = Never /\ shown = Unseen /\ gone = [ids |-> {}, runs |-> {}] /\ faults = 0

(* What a write of a table leaves behind: it may fail. *)
Written(old, new) ==
  \/ table' = new /\ faults' = faults
  \/ table' = old /\ faults < MaxFaults /\ faults' = faults + 1

-----------------------------------------------------------------------------

(* The rows of earlier days are dropped when the strategy is registered.   *)
OfToday(rows) == [k \in Keys |-> IF rows[k].opened >= day THEN rows[k] ELSE NoRow]

(* start_strategy_execution and register_strategy. *)
Start ==
  /\ up /\ ~reg /\ run < MaxRuns /\ \A t \in Takers : stage[t] = "idle"
  /\ run' = run + 1 /\ reg' = TRUE /\ done' = FALSE /\ exits' = FALSE
  /\ legs' = NoLegs /\ reset' = day
  /\ \E cleared \in BOOLEAN :
       LET rows == IF cleared THEN NoRows ELSE table
       IN cache' = OfToday(rows) /\ Written(rows, OfToday(rows))
  /\ shown' = [k \in Keys |-> [since |-> cache'[k].opened, open |-> FALSE]]
  /\ UNCHANGED <<up, listed, archive, stage, day, closings, gone>>

(* An order for the leg, its fill, and its exit. *)
Adds(k) ==
  /\ reg /\ ~done /\ legs[k] \in {"none", "off"} /\ legs' = [legs EXCEPT ![k] = "wait"]
  /\ UNCHANGED <<up, run, reg, done, exits, cache, table, listed, archive, stage, day, reset, closings, shown, gone, faults>>

Fills(k) ==
  /\ reg /\ legs[k] = "wait" /\ legs' = [legs EXCEPT ![k] = "on"]
  /\ UNCHANGED <<up, run, reg, done, exits, cache, table, listed, archive, stage, day, reset, closings, shown, gone, faults>>

Closes(k) ==
  /\ reg /\ legs[k] = "on" /\ closings[k] < MaxRuns
  /\ legs' = [legs EXCEPT ![k] = "off"] /\ closings' = [closings EXCEPT ![k] = @ + 1]
  /\ exits' = TRUE
  /\ UNCHANGED <<up, run, reg, done, cache, table, listed, archive, stage, day, reset, shown, gone, faults>>

ExitsFill ==
  /\ exits /\ exits' = FALSE
  /\ UNCHANGED <<up, run, reg, done, legs, cache, table, listed, archive, stage, day, reset, closings, shown, gone, faults>>

CycleEnds ==
  /\ reg /\ ~done /\ \A k \in Keys : legs[k] # "on" /\ done' = TRUE
  /\ UNCHANGED <<up, run, reg, exits, legs, cache, table, listed, archive, stage, day, reset, closings, shown, gone, faults>>

(* The first tick of a day forgets the inactive legs. *)
DailyReset ==
  /\ reg /\ reset < day /\ reset' = day /\ done' = FALSE
  /\ legs' = [k \in Keys |-> IF legs[k] = "on" THEN "on" ELSE "none"]
  /\ UNCHANGED <<up, run, reg, exits, cache, table, listed, archive, stage, day, closings, shown, gone, faults>>

NextDay ==
  /\ day < MaxDays /\ day' = day + 1 /\ exits' = FALSE
  /\ UNCHANGED <<up, run, reg, done, legs, cache, table, listed, archive, stage, reset, closings, shown, gone, faults>>

-----------------------------------------------------------------------------
(* get_strategy_leg_monitor_snapshot, under the lock of the service.       *)
Gain(k) == IF legs[k] = "off" THEN 1 ELSE 0

(* Mutation: the gain is added for every leg that is not open. *)
ClosedNowAlways(row, k) == legs[k] # "on"

ClosedNow(row, k) == row.st = "ACTIVE" /\ legs[k] # "on"

Refreshed(k) ==
  LET old == cache[k]
      row == IF old.st = "none" THEN [NoRow EXCEPT !.opened = day] ELSE old
  IN [st |-> IF legs[k] = "on" THEN "ACTIVE" ELSE "CLOSED", opened |-> row.opened,
      realized |-> row.realized + (IF ClosedNow(row, k) THEN Gain(k) ELSE 0)]

(* A row that is not seen any more stays when it is closed, and a closed   *)
(* row only on the day on which it was opened.                             *)
Rows ==
  [k \in Keys |->
     LET row == IF legs[k] # "none" THEN Refreshed(k)
                ELSE IF cache[k].st = "CLOSED" THEN cache[k] ELSE NoRow
     IN IF row.st = "CLOSED" /\ row.opened < day THEN NoRow ELSE row]

Shows ==
  IF reg THEN /\ cache' = Rows /\ Written(table, Rows)
              /\ shown' = [k \in Keys |->
                   IF Rows[k] = NoRow THEN Unseen[k]
                   ELSE [since |-> IF shown[k].since # 0 THEN shown[k].since ELSE day,
                         open |-> Rows[k].st = "ACTIVE" /\ table' = Rows]]
         ELSE UNCHANGED <<cache, table, shown, faults>>

(* The dashboard asks for the rows. *)
Poll ==
  /\ up /\ reg /\ Shows
  /\ UNCHANGED <<up, run, reg, done, exits, legs, listed, archive, stage, day, reset, closings, gone>>

-----------------------------------------------------------------------------
(* The end of a run. *)
At(t, where) == stage[t] = where
Go(t, where) == stage' = [stage EXCEPT ![t] = where]

FirstStage(t) == "due"

(* The loop has found the cycle complete, all legs inactive and no exit of *)
(* the day open; or the user's request has found the strategy.             *)
Begins(t) ==
  /\ up /\ reg /\ At(t, "idle") /\ Go(t, FirstStage(t))
  /\ t = Loop => done /\ ~exits /\ \A k \in Keys : legs[k] # "on"
  /\ UNCHANGED <<up, run, reg, done, exits, legs, cache, table, listed, archive, day, reset, closings, shown, gone, faults>>

(* _archive_completed_strategy: the rows are refreshed first, ... *)
Refresh(t) ==
  /\ up /\ At(t, "due") /\ Go(t, "fresh") /\ Shows
  /\ UNCHANGED <<up, run, reg, done, exits, legs, listed, archive, day, reset, closings, gone>>

(* ... then a record is made of them, even when the strategy is gone, and  *)
(* the table is cleared: the cache is not.                                 *)
NewId == 1 + Max({0} \cup gone.ids \cup {r.id : r \in archive \cup listed})
Record == [id |-> NewId, run |-> IF reg THEN run ELSE 0,
           realized |-> MapThenSumSet(LAMBDA k : IF cache[k].st = "CLOSED" THEN cache[k].realized ELSE 0, Keys)]

Archive(t) ==
  /\ up /\ At(t, "fresh") /\ Go(t, "archived")
  /\ listed' = listed \cup {Record}
  /\ shown' = [k \in Keys |-> [shown[k] EXCEPT !.open = FALSE]]
  /\ \/ archive' = archive \cup {Record} /\ Written(table, NoRows) /\ gone' = gone
     \/ /\ archive' = archive /\ table' = table /\ faults < MaxFaults /\ faults' = faults + 1
        /\ gone' = [gone EXCEPT !.runs = @ \cup {Record.run}]
  /\ UNCHANGED <<up, run, reg, done, exits, legs, cache, day, reset, closings>>

(* unregister_strategy *)
Unregister(t) ==
  /\ up /\ At(t, "archived") /\ Go(t, "idle")
  /\ reg' = FALSE /\ legs' = NoLegs /\ done' = FALSE /\ shown' = Unseen
  /\ cache' = NoRows /\ Written(table, NoRows)
  /\ UNCHANGED <<up, run, exits, listed, archive, day, reset, closings, gone>>

-----------------------------------------------------------------------------
(* The history of completed runs: the table where it has any, else what is *)
(* in memory.                                                              *)
ReadHistory ==
  /\ up /\ listed' = (IF archive # {} THEN archive ELSE listed)
  /\ UNCHANGED <<up, run, reg, done, exits, legs, cache, table, archive, stage, day, reset, closings, shown, gone, faults>>

Ids(records) == {r.id : r \in records}

Without(records, ids) == {r \in records : r.id \notin ids}

(* One record is deleted, by the time of its end: in the table together    *)
(* with those of the same second.                                          *)
DeleteOne ==
  /\ up /\ faults < MaxFaults /\ faults' = faults + 1
  /\ \E r \in archive \cup listed : \E near \in SUBSET archive :
       /\ archive' = archive \ (near \cup {r})
       /\ listed' = Without(listed, {r.id})
       /\ gone' = [ids |-> gone.ids \cup {r.id}, runs |-> gone.runs \cup {s.run : s \in near \cup {r}}]
  /\ UNCHANGED <<up, run, reg, done, exits, legs, cache, table, stage, day, reset, closings, shown>>

DeleteAll ==
  /\ up /\ faults < MaxFaults /\ faults' = faults + 1 /\ archive \cup listed # {}
  /\ gone' = [ids |-> gone.ids \cup Ids(archive \cup listed),
              runs |-> gone.runs \cup {r.run : r \in archive \cup listed}]
  /\ archive' = {} /\ listed' = Without(listed, Ids(archive \cup listed))
  /\ UNCHANGED <<up, run, reg, done, exits, legs, cache, table, stage, day, reset, closings, shown>>

-----------------------------------------------------------------------------
Crash ==
  /\ up /\ faults < MaxFaults /\ faults' = faults + 1
  /\ up' = FALSE /\ cache' = NoRows /\ listed' = {} /\ stage' = [t \in Takers |-> "idle"]
  /\ UNCHANGED <<run, reg, done, exits, legs, table, archive, day, reset, closings, shown, gone>>

(* The service clears the rows of earlier days; a strategy with an open    *)
(* leg is resumed from its own file.                                       *)
Boot ==
  /\ ~up /\ up' = TRUE /\ listed' = archive
  /\ table' = OfToday(table) /\ done' = FALSE /\ reset' = day
  /\ IF reg /\ \E k \in Keys : legs[k] = "on"
       THEN cache' = OfToday(table) /\ UNCHANGED <<reg, legs, shown>>
       ELSE reg' = FALSE /\ legs' = NoLegs /\ shown' = Unseen /\ cache' = cache
  /\ UNCHANGED <<run, exits, archive, stage, day, closings, gone, faults>>

Next ==
  \/ Start \/ ExitsFill \/ CycleEnds \/ DailyReset \/ NextDay \/ Poll
  \/ ReadHistory \/ DeleteOne \/ DeleteAll \/ Crash \/ Boot
  \/ \E k \in Keys : up /\ (Adds(k) \/ Fills(k) \/ Closes(k))
  \/ \E t \in Takers : Begins(t) \/ Refresh(t) \/ Archive(t) \/ Unregister(t)

Spec == Init /\ [][Next]_vars

-----------------------------------------------------------------------------
(* What is shown as realized of a leg counts no closing of it twice: not   *)
(* by a poll that finds it closed again, a re-entry of the same contract,  *)
(* rows loaded after a restart, or a save that failed.                     *)
GainsCountOnce ==
  \A k \in Keys : cache[k].realized <= closings[k] /\ table[k].realized <= closings[k]

(* A leg that was shown open today has its gain in the rows when it is     *)
(* shown closed, over a crash and a resumption in between.                 *)
SeenGainsCount ==
  [][\A k \in Keys :
       cache' # cache /\ up /\ up' /\ reg /\ reg' /\ run' = run
         /\ shown[k].open /\ shown[k].since = day /\ legs[k] = "off"
         => cache'[k].st = "CLOSED" /\ cache'[k].realized > 0]_vars

(* A strategy that is taken out of the service has a record of its run,    *)
(* whoever takes it out, unless it could not be written.                   *)
EveryRunIsRecorded ==
  [][reg /\ ~reg' /\ up => run \in gone.runs \cup {r.run : r \in listed \cup archive}]_vars

(* A record that was deleted is not shown again, by the table or by what   *)
(* is shown when the table has none.                                       *)
DeletedStaysDeleted == gone.ids \cap Ids(archive \cup listed) = {}

(* What does not hold: a run has one record.  The loop and a request, or   *)
(* two requests, archive it before either takes it out.                    *)
OneRecordPerRun ==
  \A r, s \in archive : r.run # 0 /\ r.run = s.run => r = s
=============================================================================
