-------------------------- MODULE MCEntriesAndRows --------------------------
(* The two ends of a run of a strategy: in the part "entries" its entries  *)
(* compete for one strategy and symbol, in the part "rows" its legs are    *)
(* shown, archived and shown again.  The run explores the sum of the two   *)
(* spaces.                                                                 *)
EXTENDS MCOrderLifecycle, TLC

CONSTANTS Keys, Users, MaxRuns, MaxDays, MaxFaults

VARIABLES
  part,
  up, run, reg, done, exits, legs, cache, table, listed, archive, stage, day, reset, closings,
  shown, gone, faults

rowVars == <<up, run, reg, done, exits, legs, cache, table, listed, archive, stage, day, reset,
             closings, shown, gone, faults>>

Rows == INSTANCE LegMonitor

MInit == part \in {"entries", "rows"} /\ Init /\ Rows!Init

(* A second run, a second day, a fault or two: three of them at most.      *)
MNext ==
  /\ part' = part
  /\ \/ part = "entries" /\ Next /\ UNCHANGED rowVars
     \/ part = "rows" /\ Rows!Next /\ UNCHANGED vars /\ run' + day' + faults' <= 4

(* The two entries are alike: same strategy, same symbol, no order.        *)
AlikeEntries == Permutations(Entries)

MSpec == MInit /\ [][MNext]_<<part, vars, rowVars>>

(* The properties of the rows, under names a configuration can use.        *)
GainsCountOnce == Rows!GainsCountOnce
=============================================================================
