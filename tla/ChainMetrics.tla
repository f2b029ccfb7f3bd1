---------------------------- MODULE ChainMetrics ----------------------------
(***************************************************************************)
(* What the analytics thread measures of a chain file:                     *)
(* _collect_option_chain_metrics and _collect_option_ticks of              *)
(* analytics/historical_service.py, against the store of the chain that    *)
(* writes the file and the supervisor that unlinks it.                     *)
(*                                                                         *)
(* The header and the rows of the file are read by separate statements     *)
(* outside a transaction, and the build-up of a measurement is computed    *)
(* against a total kept in memory, which is replaced before the            *)
(* measurement is inserted.  A snapshot is its number; the open interest   *)
(* of its rows is that number too.                                         *)
(***************************************************************************)
EXTENDS Naturals, Sequences

CONSTANTS MaxSnapshots,   \* bound: snapshots written
          MaxRows,        \* bound: measurements inserted
          MaxFailures     \* bound: reads and inserts that fail

VARIABLES file,           \* disk: "none", "empty" or "chain"
          snapshot,       \* disk: the snapshot in the file
          age,            \* whether that snapshot is older than five minutes
          pc, meta, rows, stale,   \* thread: what it has read
          base,           \* thread: _last_option_totals, 0 for no entry
          against,        \* thread: the total this measurement is against
          measured,       \* table option_chain_metrics
          ticks,          \* table option_ticks: the newest snapshot it has rows of
          failures, restarts

disk == <<file, snapshot, age>>
read == <<meta, rows, stale>>
vars == <<disk, pc, read, base, against, measured, ticks, failures, restarts>>

Init == /\ file = "chain" /\ snapshot = 1 /\ age = FALSE
        /\ pc = "glob" /\ meta = 0 /\ rows = 0 /\ stale = FALSE
        /\ base = 0 /\ against = 0
        /\ measured = <<>> /\ ticks = 0 /\ failures = 0 /\ restarts = 0

----------------------------------------------------------------------------
(* The chain *)

\* write_snapshot: header and rows in one transaction
Writes == /\ file = "chain" /\ snapshot < MaxSnapshots
          /\ snapshot' = snapshot + 1 /\ age' = FALSE
          /\ UNCHANGED <<file, pc, read, base, against, measured, ticks, failures, restarts>>

Ages == /\ ~age /\ age' = TRUE
        /\ UNCHANGED <<file, snapshot, pc, read, base, against, measured, ticks, failures, restarts>>

Unlinks == /\ file # "none" /\ file' = "none"
           /\ UNCHANGED <<snapshot, age, pc, read, base, against, measured, ticks, failures, restarts>>

Created == /\ file # "chain" /\ snapshot < MaxSnapshots
           /\ file' = "chain" /\ snapshot' = snapshot + 1 /\ age' = FALSE
           /\ UNCHANGED <<pc, read, base, against, measured, ticks, failures, restarts>>

----------------------------------------------------------------------------
(* The thread: metrics, then ticks *)

Glob == /\ pc \in {"glob", "glob ticks"}
        /\ pc' = CASE file = "none" /\ pc = "glob" -> "glob ticks"
                   [] file = "none" /\ pc = "glob ticks" -> "glob"
                   [] pc = "glob" -> "header"
                   [] OTHER -> "tick header"
        /\ UNCHANGED <<disk, read, base, against, measured, ticks, failures, restarts>>

\* connect makes the file when it has gone; a file without tables ends the
\* extraction.
AfterExtraction == IF pc \in {"header", "rows"} THEN "glob ticks" ELSE "glob"

Header == /\ pc \in {"header", "tick header"}
          /\ \/ /\ file = "chain" /\ meta' = snapshot /\ stale' = age /\ file' = file
                /\ pc' = CASE pc = "header" -> "rows"
                           [] age -> "glob"
                           [] OTHER -> "tick rows"
             \/ /\ file # "chain" /\ file' = "empty" /\ pc' = AfterExtraction
                /\ UNCHANGED <<meta, stale>>
          /\ UNCHANGED <<snapshot, age, rows, base, against, measured, ticks, failures, restarts>>

\* Mutation: the total is remembered once, when the chain is first seen.
BaseFirst(total) == IF base = 0 THEN total ELSE base
\* _last_option_totals[key] = ...
BaseNext(total) == total

\* A file that was unlinked or replaced is still read by the connection
\* that has it open.
Rows == /\ pc = "rows"
        /\ \E now \in {meta, snapshot} :
              /\ rows' = now
              /\ against' = (IF base = 0 THEN now ELSE base)
              /\ base' = BaseNext(now)
        /\ pc' = "insert"
        /\ UNCHANGED <<disk, meta, stale, measured, ticks, failures, restarts>>

Inserts == /\ pc = "insert" /\ Len(measured) < MaxRows
           /\ measured' = Append(measured, [meta |-> meta, rows |-> rows, against |-> against])
           /\ meta' = 0 /\ rows' = 0 /\ stale' = FALSE /\ against' = 0
           /\ pc' = "glob ticks"
           /\ UNCHANGED <<disk, base, ticks, failures, restarts>>

TickRows == /\ pc = "tick rows"
            /\ ticks' = meta
            /\ meta' = 0 /\ stale' = FALSE /\ pc' = "glob"
            /\ UNCHANGED <<disk, rows, base, against, measured, failures, restarts>>

\* A read that fails: the turn goes on without the chain.  An insert of the
\* measurements that fails ends the turn.
Fails == /\ pc \in {"header", "rows", "insert", "tick header", "tick rows"}
         /\ failures < MaxFailures /\ failures' = failures + 1
         /\ pc' = (IF pc = "insert" THEN "glob" ELSE AfterExtraction)
         /\ meta' = 0 /\ rows' = 0 /\ stale' = FALSE /\ against' = 0
         /\ UNCHANGED <<disk, base, measured, ticks, restarts>>

Restart == /\ restarts = 0 /\ restarts' = 1
           /\ pc' = "glob" /\ base' = 0
           /\ meta' = 0 /\ rows' = 0 /\ stale' = FALSE /\ against' = 0
           /\ UNCHANGED <<disk, measured, ticks, failures>>

Next == \/ Writes \/ Ages \/ Unlinks \/ Created
        \/ Glob \/ Header \/ Rows \/ Inserts \/ TickRows \/ Fails \/ Restart

Spec == Init /\ [][Next]_vars

----------------------------------------------------------------------------
(* Properties *)

\* The build-ups of a chain cover stretches of time that do not overlap,
\* over failed inserts and a restart: no change of the open interest is
\* reported twice.
NothingCountedTwice ==
  \A i, j \in 1 .. Len(measured) : i < j => measured[i].rows <= measured[j].against

\* The header of a measurement is of the snapshot of its rows.  It does not
\* hold: a snapshot may be written between the two statements.
OneSnapshotMeasured == \A i \in 1 .. Len(measured) : measured[i].meta = measured[i].rows

\* Only the store of a chain makes its file.  It does not hold: a file that
\* is unlinked between glob and connect comes back empty.
NoEmptyFile == file # "empty"
=============================================================================
