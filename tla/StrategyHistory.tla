-------------------------- MODULE StrategyHistory --------------------------
(***************************************************************************)
(* The history of the strategies: analytics/historical_service.py and the  *)
(* table of analytics/sqlite_historical_store.py it writes.                *)
(*                                                                         *)
(* A thread copies the registered strategies, then their run-time states,  *)
(* compares each with what it saw last and writes a sample and the events  *)
(* ENTRY, EXIT and ADJUSTMENT.  It takes no lock of the executor service,  *)
(* so a strategy may be half registered when it is copied; the insert of   *)
(* the samples comes before that of the events and either may fail; the    *)
(* process may end anywhere, and what was seen last is then rebuilt from   *)
(* the table.                                                              *)
(*                                                                         *)
(* A row carries the week it was written in, for the clean-up, and the     *)
(* number of blemishes (a failed insert, a restart, a clean-up) before it. *)
(***************************************************************************)
EXTENDS Naturals, Sequences, SequencesExt, Functions

CONSTANTS Names,          \* the strategies
          MaxChanges,     \* bound: openings and closings of a strategy
          MaxRegister,    \* bound: registrations and their ends
          MaxAdjust,      \* bound: adjustments of a strategy
          MaxFaults       \* bound: inserts that fail and ends of the process

VARIABLES legs,           \* executor: any_leg_active and lifetime_adjustments
          changes,        \* ghost: openings and closings so far
          registers,      \* counts registrations, for the bound
          known,          \* executor service: keys of _strategies
          stated,         \* executor service: keys of _exec_states
          pc,             \* where the thread is
          cfgs, states,   \* the two copies it has taken
          last,           \* _last_strategy_state
          batch,          \* events to insert
          samples,        \* table strategy_samples: adjustments and week
          events,         \* table strategy_events
          week,           \* the calendar
          blemishes, faults

real == <<legs, changes, registers, known, stated>>
mem == <<cfgs, states, last, batch>>
tables == <<samples, events>>
world == <<week, blemishes, faults>>
vars == <<real, pc, mem, tables, world>>

Never == [active |-> FALSE, adj |-> 0, seen |-> FALSE]
SeenAs(a, n) == [active |-> a, adj |-> n, seen |-> TRUE]
Event(s, k) == [name |-> s, kind |-> k, turn |-> changes[s],
                week |-> week, after |-> blemishes]

\* WHERE strategy_name = s
OfName(rows, s) == {i \in DOMAIN rows : rows[i].name = s}

Init == /\ legs = [s \in Names |-> [active |-> FALSE, adj |-> 0]]
        /\ changes = [s \in Names |-> 0]
        /\ registers = 0 /\ known = {} /\ stated = {}
        /\ pc = "seed"
        /\ cfgs = {} /\ states = {} /\ last = [s \in Names |-> Never] /\ batch = <<>>
        /\ samples = <<>> /\ events = <<>>
        /\ week = 0 /\ blemishes = 0 /\ faults = 0

----------------------------------------------------------------------------
(* The executor service *)

\* register_strategy puts the config in first and the state after the
\* executor is built; unregister_strategy takes them out in the same order.
Registers(s) == /\ known = stated /\ registers < MaxRegister
                /\ registers' = registers + 1
                /\ known' = (IF s \in known THEN known \ {s} ELSE known \cup {s})
                /\ UNCHANGED <<legs, changes, stated, pc, mem, tables, world>>

Settles == /\ known # stated
           /\ stated' = known
           /\ UNCHANGED <<legs, changes, registers, known, pc, mem, tables, world>>

Turns(s) == /\ s \in stated /\ changes[s] < MaxChanges
            /\ legs' = [legs EXCEPT ![s].active = ~@]
            /\ changes' = [changes EXCEPT ![s] = @ + 1]
            /\ UNCHANGED <<registers, known, stated, pc, mem, tables, world>>

Adjusts(s) == /\ s \in stated /\ legs[s].active /\ legs[s].adj < MaxAdjust
              /\ legs' = [legs EXCEPT ![s].adj = @ + 1]
              /\ UNCHANGED <<changes, registers, known, stated, pc, mem, tables, world>>

----------------------------------------------------------------------------
(* The thread *)

\* fetch_strategy_samples and fetch_strategy_events with a limit of one:
\* ORDER BY ts ASC LIMIT 1
Fetched(rows, s) == rows[Min(OfName(rows, s))]

\* _seed_last_state
Seeded(s) == IF s \notin known \/ OfName(events, s) = {} THEN last[s]
             ELSE SeenAs(Fetched(events, s).kind # "EXIT",
                         IF OfName(samples, s) = {} THEN 0 ELSE Fetched(samples, s).adj)

Seed == /\ pc = "seed"
        /\ last' = [s \in Names |-> Seeded(s)]
        /\ pc' = "copy"
        /\ UNCHANGED <<real, cfgs, states, batch, tables, world>>

CopyConfigs == /\ pc = "copy"
               /\ cfgs' = known /\ pc' = "copied"
               /\ UNCHANGED <<real, states, last, batch, tables, world>>

CopyStates == /\ pc = "copied"
              /\ states' = stated /\ pc' = "compare"
              /\ UNCHANGED <<real, cfgs, last, batch, tables, world>>

\* A name without a state reads as inactive and never adjusted.
Now(s) == IF s \in states THEN SeenAs(legs[s].active, legs[s].adj) ELSE SeenAs(FALSE, 0)

Events(s) == LET was == last[s]
                 now == Now(s)
             IN  (IF ~was.active /\ now.active THEN <<Event(s, "ENTRY")>> ELSE <<>>)
                 \o (IF was.active /\ ~now.active THEN <<Event(s, "EXIT")>> ELSE <<>>)
                 \o (IF was.seen /\ now.adj > was.adj
                     THEN <<Event(s, "ADJUSTMENT")>> ELSE <<>>)

\* Mutation: the last state is written only for a name that has one.
SeenNextOnce(s) == IF s \in states /\ ~last[s].seen THEN Now(s) ELSE last[s]
\* _last_strategy_state[name] = ..., before anything is inserted
SeenNext(s) == Now(s)

Compare == /\ pc = "compare"
           /\ batch' = FlattenSeq([i \in 1 .. Len(SetToSeq(cfgs)) |-> Events(SetToSeq(cfgs)[i])])
           /\ last' = [s \in Names |-> IF s \in cfgs THEN SeenNext(s) ELSE last[s]]
           /\ pc' = "samples"
           /\ UNCHANGED <<real, cfgs, states, tables, world>>

\* Only the oldest sample of a name is ever read by the thread.
Sampled == LET new == {s \in cfgs : OfName(samples, s) = {}}
           IN  samples \o [i \in 1 .. Len(SetToSeq(new)) |->
                  [name |-> SetToSeq(new)[i], adj |-> last[SetToSeq(new)[i]].adj, week |-> week]]

\* insert_strategy_samples
Sample == /\ pc = "samples"
          /\ samples' = Sampled
          /\ pc' = "events"
          /\ UNCHANGED <<real, mem, events, world>>

\* insert_strategy_events: one transaction
Record == /\ pc = "events"
          /\ events' = events \o batch
          /\ batch' = <<>> /\ pc' = "copy"
          /\ UNCHANGED <<real, cfgs, states, last, samples, world>>

\* _run_loop logs the exception and sleeps until the next turn.
AfterError == "copy"

Fails == /\ pc \in {"samples", "events"} /\ faults < MaxFaults
         /\ faults' = faults + 1 /\ blemishes' = blemishes + 1
         /\ batch' = <<>> /\ pc' = AfterError
         /\ UNCHANGED <<real, cfgs, states, last, tables, week>>

\* _cleanup_old_data, after the inserts of a turn: rows of an earlier week go
CleanUp == /\ pc = "copy" /\ \E r \in Range(samples) \cup Range(events) : r.week < week
           /\ samples' = SelectSeq(samples, LAMBDA r: r.week = week)
           /\ events' = SelectSeq(events, LAMBDA r: r.week = week)
           /\ blemishes' = blemishes + 1
           /\ UNCHANGED <<real, pc, mem, week, faults>>

----------------------------------------------------------------------------
(* The calendar, and a new process: the thread is started before the       *)
(* strategies are registered again.                                        *)

NextWeek == /\ week = 0 /\ week' = 1
            /\ UNCHANGED <<real, pc, mem, tables, blemishes, faults>>

Restart == /\ faults < MaxFaults
           /\ faults' = faults + 1 /\ blemishes' = blemishes + 1
           /\ known' = {} /\ stated' = {}
           /\ pc' = "seed"
           /\ cfgs' = {} /\ states' = {} /\ last' = [s \in Names |-> Never] /\ batch' = <<>>
           /\ UNCHANGED <<legs, changes, registers, tables, week>>

Observe == Seed \/ CopyConfigs \/ CopyStates \/ Compare \/ Sample \/ Record

Next == \/ \E s \in Names : Registers(s) \/ Turns(s) \/ Adjusts(s)
        \/ Settles \/ Observe \/ Fails \/ CleanUp \/ NextWeek \/ Restart

Fairness == WF_vars(Observe)
Spec == Init /\ [][Next]_vars /\ Fairness

----------------------------------------------------------------------------
(* Properties *)

\* The rows of entries and exits of a strategy, and which of two is next.
Moves(rows, s) == {i \in OfName(rows, s) : rows[i].kind # "ADJUSTMENT"}
Adjacent(s, i, j) == /\ {i, j} \subseteq Moves(events, s) /\ i < j
                     /\ \A k \in Moves(events, s) : k <= i \/ j <= k
EntryIsLast(rows, s) ==
  \E i \in Moves(rows, s) : rows[i].kind = "ENTRY" /\ \A j \in Moves(rows, s) : j <= i

\* Entries and exits of a strategy alternate: the same kind follows itself
\* only over a blemish, a batch that was lost or a memory that was rebuilt.
EventsAlternate ==
  \A s \in Names : \A i, j \in DOMAIN events :
     Adjacent(s, i, j) /\ events[i].kind = events[j].kind => events[i].after < events[j].after

\* While nothing has failed the table says of a strategy what the thread saw
\* last, whatever registrations, closings and adjustments came between the
\* two copies it takes.
TableIsMemory ==
  pc = "copy" /\ blemishes = 0 =>
     \A s \in Names : last[s].active = EntryIsLast(events, s)

\* A strategy that stays registered and held is seen as held for good, also
\* after inserts that failed.
ThreadCatchesUp ==
  \A s \in Names : <>[](s \in known /\ s \in stated /\ legs[s].active) => <>[](last[s].active)

\* What _seed_last_state is for: a restart alone repeats no entry.  It does
\* not hold: the thread seeds before the strategies are registered, and what
\* it reads is the oldest event and not the last.
RestartRepeatsNoEntry ==
  \A s \in Names : \A i, j \in DOMAIN events :
     Adjacent(s, i, j) /\ events[i].kind = "ENTRY" /\ events[j].kind = "ENTRY" =>
        events[i].turn # events[j].turn
=============================================================================
