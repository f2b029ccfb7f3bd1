----------------------------- MODULE RiskManager -----------------------------
(* SupremeRiskManager: the daily loss limit and its trailing, the breach   *)
(* and the exit it routes, the flattening after it, the loss days and the  *)
(* cooldown, the state file and the restart.                               *)
(*                                                                         *)
(* An RLock serialises heartbeat and can_execute, so a call is one step    *)
(* except where a crash or a failure inside it leaves a difference: after  *)
(* a save of the state file and around the routing of the exit.            *)
(*                                                                         *)
(* Simplifications: one product and no CNC rows, the alerts and statistics *)
(* are left out, and a save of the state file is atomic.                   *)
EXTENDS Integers, Sequences, FiniteSets

CONSTANTS
  Days,        \* trading days; 0 is a Monday
  Base,        \* BASE_MAX_LOSS
  Step,        \* TRAIL_STEP
  LossDays,    \* MAX_CONSECUTIVE_LOSS_DAYS
  Pnls,        \* profits and losses of the positions
  Glitches,    \* what can go wrong with get_positions: "error", "empty"
  MaxLots,     \* bound on the lots held
  MaxManual,   \* bound on the trades made by hand
  MaxCrashes   \* bound on the crashes

ASSUME RiskAssumption ==
  /\ Days \subseteq Nat /\ IsFiniteSet(Days) /\ Days # {}
  /\ Base \in Int /\ Base < 0 /\ Step \in Nat \ {0} /\ LossDays \in Nat \ {0}
  /\ Pnls \subseteq Int /\ 0 \in Pnls
  /\ Glitches \subseteq {"error", "empty"}
  /\ MaxLots \in Nat /\ MaxManual \in Nat /\ MaxCrashes \in Nat

VARIABLES
  today, session,  \* the calendar, and "before", "open" or "after" market hours
  lots, listed, pnl,  \* the broker's view: lots held, whether it lists rows, their result
  ticket,   \* an entry can_execute let through: "none", "allowed", "open" at the broker
  exit,     \* an exit that was routed: "none", "created", "open", and its lots
  risk,     \* the manager's memory; a dead process keeps it until the restart
  saved,    \* the state file
  at,       \* where the process is in a call of the manager; "down" when it is dead
  breached, asked,   \* history: a breach today, and exit_positions was called for it,
  paused, realPeak,  \* the end of the last cooldown, today's best result
  manual, crashes  \* counters for the bounds

calendar == <<today, session>>
broker == <<lots, listed, pnl>>
orders == <<ticket, exit>>
process == <<risk, saved, at>>
counters == <<manual, crashes>>
history == <<breached, asked, paused, realPeak>>
vars == <<calendar, broker, orders, process, history, counters>>

-----------------------------------------------------------------------------
Weekday(d) == d % 7

Call(what, who) == [doing |-> what, by |-> who]
Up == Call("nothing", "nobody")
Down == Call("dead", "nobody")

Live == lots > 0

(* The state of a new manager.  until: cooldown_until, 0 for None; last:   *)
(* last_known_pnl, where None and 0 are treated alike.                     *)
Fresh(d) == [day |-> d, pnl |-> 0, last |-> 0, limit |-> Base, peak |-> 0,
             hit |-> FALSE, forced |-> FALSE, failed |-> <<>>, until |-> 0]

(* Mutation: the flag of the breach is not written. *)
StoredUnhit(r) == [r EXCEPT !.pnl = 0, !.last = 0, !.hit = FALSE]

(* What _save_state writes and _load_state reads back on the same day.     *)
Stored(r) == [r EXCEPT !.pnl = 0, !.last = 0]

(* _load_state: a file of another day is ignored. *)
Loaded == IF saved.day = today THEN saved ELSE Fresh(today)

(* _reset_daily_state *)
Reset(r, d) ==
  [Fresh(d) EXCEPT !.last = r.last, !.failed = r.failed, !.until = r.until]

Init ==
  /\ today \in Days /\ session = "before"
  /\ lots = 0 /\ listed = FALSE /\ pnl = 0
  /\ ticket = "none" /\ exit = [at |-> "none", lots |-> 0]
  /\ risk = Fresh(today) /\ saved = Fresh(today) /\ at = Up
  /\ breached = FALSE /\ asked = FALSE /\ paused = 0 /\ realPeak = 0
  /\ manual = 0 /\ crashes = 0

-----------------------------------------------------------------------------
(* The calendar and the broker.  Before the market opens the broker still  *)
(* shows yesterday's result of what is flat; what is held is marked anew.  *)
Better(p) == IF p > realPeak THEN p ELSE realPeak

NewDay ==
  /\ session = "after" /\ session' = "before"
  /\ today' \in Days /\ today' > today /\ \A d \in Days : d > today => d >= today'
  /\ pnl' \in IF Live THEN Pnls ELSE {pnl}
  /\ realPeak' = IF Live /\ pnl' > 0 THEN pnl' ELSE 0
  /\ ticket' = IF ticket = "open" THEN "none" ELSE ticket
  /\ exit' = IF exit.at = "open" THEN [at |-> "none", lots |-> 0] ELSE exit
  /\ breached' = FALSE /\ asked' = FALSE
  /\ UNCHANGED <<lots, listed, process, paused, counters>>

Opens ==
  /\ session = "before" /\ session' = "open"
  /\ listed' = Live
  /\ pnl' = IF Live THEN pnl ELSE 0
  /\ UNCHANGED <<today, lots, orders, process, history, counters>>

Closes ==
  /\ session = "open" /\ session' = "after"
  /\ UNCHANGED <<today, broker, orders, process, history, counters>>

PnlMoves ==
  /\ session = "open" /\ Live
  /\ pnl' \in Pnls \ {pnl} /\ realPeak' = Better(pnl')
  /\ UNCHANGED <<calendar, lots, listed, orders, process, breached, asked, paused, counters>>

(* Positions change: an entry in flight arrives or fills, the exit is      *)
(* dispatched by the watcher and fills, the user trades.                   *)
EntrySent ==
  /\ ticket = "allowed" /\ at # Down
  /\ ticket' = "open"
  /\ UNCHANGED <<calendar, broker, exit, process, history, counters>>

EntryFills ==
  /\ ticket = "open" /\ session = "open" /\ lots < MaxLots
  /\ ticket' = "none" /\ lots' = lots + 1 /\ listed' = TRUE
  /\ UNCHANGED <<calendar, pnl, exit, process, history, counters>>

ManualTrade ==
  /\ session = "open" /\ lots < MaxLots /\ manual < MaxManual
  /\ manual' = manual + 1 /\ lots' = lots + 1 /\ listed' = TRUE
  /\ UNCHANGED <<calendar, pnl, orders, process, history, crashes>>

ExitSent ==
  /\ exit.at = "created" /\ at # Down
  /\ exit' = [exit EXCEPT !.at = "open"]
  /\ UNCHANGED <<calendar, broker, ticket, process, history, counters>>

ExitFills ==
  /\ exit.at = "open" /\ session = "open"
  /\ lots' = IF exit.lots > lots THEN 0 ELSE lots - exit.lots
  /\ exit' = [at |-> "none", lots |-> 0]
  /\ UNCHANGED <<calendar, listed, pnl, ticket, process, history, counters>>

-----------------------------------------------------------------------------
(* _update_pnl: what it makes of the view, and when it keeps what it had.  *)
Views == Glitches \union {IF listed THEN "rows" ELSE "empty"}

(* Mutation: the result shown before the market opens is believed. *)
UnusableUnlessBlind(r, view) ==
  view = "error" \/ (view = "empty" /\ r.last # 0)

Unusable(r, view) ==
  \/ view = "error"
  \/ view = "empty" /\ r.last # 0
  \/ view = "rows" /\ session # "open" /\ ~Live /\ pnl # 0

Updated(r, view) ==
  LET total == IF view = "rows" THEN pnl ELSE 0
  IN  IF Unusable(r, view) THEN r ELSE [r EXCEPT !.pnl = total, !.last = total]

(* _update_trailing_max_loss, called in market hours only. *)
Trailed(r) ==
  LET limit == Base + (r.pnl \div Step) * Step
  IN  IF session # "open" \/ r.pnl <= r.peak THEN r
      ELSE [r EXCEPT !.peak = r.pnl, !.limit = IF limit > @ THEN limit ELSE @]

NewDaySeen(r) == IF r.day = today THEN r ELSE Reset(r, today)

(* _cancel_pending_broker_orders: a cancel may come too late. *)
CancelPending ==
  /\ ticket' \in IF ticket = "open" THEN {"open", "none"} ELSE {ticket}
  /\ exit' \in IF exit.at = "open" THEN {exit, [at |-> "none", lots |-> 0]} ELSE {exit}

(* Mutation: the flag is raised before the state is saved, not after.      *)
HitAndForced(r) == [r EXCEPT !.hit = TRUE, !.forced = TRUE]

Hit(r) == [r EXCEPT !.hit = TRUE]

(* _handle_daily_loss_breach up to its first save.  by: who waits for it,  *)
(* the scheduler's heartbeat, an alert's, or can_execute ("gate").         *)
Breach(r, by) ==
  /\ ~r.hit /\ r.pnl <= r.limit
  /\ risk' = Hit(r) /\ saved' = Stored(Hit(r)) /\ at' = Call("breach", by)
  /\ breached' = TRUE
  /\ UNCHANGED <<calendar, broker, orders, asked, paused, realPeak, counters>>

-----------------------------------------------------------------------------
(* heartbeat: a new day is seen before the result is read; a breach; ...   *)
Beats == {"scheduler", "alert"}

Beat(view) == Updated(NewDaySeen(risk), view)

HeartbeatBreaches(by) ==
  /\ at = Up /\ listed /\ Live
  /\ Breach(Beat("rows"), by)

(* ... positions that are there after it, with no exit under way; ...      *)
HeartbeatFlattens(by) ==
  /\ at = Up /\ listed /\ Live /\ Beat("rows").hit /\ ~Beat("rows").forced
  /\ risk' = [Beat("rows") EXCEPT !.forced = TRUE]
  /\ saved' = Stored(risk') /\ at' = Call("flatten", by)
  /\ CancelPending
  /\ UNCHANGED <<calendar, broker, history, counters>>

(* the end of every heartbeat; ... *)
Saved(r) == risk' = Trailed(r) /\ saved' = Stored(Trailed(r)) /\ at' = Up

(* or neither: an exit cycle that is complete ends, orders are cancelled.  *)
HeartbeatWatches ==
  /\ at = Up
  /\ \E view \in Views :
       LET r == Beat(view)
           after == view = "rows" /\ r.hit
       IN  /\ ~(view = "rows" /\ Live /\ (IF r.hit THEN ~r.forced ELSE r.pnl <= r.limit))
           /\ Saved([r EXCEPT !.forced = @ /\ ~(after /\ ~Live)])
           /\ IF after THEN CancelPending ELSE UNCHANGED orders
  /\ UNCHANGED <<calendar, broker, history, counters>>

(* can_execute: the result is read before a new day is seen.               *)
Gate(view) == NewDaySeen(Updated(risk, view))

Blocked(r) == today < r.until \/ r.forced \/ r.hit

(* Outside a breach only the reset of a new day is saved. *)
Answered(r) ==
  /\ risk' = r /\ saved' = IF risk.day = today THEN saved ELSE Stored(Reset(risk, today))
  /\ UNCHANGED <<calendar, broker, exit, at, history, counters>>

GateBlocks ==
  /\ at = Up
  /\ \E view \in Views : Blocked(Gate(view)) /\ Answered(Gate(view))
  /\ UNCHANGED ticket

GateBreaches ==
  /\ at = Up
  /\ \E view \in Views : ~Blocked(Gate(view)) /\ Breach(Gate(view), "gate")

GateAllows ==
  /\ at = Up /\ ticket = "none" /\ lots < MaxLots
  /\ \E view \in Views :
       /\ ~Blocked(Gate(view)) /\ Gate(view).pnl > Gate(view).limit
       /\ Answered(Gate(view))
  /\ ticket' = "allowed"

-----------------------------------------------------------------------------
Doing(what) == at.doing = what

(* The breach is noted as a loss day, in a deque of bounded length, and    *)
(* the exit is forced.                                                     *)
LossNoted(r) ==
  LET days == Append(r.failed, r.day)
  IN  [r EXCEPT !.failed = IF Len(days) > LossDays THEN Tail(days) ELSE days, !.forced = TRUE]

Noted == IF Doing("breach") THEN LossNoted(risk) ELSE risk

(* _route_global_exit: exit_positions registers an exit over what it is    *)
(* shown, unless there is one already; no rows count as flat.              *)
RouteExit ==
  /\ Doing("breach") \/ Doing("flatten")
  /\ risk' = Noted /\ asked' = (asked \/ breached)
  /\ at' = [at EXCEPT !.doing = IF Doing("breach") THEN "cleanup" ELSE "finish"]
  /\ \/ exit' = IF exit.at = "none" /\ Live THEN [at |-> "created", lots |-> lots] ELSE exit
     \/ "empty" \in Glitches /\ exit' = exit
  /\ UNCHANGED <<calendar, broker, ticket, saved, breached, paused, realPeak, counters>>

(* The process ends; a dead process keeps its memory until the restart.    *)
Dies ==
  /\ crashes < MaxCrashes
  /\ at' = Down /\ crashes' = crashes + 1
  /\ ticket' = IF ticket = "allowed" THEN "none" ELSE ticket

(* The exit fails when the positions cannot be read: the scheduler ends the *)
(* process, an alert only itself.                                          *)
RouteFails ==
  /\ Doing("breach") \/ Doing("flatten")
  /\ "error" \in Glitches
  /\ risk' = Noted
  /\ IF at.by = "scheduler"
       THEN Dies /\ asked' = asked
       ELSE at' = Up /\ asked' = (asked \/ breached) /\ UNCHANGED <<ticket, crashes>>
  /\ UNCHANGED <<calendar, broker, exit, saved, breached, paused, realPeak, manual>>

(* The rest of the breach: cancels, and the cooldown until Monday when the *)
(* deque is full of consecutive trading days.                              *)
TradingDaysBetween(d, e) == Cardinality({f \in d + 1 .. e : Weekday(f) < 5})

InARow(days) ==
  /\ Len(days) = LossDays
  /\ \A i \in 1 .. LossDays - 1 : TradingDaysBetween(days[i], days[i + 1]) = 1

NextMonday(d) == d + 7 - Weekday(d)

Cooled(r) == IF InARow(r.failed) THEN [r EXCEPT !.until = NextMonday(today)] ELSE r

CleanUp ==
  /\ Doing("cleanup")
  /\ CancelPending
  /\ paused' = IF InARow(risk.failed) THEN NextMonday(today) ELSE paused
  /\ risk' = Cooled(risk)
  /\ at' = IF at.by = "gate" THEN Up ELSE [at EXCEPT !.doing = "finish"]
  /\ UNCHANGED <<calendar, broker, saved, breached, asked, realPeak, counters>>

FinishHeartbeat ==
  /\ Doing("finish")
  /\ Saved(risk)
  /\ UNCHANGED <<calendar, broker, orders, history, counters>>

Crash ==
  /\ at # Down /\ Dies
  /\ UNCHANGED <<calendar, broker, exit, risk, saved, history, manual>>

Start ==
  /\ at = Down
  /\ at' = Up /\ risk' = Loaded
  /\ UNCHANGED <<calendar, broker, orders, saved, history, counters>>

Manager ==
  \/ \E by \in Beats : HeartbeatBreaches(by) \/ HeartbeatFlattens(by)
  \/ HeartbeatWatches \/ GateBlocks \/ GateBreaches \/ GateAllows
  \/ RouteExit \/ RouteFails \/ CleanUp \/ FinishHeartbeat

Next ==
  \/ Manager \/ Crash \/ Start
  \/ NewDay \/ Opens \/ Closes \/ PnlMoves
  \/ EntrySent \/ EntryFills \/ ManualTrade \/ ExitSent \/ ExitFills

(* The scheduler beats every five seconds, a dead process is restarted,    *)
(* the watcher dispatches, and an exit that is open again and again fills. *)
Fairness ==
  /\ WF_vars(Start) /\ WF_vars(RouteExit) /\ WF_vars(CleanUp) /\ WF_vars(FinishHeartbeat)
  /\ SF_vars(HeartbeatFlattens("scheduler")) /\ WF_vars(HeartbeatWatches)
  /\ WF_vars(ExitSent) /\ SF_vars(ExitFills)

Spec == Init /\ [][Next]_vars

FairSpec == Spec /\ Fairness

-----------------------------------------------------------------------------
(* The memory and the file have their types; the deque of the loss days    *)
(* is never longer than its bound.                                         *)
Risks == [day : Days, pnl : Pnls, last : Pnls, limit : Int, peak : Int,
          hit : BOOLEAN, forced : BOOLEAN, failed : Seq(Days), until : Nat]

TypeOK ==
  /\ today \in Days /\ session \in {"before", "open", "after"}
  /\ lots \in 0 .. MaxLots /\ listed \in BOOLEAN /\ pnl \in Pnls
  /\ ticket \in {"none", "allowed", "open"}
  /\ exit \in [at : {"none", "created", "open"}, lots : 0 .. MaxLots]
  /\ risk \in Risks /\ Len(risk.failed) <= LossDays
  /\ saved \in Risks /\ Len(saved.failed) <= LossDays
  /\ at \in [doing : {"nothing", "dead", "breach", "flatten", "cleanup", "finish"},
             by : {"nobody", "gate"} \union Beats]
  /\ breached \in BOOLEAN /\ asked \in BOOLEAN /\ paused \in Nat /\ realPeak \in Nat
  /\ manual \in 0 .. MaxManual /\ crashes \in 0 .. MaxCrashes

(* After a breach no entry is let through on that day, whatever the result *)
(* does and whenever the process restarts.                                 *)
NoEntryAfterBreach ==
  [][ticket' = "allowed" /\ ticket # "allowed" => ~breached]_vars

(* In one day the limit is only tightened: a profit that was protected     *)
(* stays protected, over restarts too.                                     *)
LimitNeverLoosens ==
  [][risk'.day = risk.day => risk'.limit >= risk.limit]_vars

(* The best profit of the day, which the limit trails, is one the          *)
(* positions really had today, never yesterday's.                          *)
PeakIsReal == risk.day = today => risk.peak <= realPeak

(* A process that does not end lets no entry through in a cooldown.        *)
CooldownKept ==
  [][ticket' = "allowed" /\ ticket # "allowed" => today >= paused \/ crashes > 0]_vars

(* A breach with positions held leads to a request for their exit on that  *)
(* day, over one end of the process at any point.                          *)
BreachRouted ==
  (breached /\ Live)
    ~> (asked \/ ~Live \/ ~breached \/ crashes > 1)

(* "STILL have live positions after breach -> force exit again": while the *)
(* market is open, positions held after a breach are gone in the end.      *)
Flattened == (risk.hit /\ breached /\ Live) ~> (~Live \/ session # "open")

=============================================================================
