---------------------------- MODULE StrategyLegs ----------------------------
(* The life of one LIVE strategy in the executor service: registered from  *)
(* the dashboard or after a restart, ticked, its legs entered, adjusted    *)
(* and exited through orders that the watcher and the broker carry out in  *)
(* their own time, its state saved to a file, completed or stopped.        *)
(*                                                                         *)
(* A tick holds the lock of the executor; what it waits for is divided     *)
(* into steps, between which orders fill, days change, the dashboard stops *)
(* the strategy (a running tick goes on) and the process ends.             *)
(*                                                                         *)
(* A contract is a leg at a strike, which is chosen anew with every entry, *)
(* adjustment and roll.  Positions are had through the broker view, which  *)
(* gives the account's, none (the broker answered nothing) or, after an    *)
(* error, the last list it had, however old.                               *)
(*                                                                         *)
(* Simplifications: every leg has one lot, legs have no contract in common *)
(* and quantities count in the leg's direction; which conditions hold is   *)
(* left open; the alert pipeline takes or refuses an alert as a whole and  *)
(* sends any part of what it takes; a strategy is not started again before *)
(* its last tick is over.                                                  *)
EXTENDS Integers, Sequences, FiniteSets, SequencesExt

CONSTANTS
  EntryLegs,   \* tags of the legs an entry opens
  ExtraLegs,   \* tags an adjustment or a roll may add
  Strikes,     \* strikes the legs are opened at
  ByContract,  \* legs whose symbol is their contract; of the others it is the underlying
  MaxOrders,   \* bound on the orders
  MaxDays,     \* bound on the days
  MaxFaults    \* bound on crashes, expiries by hand, trades by others, lost answers of the
               \* broker and lists of positions that are not the account's, together

(* The legs of a strategy are few, and an adjustment opens none of the     *)
(* entry's: those of an entry are fixed by its configuration.              *)
ASSUME LegsAssumption ==
  /\ IsFiniteSet(EntryLegs \cup ExtraLegs) /\ EntryLegs \cap ExtraLegs = {}
  /\ IsFiniteSet(Strikes) /\ Strikes # {}

Tags == EntryLegs \cup ExtraLegs
Contracts == Tags \X Strikes

VARIABLES
  reg,      \* the strategy is registered with the service
  up,       \* the process runs
  cfg,      \* "status" of the saved configuration
  mem,      \* what the executor remembers
  tick,     \* how far its tick is
  file,     \* the saved state
  orders,   \* the orders: [on, opens, status, day, live, filled], on: the contract
  net,      \* position of each contract, in the leg's direction
  view,     \* the list of positions the broker view had last: [none, net]
  due,      \* orders marked EXECUTED of which the executor is not yet told
  today,
  misread,  \* history: contracts entered on a list that did not show their position
  faults

vars == <<reg, up, cfg, mem, tick, file, orders, net, view, due, today, misread,
          faults>>

(* A leg in memory: at is its strike, order the order it knows by its      *)
(* command_id.                                                             *)
NoLeg == [st |-> "none", active |-> FALSE, late |-> FALSE, order |-> 0,
          at |-> CHOOSE k \in Strikes : TRUE]
NoLegs == [t \in Tags |-> NoLeg]
Fresh == [legs |-> NoLegs, entered |-> FALSE, since |-> 0, done |-> FALSE, last |-> today]
NoFile == [there |-> FALSE, legs |-> NoLegs, entered |-> FALSE, since |-> 0]
AnyActive(m) == \E t \in Tags : m.legs[t].active
Active == {t \in Tags : mem.legs[t].active}
Saved(m) == [there |-> TRUE, legs |-> m.legs, entered |-> m.entered, since |-> m.since]
Loaded(f) == IF f.there THEN [legs |-> f.legs, entered |-> f.entered, since |-> f.since,
                              done |-> FALSE, last |-> today]
                        ELSE Fresh

Open == {"CREATED", "SENT_TO_BROKER"}
OpenOf(c, opens) == {i \in DOMAIN orders : /\ orders[i].on = c /\ orders[i].opens = opens
                                           /\ orders[i].status \in Open}

On(m, t) == <<t, m.legs[t].at>>

Order(c, opens, status) ==
  [on |-> c, opens |-> opens, status |-> status, day |-> today,
   live |-> status # "CREATED", filled |-> FALSE]

Placed(these, opens, status) == SetToSeq({Order(c, opens, status) : c \in these})

(* Orders submitted to the broker.  An answer may be lost with the order   *)
(* booked: the table has it as FAILED, or the client has sent it again.    *)
(* Such a booking is UNSEEN.                                               *)
Submitted(these, opens) ==
  UNION {{Placed(these \ lost, opens, "SENT_TO_BROKER") \o Placed(unseen, opens, "UNSEEN") :
            lost \in SUBSET unseen} : unseen \in SUBSET {c \in these : faults < MaxFaults}}

(* The list of positions of a call of the broker view: the account's or,   *)
(* when the broker fails, none at all or the one it had before.            *)
NoList == [none |-> TRUE, net |-> [c \in Contracts |-> 0]]
Account == [none |-> FALSE, net |-> net]
Lists == IF faults < MaxFaults THEN {Account, NoList, view} ELSE {Account}
Counted(p, q) ==
  IF p = Account /\ (\A i \in DOMAIN q : q[i].status # "UNSEEN") THEN faults ELSE faults + 1

Expired(these) ==
  [i \in DOMAIN orders |->
     IF these[i] /\ orders[i].status \in Open THEN [orders[i] EXCEPT !.status = "EXPIRED"]
                                             ELSE orders[i]]

Init ==
  /\ reg = FALSE /\ up = TRUE /\ cfg = "IDLE" /\ today = 1
  /\ mem = Fresh /\ tick = "idle" /\ file = NoFile
  /\ orders = <<>> /\ net = [c \in Contracts |-> 0] /\ view = NoList /\ due = {}
  /\ misread = {} /\ faults = 0

Go(pc) == tick' = pc
At(pc) == up /\ tick = pc

-----------------------------------------------------------------------------
(* The dashboard.  A start without open legs in the file forgets the file. *)
StartExecution ==
  /\ up /\ ~reg /\ tick = "idle"
  /\ \E fresh \in BOOLEAN :
       LET stale == file.entered /\ \A t \in Tags : ~file.legs[t].active /\ file.legs[t].st # "PENDING"
           kept == IF fresh \/ stale THEN NoFile ELSE file
       IN file' = kept /\ mem' = Loaded(kept)
  /\ reg' = TRUE /\ cfg' = "RUNNING"
  /\ UNCHANGED <<up, tick, orders, net, due, today, view, misread, faults>>

(* A stop leaves the tick alone: the file it deletes may be written again. *)
Forget == reg' = FALSE /\ cfg' = "STOPPED" /\ file' = NoFile

StopExecution ==
  /\ up /\ Forget
  /\ UNCHANGED <<up, mem, tick, orders, net, due, today, view, misread, faults>>

(* The positions an exit of the strategy reaches: those whose contract is  *)
(* named by a symbol of an active leg; without an active leg, those of its *)
(* orders that are on their way.                                           *)
Reached ==
  {c \in Contracts :
     /\ net[c] # 0
     /\ IF AnyActive(mem) THEN c[1] \in Active \cap ByContract /\ c = On(mem, c[1])
        ELSE \E i \in DOMAIN orders : /\ orders[i].on = c /\ orders[i].day = today
                                      /\ orders[i].status = "SENT_TO_BROKER"}

ExitOrders(these) == Placed(these, FALSE, "CREATED")

KillSwitch ==
  /\ up /\ reg /\ Len(orders) + Cardinality(Reached) <= MaxOrders
  /\ orders' \in {orders, orders \o ExitOrders(Reached)}
  /\ Forget
  /\ UNCHANGED <<up, mem, tick, net, due, today, view, misread, faults>>

(* The runner is stopped and started, or it is 23:45: every open order is  *)
(* EXPIRED in the table and stays as it is at the broker.                  *)
CancelAllPending ==
  /\ up /\ faults < MaxFaults /\ faults' = faults + 1
  /\ orders' = Expired([i \in DOMAIN orders |-> TRUE])
  /\ UNCHANGED <<reg, up, cfg, mem, tick, file, net, due, today, view, misread>>

-----------------------------------------------------------------------------
(* The tick.  A new day forgets the counters and the inactive legs, PENDING *)
(* ones too, and expires yesterday's orders.                               *)
DailyReset(m) ==
  [m EXCEPT !.entered = FALSE, !.done = FALSE, !.last = today,
            !.legs = [t \in Tags |-> IF m.legs[t].active THEN m.legs[t] ELSE NoLeg]]

Filled(l) == [l EXCEPT !.st = "FILLED", !.active = TRUE]
Failed(l) == [l EXCEPT !.st = "FAILED", !.active = FALSE]

(* The order of a PENDING leg: an open one on its contract, else the one   *)
(* it knows.                                                               *)
OrderOf(t) ==
  LET open == OpenOf(On(mem, t), TRUE)
  IN IF open # {} THEN CHOOSE i \in open : \A j \in open : i >= j ELSE mem.legs[t].order

(* Mutation: a leg without an order waits for one. *)
GivesUpNever(l) == FALSE

GivesUp(l) == l.late

(* _reconcile_pending_orders for one leg, with the list p of positions. *)
Settled(t, p) ==
  LET l == mem.legs[t]
      i == OrderOf(t)
      k == [l EXCEPT !.order = i]
      held == p.net[On(mem, t)] > 0
  IN CASE l.st = "CLOSE_PENDING" /\ l.late -> [l EXCEPT !.st = "CLOSED", !.active = FALSE]
       [] l.st = "PENDING" /\ i # 0 -> CASE orders[i].status = "EXECUTED" -> Filled(k)
                                         [] orders[i].status = "FAILED" -> Failed(k)
                                         [] OTHER -> k
       [] l.st = "PENDING" /\ i = 0 /\ held -> Filled(l)
       [] l.st = "PENDING" /\ i = 0 /\ ~held /\ GivesUp(l) -> Failed(l)
       [] OTHER -> l

TickBegin ==
  /\ At("idle") /\ reg /\ Go("act")
  /\ IF mem.last = today
       THEN /\ \E p \in Lists :
                 /\ mem' = [mem EXCEPT !.legs = [t \in Tags |-> Settled(t, p)]]
                 /\ view' = p /\ faults' = Counted(p, <<>>)
            /\ UNCHANGED orders
       ELSE /\ mem' = DailyReset(mem)
            /\ orders' = Expired([i \in DOMAIN orders |-> orders[i].day < today])
            /\ UNCHANGED <<view, faults>>
  /\ UNCHANGED <<reg, up, cfg, file, net, due, today, misread>>

(* exit_all, which may be given no positions.  Whether it has reached one  *)
(* or not, every leg becomes inactive; a stop loss may allow another entry. *)
Exited(m, again) ==
  [m EXCEPT !.legs = [t \in Tags |-> [m.legs[t] EXCEPT !.active = FALSE]],
            !.entered = ~again, !.done = IF again THEN m.done ELSE TRUE]

ExitAll ==
  /\ At("act") /\ Len(orders) + Cardinality(Reached) <= MaxOrders
  /\ orders' \in {orders, orders \o ExitOrders(Reached)}
  /\ \E again \in BOOLEAN :
       /\ again => AnyActive(mem)
       /\ mem' = Exited(mem, again)
  /\ Go("save")
  /\ UNCHANGED <<reg, up, cfg, file, net, due, today, view, misread, faults>>

(* The rule of a leg: an EXIT alert is taken; when it is refused nothing   *)
(* changes.                                                                *)
ExitLeg(t) ==
  /\ At("act") /\ mem.legs[t].active /\ Len(orders) < MaxOrders
  /\ \E p \in Lists : p.net[On(mem, t)] # 0 /\ view' = p /\ faults' = Counted(p, <<>>)
  /\ orders' = orders \o ExitOrders({On(mem, t)})
  /\ mem' = [mem EXCEPT !.legs[t].active = FALSE]
  /\ Go("save")
  /\ UNCHANGED <<reg, up, cfg, file, net, due, today, misread>>

SaveAfterExit ==
  /\ At("save") /\ file' = Saved(mem) /\ Go("idle")
  /\ UNCHANGED <<reg, up, cfg, mem, orders, net, due, today, view, misread, faults>>

Pending(k) == [NoLeg EXCEPT !.st = "PENDING", !.at = k]
Opened(m, legs, at) ==
  [m EXCEPT !.legs = [t \in Tags |-> IF t \in legs THEN Pending(at[t]) ELSE m.legs[t]]]

(* Mutation: the pipeline does not look for what is there already. *)
SendableBlindly(at, p) == {<<t, at[t]>> : t \in EntryLegs}

(* What the duplicate check of the alert pipeline lets pass: it goes by    *)
(* the symbol of the strike just chosen and by the list it is given.       *)
Sendable(at, p) ==
  {c \in {<<t, at[t]>> : t \in EntryLegs} :
     p.net[c] = 0 /\ OpenOf(c, TRUE) \cup OpenOf(c, FALSE) = {}}

(* _execute_entry: the legs are PENDING before the alert is sent; of an    *)
(* accepted one any part may be booked, the answer of the broker not being *)
(* its own.  Refused as a whole it leaves the legs as if it had not been.  *)
Entry ==
  /\ At("act") /\ ~mem.entered
  /\ \E at \in [EntryLegs -> Strikes] : \E p \in Lists : \E sent \in SUBSET Sendable(at, p) :
       /\ Sendable(at, p) # {}
       /\ \E q \in Submitted(sent, TRUE) :
            /\ Len(orders) + Len(q) <= MaxOrders /\ orders' = orders \o q
            /\ faults' = Counted(p, q)
       /\ mem' = Opened(mem, EntryLegs, at)
       /\ misread' = misread \cup {c \in sent : p.net[c] = 0 /\ net[c] # 0}
       /\ view' = p
  /\ Go("entered")
  /\ UNCHANGED <<reg, up, cfg, file, net, due, today>>

EntryRefused ==
  /\ At("act") /\ ~mem.entered
  /\ mem' = [mem EXCEPT !.legs = [t \in Tags |-> IF t \in EntryLegs THEN NoLeg ELSE mem.legs[t]]]
  /\ Go("adjust")
  /\ UNCHANGED <<reg, up, cfg, file, orders, net, due, today, view, misread, faults>>

EntrySaved ==
  /\ At("entered")
  /\ mem' = [mem EXCEPT !.entered = TRUE, !.since = today, !.done = FALSE]
  /\ file' = Saved(mem') /\ Go("adjust")
  /\ UNCHANGED <<reg, up, cfg, orders, net, due, today, view, misread, faults>>

(* Adjustments wait for the legs that were sent less than a minute ago.    *)
MayAdjust == AnyActive(mem) /\ \A t \in Tags : mem.legs[t].st = "PENDING" => mem.legs[t].late

(* check_and_apply and _dispatch_adjustment_orders: legs are closed and    *)
(* opened in memory, and the alert is taken, any part of it booked; when   *)
(* it is refused the legs are restored, and nothing has changed.           *)
Adjusted(close, new, at) ==
  \E sent \in SUBSET (close \cup new) :
  \E q \in Submitted({On(mem, t) : t \in sent \cap close}, FALSE) :
  \E r \in Submitted({<<t, at[t]>> : t \in sent \cap new}, TRUE) :
    /\ Len(orders) + Len(q) + Len(r) <= MaxOrders /\ orders' = orders \o (q \o r)
    /\ faults' = Counted(Account, q \o r)

Adjust ==
  /\ tick \in {"act", "adjust"} /\ up /\ MayAdjust
  /\ \E close \in SUBSET Active : \E new \in SUBSET {t \in ExtraLegs : mem.legs[t].st = "none"} :
     \E at \in [new -> Strikes] :
       /\ close \cup new # {}
       /\ mem' = [mem EXCEPT !.legs = [t \in Tags |->
                    IF t \in close THEN [@[t] EXCEPT !.st = "CLOSE_PENDING", !.active = FALSE,
                                                     !.late = FALSE]
                    ELSE IF t \in new THEN Pending(at[t]) ELSE @[t]]]
       /\ Adjusted(close, new, at)
  /\ file' = Saved(mem') /\ Go("broker")
  /\ UNCHANGED <<reg, up, cfg, net, view, due, today, misread>>

(* roll of all legs on the day of their expiry, at the start of a tick:    *)
(* the old legs become inactive and the new ones wait, and no order is     *)
(* sent for either.                                                        *)
Roll ==
  /\ At("act") /\ AnyActive(mem)
  /\ \E new \in ExtraLegs : \E k \in Strikes :
       /\ mem.legs[new].st = "none"
       /\ \E old \in Active : mem' = [mem EXCEPT !.legs[old].active = FALSE, !.legs[new] = Pending(k)]
  /\ UNCHANGED <<reg, up, cfg, tick, file, orders, net, due, today, view, misread, faults>>

(* Mutation: an empty list of positions is an empty account. *)
InLineAlways(m, p) ==
  [m EXCEPT !.legs = [t \in Tags |-> IF p.net[On(m, t)] = 0 THEN [@[t] EXCEPT !.active = FALSE] ELSE @[t]]]

(* reconcile_from_broker: an empty list beside active legs is not believed, *)
(* and nothing is done without them.                                       *)
InLine(m, p) ==
  IF p.none THEN m
  ELSE [m EXCEPT !.legs = [t \in Tags |-> IF p.net[On(m, t)] = 0 THEN [@[t] EXCEPT !.active = FALSE]
                                                                ELSE @[t]]]

(* Every five minutes the positions, every half minute the file. *)
TickEnd ==
  /\ up /\ tick \in {"act", "adjust", "broker"}
  /\ \/ mem' = mem /\ UNCHANGED <<view, faults>>
     \/ \E p \in Lists : mem' = InLine(mem, p) /\ view' = p /\ faults' = Counted(p, <<>>)
  /\ file' \in {file, Saved(mem')}
  /\ Go("idle")
  /\ UNCHANGED <<reg, up, cfg, orders, net, due, today, misread>>

(* The service takes a strategy out that has completed its cycle, when no  *)
(* exit of today is left.                                                  *)
Complete ==
  /\ At("idle") /\ reg /\ mem.done /\ ~AnyActive(mem)
  /\ \A i \in DOMAIN orders : ~orders[i].opens /\ orders[i].status \in Open => orders[i].day < today
  /\ cfg' = "COMPLETED" /\ reg' = FALSE
  /\ UNCHANGED <<up, mem, tick, file, orders, net, due, today, view, misread, faults>>

-----------------------------------------------------------------------------
Crash ==
  /\ up /\ faults < MaxFaults /\ faults' = faults + 1
  /\ up' = FALSE /\ reg' = FALSE /\ tick' = "idle" /\ mem' = Fresh /\ due' = {}
  /\ view' = NoList
  /\ UNCHANGED <<cfg, file, orders, net, today, misread>>

(* auto_resume_strategies: a file of today with a leg that is filled. *)
Resumable ==
  /\ cfg = "RUNNING" /\ file.there
  /\ \E t \in Tags : file.legs[t].active /\ file.legs[t].st = "FILLED"
  /\ file.since \in {0, today}

(* At the start the CREATED orders of other days expire; what is resumed   *)
(* is brought into line with the broker and saved.                         *)
Boot ==
  /\ ~up /\ up' = TRUE
  /\ orders' = [i \in DOMAIN orders |->
       IF orders[i].status = "CREATED" /\ orders[i].day < today
       THEN [orders[i] EXCEPT !.status = "EXPIRED"] ELSE orders[i]]
  /\ IF Resumable
       THEN /\ \E p \in Lists : mem' = InLine(Loaded(file), p) /\ view' = p /\ faults' = Counted(p, <<>>)
            /\ reg' = TRUE /\ file' = Saved(mem')
       ELSE UNCHANGED <<reg, mem, file, view, faults>>
  /\ UNCHANGED <<cfg, tick, net, due, today, misread>>

(* Orders of the day are over at the broker when the day is. *)
NextDay ==
  /\ today < MaxDays /\ today' = today + 1
  /\ orders' = [i \in DOMAIN orders |-> [orders[i] EXCEPT !.live = FALSE]]
  /\ UNCHANGED <<reg, up, cfg, mem, tick, file, net, due, view, misread, faults>>

(* A minute is over. *)
Ages(t) ==
  /\ mem.legs[t].st \in {"PENDING", "CLOSE_PENDING"} /\ ~mem.legs[t].late
  /\ mem' = [mem EXCEPT !.legs[t].late = TRUE]
  /\ UNCHANGED <<reg, up, cfg, tick, file, orders, net, due, today, view, misread, faults>>

-----------------------------------------------------------------------------
(* The watcher and the broker. *)
Dispatch(i) ==
  /\ up /\ orders[i].status = "CREATED"
  /\ orders' = [orders EXCEPT ![i].status = "SENT_TO_BROKER", ![i].live = TRUE]
  /\ UNCHANGED <<reg, up, cfg, mem, tick, file, net, due, today, view, misread, faults>>

Fill(i) ==
  /\ orders[i].live /\ ~orders[i].filled
  /\ orders' = [orders EXCEPT ![i].filled = TRUE, ![i].live = FALSE]
  /\ net' = [net EXCEPT ![orders[i].on] = @ + (IF orders[i].opens THEN 1 ELSE -1)]
  /\ UNCHANGED <<reg, up, cfg, mem, tick, file, due, today, view, misread, faults>>

PollFilled(i) ==
  /\ up /\ due = {} /\ orders[i].status = "SENT_TO_BROKER" /\ orders[i].filled
  /\ orders' = [orders EXCEPT ![i].status = "EXECUTED"]
  /\ due' = {i}
  /\ UNCHANGED <<reg, up, cfg, mem, tick, file, net, today, view, misread, faults>>

PollRefused(i) ==
  /\ up /\ orders[i].status = "SENT_TO_BROKER" /\ ~orders[i].filled
  /\ orders' = [orders EXCEPT ![i].status = "FAILED", ![i].live = FALSE]
  /\ UNCHANGED <<reg, up, cfg, mem, tick, file, net, due, today, view, misread, faults>>

(* notify_fill waits for the tick; a fill that no leg waits for is lost.   *)
NotifyFill(i) ==
  /\ At("idle") /\ i \in due /\ due' = due \ {i}
  /\ LET t == orders[i].on[1]
         l == mem.legs[t]
     IN mem' = IF ~reg \/ On(mem, t) # orders[i].on THEN mem
               ELSE IF orders[i].opens /\ l.st = "PENDING"
                 THEN [mem EXCEPT !.legs[t] = [Filled(l) EXCEPT !.order = i]]
               ELSE IF ~orders[i].opens /\ l.st = "CLOSE_PENDING"
                 THEN [mem EXCEPT !.legs[t] = [l EXCEPT !.st = "CLOSED", !.active = FALSE]]
               ELSE mem
  /\ UNCHANGED <<reg, up, cfg, tick, file, orders, net, today, view, misread, faults>>

(* The risk manager, the watcher's trailing or the user closes a position. *)
SquareOff(c) ==
  /\ net[c] # 0 /\ faults < MaxFaults /\ faults' = faults + 1
  /\ net' = [net EXCEPT ![c] = 0]
  /\ UNCHANGED <<reg, up, cfg, mem, tick, file, orders, view, due, today, misread>>

(* Another user of the broker view has the positions fetched. *)
OthersRead ==
  /\ up /\ view' = Account
  /\ UNCHANGED <<reg, up, cfg, mem, tick, file, orders, net, due, today, misread, faults>>

TickStep ==
  \/ TickBegin \/ ExitAll \/ SaveAfterExit \/ Entry \/ EntryRefused \/ EntrySaved
  \/ Adjust \/ Roll \/ TickEnd
  \/ \E t \in Tags : ExitLeg(t)

Next ==
  \/ StartExecution \/ StopExecution \/ KillSwitch \/ CancelAllPending
  \/ TickStep \/ Complete \/ Crash \/ Boot \/ NextDay
  \/ \E t \in Tags : Ages(t)
  \/ (\E c \in Contracts : SquareOff(c)) \/ OthersRead
  \/ \E i \in DOMAIN orders :
       Dispatch(i) \/ Fill(i) \/ PollFilled(i) \/ PollRefused(i) \/ NotifyFill(i)

Spec == Init /\ [][Next]_vars

(* The loop ticks every strategy every two seconds and leaves its lock in  *)
(* between, minutes pass, and the watcher goes on polling what was sent.   *)
Fairness ==
  /\ WF_vars(TickStep) /\ WF_vars(Boot) /\ SF_vars(\E i \in due : NotifyFill(i))
  /\ \A t \in Tags : WF_vars(Ages(t))
  /\ \A i \in 1 .. MaxOrders :
       WF_vars(i \in DOMAIN orders /\ (Dispatch(i) \/ PollFilled(i) \/ PollRefused(i)))

FairSpec == Spec /\ Fairness

-----------------------------------------------------------------------------
LegStates == {"none", "PENDING", "FILLED", "CLOSE_PENDING", "CLOSED", "FAILED"}
LegMap == [Tags -> [st : LegStates, active : BOOLEAN, late : BOOLEAN, order : 0 .. MaxOrders,
                    at : Strikes]]

(* The kinds of values the variables take; only a leg that was filled is   *)
(* ever active, in memory and in the file.                                 *)
LegsTypeOK ==
  /\ reg \in BOOLEAN /\ up \in BOOLEAN /\ reg => up
  /\ cfg \in {"IDLE", "RUNNING", "STOPPED", "COMPLETED"}
  /\ mem.legs \in LegMap /\ file.legs \in LegMap
  /\ \A t \in Tags : /\ mem.legs[t].active => mem.legs[t].st = "FILLED"
                     /\ file.legs[t].active => file.legs[t].st = "FILLED"
  /\ Len(orders) <= MaxOrders /\ due \subseteq DOMAIN orders
  /\ net \in [Contracts -> Int] /\ view \in [none : BOOLEAN, net : [Contracts -> Int]]
  /\ misread \subseteq Contracts /\ today \in 1 .. MaxDays

(* What is said of an ENTRY that finds an open order or a position ("Blocks *)
(* ENTRY"): no contract of an entry is bought twice over, not by a         *)
(* re-entry after a stop loss while an earlier order is out, not by a      *)
(* restart between the alert and the saving of the state, not on a new     *)
(* day.  What escapes the check is named: a booking the table does not     *)
(* have as open, because its answer was lost or the service has expired    *)
(* it, and a list of positions that was old or empty when it was looked at. *)
Strayed(c) == \E i \in DOMAIN orders : /\ orders[i].on = c /\ orders[i].filled
                                       /\ orders[i].status \in {"EXPIRED", "UNSEEN"}

NeverDoubled ==
  \A c \in EntryLegs \X Strikes : net[c] > 1 => Strayed(c) \/ c \in misread

(* An empty list of positions never makes a strategy forget what it holds, *)
(* nor does a call that fails while nothing is cached: a leg that is held  *)
(* and active stays active through the reconciliations with the broker and *)
(* a resumption, unless the view has gone back to a list from before the   *)
(* leg was filled.  A resumption has no such list, the view being new.     *)
OldList(c) == up /\ view' = view /\ ~view.none /\ view.net[c] = 0

HeldLegsStayActive ==
  [][(TickEnd \/ (Boot /\ reg')) =>
       LET m == IF up THEN mem ELSE Loaded(file)
       IN \A t \in Tags : m.legs[t].active /\ net[On(m, t)] # 0
                            => mem'.legs[t].active \/ OldList(On(m, t))]_vars

(* A strategy stopped by the user is not resumed by a restart, even when a *)
(* tick has written its file after the stop.                               *)
StoppedStaysStopped == [][cfg = "STOPPED" /\ Boot => ~reg']_vars

(* Every leg that waits is settled in the end, by the notice of its fill,  *)
(* by the order it knows, by the broker's positions or by the minute it is *)
(* given, unless its order was expired under it.                           *)
Waits(t) == reg /\ mem.legs[t].st = "PENDING"
OrderExpired(t) == mem.legs[t].order # 0 /\ orders[mem.legs[t].order].status = "EXPIRED"
EveryPendingLegSettles == \A t \in Tags : Waits(t) ~> (~Waits(t) \/ OrderExpired(t))

(* What is said of the kill switch ("synchronously close all open broker   *)
(* positions for this strategy"): it has an exit for each.                 *)
KillSwitchReachesAll ==
  [][KillSwitch /\ orders' # orders =>
       \A t \in Active : net[On(mem, t)] # 0 => On(mem, t) \in Reached]_vars

(* What is said of the saving after an entry ("so crash-recovery can find  *)
(* it"): a strategy that runs and has a position of a saved entry of the   *)
(* day is there after a restart.                                           *)
SavedEntryIsFound ==
  [][Boot /\ cfg = "RUNNING" /\ file.there /\ file.since = today /\ file.entered
       /\ (\E t \in Tags : net[On(file, t)] > 0 /\ file.legs[t].st = "PENDING") => reg']_vars
=============================================================================
