---------------------------- MODULE PositionExits ----------------------------
(* The ways a position on one symbol is closed: managed exits, which       *)
(* OrderWatcherEngine trails and triggers, and the exits PositionExit-     *)
(* Service registers for a control intent or the risk manager.  Both end   *)
(* as market orders over the broker's net quantity.                        *)
(*                                                                         *)
(* Threads: the watcher, which dispatches and then makes one pass over a   *)
(* copy of the table of managed exits; the dashboard, which edits the      *)
(* table whenever it likes, also during a pass; and the threads that call  *)
(* exit_positions.  execute_command is one step here, with the outcomes    *)
(* that module OrderLifecycle derives.                                     *)
(*                                                                         *)
(* Simplifications: the position is opened long, the stop trails in        *)
(* POINTS, targets and edits of other fields than the stop are left out,   *)
(* nothing cancels an exit order, and the watcher thread lives.            *)
EXTENDS Integers, FiniteSets

CONSTANTS
  Managed,      \* managed exits of the symbol (command ids)
  Requesters,   \* threads that call exit_positions, once each
  Strategy,     \* Strategy[s]: the strategy_name a source passes
  Qty,          \* quantity of the position at the start
  Prices,       \* last traded prices; 0 when the broker shows none
  Stops,        \* stop levels the dashboard sets
  Trigger,      \* favourable move that makes one trailing step
  Step,         \* how far a trailing step moves the stop
  MaxFailures,  \* dispatch failures after which the monitor gives up
  MaxExits,     \* bound on the exit orders created
  MaxEdits,     \* bound on the dashboard's edits of a stop
  MaxByHand,    \* bound on the square-offs by hand
  MaxLosses,    \* bound on the sessions lost while an exit is sent
  MaxCrashes,   \* bound on the crashes of the process
  MaxAttempts,  \* times place_order sends an order
  MaxExtra,     \* bound on the orders booked without an answer
  MaxBlinds,    \* bound on the passes that see no position there is
  MaxTroubles   \* bound on square-offs, losses, crashes and these two together

Sources == Managed \union Requesters

ExitIds == 1 .. MaxExits

ASSUME ExitAssumption ==
  /\ Managed \intersect Requesters = {} /\ "none" \notin Sources
  /\ DOMAIN Strategy = Sources
  /\ Qty \in Nat \ {0} /\ Prices \subseteq Nat /\ Stops \subseteq Int
  /\ Trigger \in Nat \ {0} /\ Step \in Nat \ {0} /\ MaxFailures \in Nat \ {0}
  /\ MaxExits \in Nat /\ MaxEdits \in Nat /\ MaxByHand \in Nat /\ MaxLosses \in Nat
  /\ MaxCrashes \in Nat /\ MaxTroubles \in Nat
  /\ MaxAttempts \in Nat /\ MaxExtra \in Nat /\ MaxBlinds \in Nat

VARIABLES
  net,       \* the broker's net quantity
  ltp,       \* last traded price
  record,    \* orders table: the records of the managed exits
  exits,     \* orders table and broker: the market orders
  table,     \* _managed_exits
  local,     \* the monitor's copies of the states in the table
  pass,      \* where the monitor's pass is
  request,   \* where each call of exit_positions is
  edits, byHand, losses, crashes, extra, blinds,  \* counters for the bounds
  late,      \* history: the last edit of a stop, if it came during a pass
  raced      \* history: the managed exits edited during the pass under way

market == <<net, ltp>>
monitor == <<local, pass>>
counters == <<edits, byHand, losses, crashes, extra, blinds, late, raced>>
vars == <<market, record, exits, table, monitor, request, counters>>

-----------------------------------------------------------------------------
NoPrice == 0

(* The strategy_name of a source that passes none. *)
NoStrategy == "__SYSTEM__"

(* A record ends TRIGGERED, GAVE_UP or FLAT, which the code tells apart by *)
(* the tag of a FAILED record, or CANCELLED; UNSEEN is FLAT in the code,   *)
(* written by a pass that was not told of the position.                    *)
Ends == {"TRIGGERED", "GAVE_UP", "FLAT", "UNSEEN", "CANCELLED"}

NoRecord == [status |-> "NONE", stop |-> 0, base |-> 0, anchor |-> NoPrice]

(* An exit is CREATED, SENT, ENDED once the broker filled or rejected it,  *)
(* and DONE once the orders table knows; or it is LOST, marked as sent and *)
(* without a number.  of: the source of the order.  qty: signed, a         *)
(* positive quantity sells.  strays: orders the broker has booked for it   *)
(* and whose numbers nobody was told.                                      *)
NoExit == [status |-> "NONE", of |-> "none", qty |-> 0, strays |-> 0]

(* A state of the table: the stop, the configured stop it steps up from,   *)
(* the anchor price, the failed dispatches, and the retry backoff.         *)
Untracked == [stop |-> 0, base |-> 0, anchor |-> NoPrice, failures |-> -1, waiting |-> FALSE]

Tracked(m) == table[m] # Untracked

(* A pass: the position and price it fetched, the managed exits still to   *)
(* be looked at, those to merge back, those to remove, and the one being   *)
(* triggered with its order.                                               *)
NoCopies == [m \in Managed |-> Untracked]

NoPass == [at |-> "idle", net |-> 0, ltp |-> NoPrice, left |-> {}, keep |-> {}, drop |-> {},
           cur |-> "none", exit |-> 0, blind |-> FALSE]

Init ==
  /\ net = Qty /\ ltp \in Prices
  /\ record = [m \in Managed |-> NoRecord]
  /\ exits = [x \in ExitIds |-> NoExit]
  /\ table = [m \in Managed |-> Untracked]
  /\ local = NoCopies /\ pass = NoPass
  /\ request = [r \in Requesters |-> [at |-> "idle", net |-> 0]]
  /\ edits = 0 /\ byHand = 0 /\ losses = 0 /\ crashes = 0 /\ extra = 0 /\ blinds = 0
  /\ late = [m \in Managed |-> {}] /\ raced = {}

(* Another square-off, lost session, crash, booking without an answer or   *)
(* blind pass is within the bounds.                                        *)
MoreTrouble == byHand + losses + crashes + extra + blinds < MaxTroubles

Abs(n) == IF n < 0 THEN -n ELSE n

-----------------------------------------------------------------------------
(* The broker: prices move, orders are filled or rejected, and the user    *)
(* may square the position off by hand.                                    *)
PriceMoves ==
  /\ ltp' \in Prices \ {ltp}
  /\ UNCHANGED <<net, record, exits, table, monitor, request, counters>>

SquaredOff ==
  /\ net # 0 /\ MoreTrouble /\ byHand < MaxByHand
  /\ net' = 0 /\ byHand' = byHand + 1
  /\ UNCHANGED <<ltp, record, exits, table, monitor, request>>
  /\ UNCHANGED <<edits, losses, crashes, extra, blinds, late, raced>>

Fill(x) ==
  /\ exits[x].status = "SENT"
  /\ exits' = [exits EXCEPT ![x].status = "ENDED"]
  /\ net' = net - exits[x].qty
  /\ UNCHANGED <<ltp, record, table, monitor, request, counters>>

Reject(x) ==
  /\ exits[x].status = "SENT"
  /\ exits' = [exits EXCEPT ![x].status = "ENDED"]
  /\ UNCHANGED <<market, record, table, monitor, request, counters>>

(* The same of an order nobody was told the number of. *)
FillStray(x) ==
  /\ exits[x].strays > 0 /\ exits' = [exits EXCEPT ![x].strays = @ - 1]
  /\ net' = net - exits[x].qty
  /\ UNCHANGED <<ltp, record, table, monitor, request, counters>>

RejectStray(x) ==
  /\ exits[x].strays > 0 /\ exits' = [exits EXCEPT ![x].strays = @ - 1]
  /\ UNCHANGED <<market, record, table, monitor, request, counters>>

-----------------------------------------------------------------------------
(* repo.create of a market order; the ids are taken in turn. *)
CreateExit(x, source, qty) ==
  /\ exits[x] = NoExit /\ \A y \in ExitIds : y < x => exits[y] # NoExit
  /\ exits' = [exits EXCEPT ![x] = [status |-> "CREATED", of |-> source, qty |-> qty, strays |-> 0]]

(* place_order sends an order again when the answer is empty, which the    *)
(* broker may have booked nevertheless, as it may one it fails to answer.  *)
Unheard == {b \in 0 .. MaxAttempts : b > 0 => MoreTrouble /\ extra + b <= MaxExtra}

Sent(x, b, status) ==
  /\ exits' = [exits EXCEPT ![x].status = status, ![x].strays = @ + b]
  /\ extra' = extra + b
  /\ UNCHANGED <<edits, byHand, crashes, blinds, late, raced>>

(* What execute_command leaves of an order: sent; refused and done; or,    *)
(* when the session is lost, CREATED as it was before it was marked as     *)
(* sent, and LOST afterwards.                                              *)
Accepted(x) == (\E b \in Unheard : b < MaxAttempts /\ Sent(x, b, "SENT")) /\ UNCHANGED losses

Refused(x) == (\E b \in Unheard : Sent(x, b, "DONE")) /\ UNCHANGED losses

SessionLost(x) ==
  /\ MoreTrouble /\ losses < MaxLosses /\ losses' = losses + 1
  /\ Sent(x, 0, "CREATED") \/ \E b \in Unheard : Sent(x, b, "LOST")

-----------------------------------------------------------------------------
(* An EXIT command with a stop is registered as a record.                  *)
NewRecord(s) == [status |-> "CREATED", stop |-> s, base |-> s, anchor |-> NoPrice]

Create(m, s) ==
  /\ record[m] = NoRecord
  /\ record' = [record EXCEPT ![m] = NewRecord(s)]
  /\ UNCHANGED <<market, exits, table, monitor, request, counters>>

(* _register_managed_exit: the anchor on record, or else the price of the  *)
(* moment if the positions can be read; it is written back.                *)
Anchors(r) == IF r.anchor = NoPrice THEN {ltp, NoPrice} ELSE {r.anchor}

Registered(m, r) ==
  \E a \in Anchors(r) :
    /\ table' = [table EXCEPT ![m] = [stop |-> r.stop, base |-> r.base, anchor |-> a,
                                      failures |-> 0, waiting |-> FALSE]]
    /\ record' = [record EXCEPT ![m] = [r EXCEPT !.anchor = a]]

(* The dashboard puts a stop on the position: enable_managed_exit.         *)
Enable(m, s) ==
  /\ record[m] = NoRecord
  /\ Registered(m, NewRecord(s))
  /\ UNCHANGED <<market, exits, monitor, request, counters>>

(* update_managed_exit sets a stop, in memory and in the database.         *)
Update(m, s) ==
  /\ Tracked(m) /\ edits < MaxEdits /\ edits' = edits + 1
  /\ table' = [table EXCEPT ![m].stop = s, ![m].base = s]
  /\ record' = [record EXCEPT ![m].stop = s, ![m].base = s, ![m].anchor = table[m].anchor]
  /\ late' = [late EXCEPT ![m] = IF pass.at = "idle" THEN {} ELSE {s}]
  /\ raced' = IF pass.at = "idle" THEN {} ELSE raced \union {m}
  /\ UNCHANGED <<market, exits, monitor, request, byHand, losses, crashes, extra, blinds>>

Remove(m) ==
  /\ Tracked(m)
  /\ table' = [table EXCEPT ![m] = Untracked]
  /\ record' = [record EXCEPT ![m].status = "CANCELLED"]
  /\ UNCHANGED <<market, exits, monitor, request, counters>>

(* A cancel of the record by a control intent, or the nightly expiry: the  *)
(* table is not told.                                                      *)
Withdraw(m) ==
  /\ record[m].status = "CREATED"
  /\ record' = [record EXCEPT ![m].status = "CANCELLED"]
  /\ UNCHANGED <<market, exits, table, monitor, request, counters>>

-----------------------------------------------------------------------------
(* The watcher between two passes: it reconciles orders the broker has     *)
(* closed, sends the exits it finds CREATED, and registers managed ones.   *)
Reconcile(x) ==
  /\ pass.at = "idle" /\ exits[x].status = "ENDED"
  /\ exits' = [exits EXCEPT ![x].status = "DONE"]
  /\ UNCHANGED <<market, record, table, monitor, request, counters>>

Dispatch(x) ==
  /\ pass.at = "idle" /\ exits[x].status = "CREATED"
  /\ Accepted(x) \/ Refused(x) \/ SessionLost(x)
  /\ UNCHANGED <<market, record, table, monitor, request>>

Register(m) ==
  /\ pass.at = "idle" /\ record[m].status = "CREATED" /\ ~Tracked(m)
  /\ Registered(m, record[m])
  /\ UNCHANGED <<market, exits, monitor, request, counters>>

(* The backoff of a failed dispatch (30 s and more) is over. *)
BackoffEnds(m) ==
  /\ pass.at = "idle" /\ table[m].waiting
  /\ table' = [table EXCEPT ![m].waiting = FALSE]
  /\ UNCHANGED <<market, record, exits, monitor, request, counters>>

-----------------------------------------------------------------------------
(* _monitor_managed_exits: copy the table, fetch the positions, of which   *)
(* get_positions() shows none when the broker's answer was none.           *)
StartPass ==
  /\ pass.at = "idle" /\ \E m \in Managed : Tracked(m)
  /\ local' = table
  /\ \/ /\ pass' = [NoPass EXCEPT !.at = "look", !.net = net, !.ltp = ltp,
                               !.left = {m \in Managed : Tracked(m)}]
        /\ UNCHANGED blinds
     \/ /\ net # 0 /\ MoreTrouble /\ blinds < MaxBlinds /\ blinds' = blinds + 1
        /\ pass' = [NoPass EXCEPT !.at = "look", !.blind = TRUE,
                               !.left = {m \in Managed : Tracked(m)}]
  /\ UNCHANGED <<market, record, exits, table, request, edits, byHand, losses, crashes, extra, late, raced>>

Looking(m) == pass.at = "look" /\ m \in pass.left

Done(m) == [pass EXCEPT !.at = "look", !.left = @ \ {m}, !.cur = "none", !.exit = 0]

Dropped(m) == [Done(m) EXCEPT !.drop = @ \union {m}]

Kept(m) == [Done(m) EXCEPT !.keep = @ \union {m}]

(* ... forget the records closed meanwhile, close those without position,  *)
LookClosed(m) ==
  /\ Looking(m) /\ record[m].status # "CREATED"
  /\ pass' = Dropped(m)
  /\ UNCHANGED <<market, record, exits, table, local, request, counters>>

LookFlat(m) ==
  /\ Looking(m) /\ record[m].status = "CREATED" /\ pass.net = 0
  /\ record' = [record EXCEPT ![m].status = IF pass.blind THEN "UNSEEN" ELSE "FLAT"]
  /\ pass' = Dropped(m)
  /\ UNCHANGED <<market, exits, table, local, request, counters>>

Live(m) == Looking(m) /\ record[m].status = "CREATED" /\ pass.net # 0

(* leave alone those without a price, in backoff or out of trading hours,  *)
LookDeferred(m) ==
  /\ Live(m)
  /\ \/ pass.ltp = NoPrice /\ pass' = Done(m)
     \/ pass.ltp # NoPrice /\ pass' = Kept(m)
  /\ UNCHANGED <<market, record, exits, table, local, request, counters>>

(* The direction of the position the pass found. *)
Long == pass.net > 0

AnchorOf(state) == IF state.anchor = NoPrice THEN pass.ltp ELSE state.anchor

Favourable(state) ==
  LET move == IF Long THEN pass.ltp - AnchorOf(state) ELSE AnchorOf(state) - pass.ltp
  IN  IF move > 0 THEN move ELSE 0

(* POINTS trailing: whole steps from the configured stop. *)
Stepped(state) ==
  LET steps == Favourable(state) \div Trigger
  IN  IF Long THEN state.base + steps * Step ELSE state.base - steps * Step

(* Mutation: the step replaces the stop even if that loosens it. *)
TrailedAnyway(state) == Stepped(state)

Tighter(new, old) == IF Long THEN new > old ELSE new < old

Trailed(state) ==
  IF Favourable(state) >= Trigger /\ Tighter(Stepped(state), state.stop)
  THEN Stepped(state) ELSE state.stop

(* Mutation: the trailed stop is not written to the database. *)
PersistNothing(m, state) == UNCHANGED record

Persist(m, state) ==
  record' = IF state.stop = local[m].stop THEN record
            ELSE [record EXCEPT ![m].stop = state.stop, ![m].base = state.base,
                                ![m].anchor = state.anchor]

StopHit(stop) == IF Long THEN pass.ltp <= stop ELSE pass.ltp >= stop

(* Mutation: an exit that failed once is not tried again.                  *)
LookOnce(m) ==
  /\ Live(m) /\ pass.ltp # NoPrice /\ local[m].failures = 0
  /\ LET state == [local[m] EXCEPT !.anchor = AnchorOf(local[m]), !.stop = Trailed(local[m])]
     IN  /\ local' = [local EXCEPT ![m] = state]
         /\ Persist(m, state)
         /\ pass' = IF StopHit(state.stop) THEN [pass EXCEPT !.at = "hit", !.cur = m]
                    ELSE Kept(m)
  /\ UNCHANGED <<market, exits, table, request, counters>>

(* trail the stop of the others, and trigger those it has reached.         *)
Look(m) ==
  /\ Live(m) /\ pass.ltp # NoPrice /\ ~local[m].waiting
  /\ LET state == [local[m] EXCEPT !.anchor = AnchorOf(local[m]), !.stop = Trailed(local[m])]
     IN  /\ local' = [local EXCEPT ![m] = state]
         /\ Persist(m, state)
         /\ pass' = IF StopHit(state.stop) THEN [pass EXCEPT !.at = "hit", !.cur = m]
                    ELSE Kept(m)
  /\ UNCHANGED <<market, exits, table, request, counters>>

(* _execute_managed_exit: an order over the whole net quantity, on the     *)
(* side of the record; then execute_command; then the record is closed.    *)
TriggerExit ==
  /\ pass.at = "hit"
  /\ \E x \in ExitIds :
       /\ CreateExit(x, pass.cur, Abs(pass.net))
       /\ pass' = [pass EXCEPT !.at = "placing", !.exit = x]
  /\ UNCHANGED <<market, record, table, local, request, counters>>

PlaceExit ==
  /\ pass.at = "placing"
  /\ \/ Accepted(pass.exit) /\ pass' = [pass EXCEPT !.at = "placed"]
     \/ (Refused(pass.exit) \/ SessionLost(pass.exit)) /\ pass' = [pass EXCEPT !.at = "failed"]
  /\ UNCHANGED <<market, record, table, local, request>>

(* Mutation: the record stays open after its exit was sent. *)
LeaveOpen ==
  /\ pass.at = "placed"
  /\ pass' = Kept(pass.cur)
  /\ UNCHANGED <<market, record, exits, table, local, request, counters>>

CloseRecord ==
  /\ pass.at = "placed"
  /\ record' = [record EXCEPT ![pass.cur].status = "TRIGGERED"]
  /\ pass' = Dropped(pass.cur)
  /\ UNCHANGED <<market, exits, table, local, request, counters>>

(* A failed dispatch is retried after a backoff, and given up in the end.  *)
Failures == local[pass.cur].failures + 1

GiveUp ==
  /\ pass.at = "failed" /\ Failures >= MaxFailures
  /\ record' = [record EXCEPT ![pass.cur].status = "GAVE_UP"]
  /\ pass' = Dropped(pass.cur)
  /\ UNCHANGED <<market, exits, table, local, request, counters>>

ScheduleRetry ==
  /\ pass.at = "failed" /\ Failures < MaxFailures
  /\ local' = [local EXCEPT ![pass.cur].failures = Failures, ![pass.cur].waiting = TRUE]
  /\ pass' = Kept(pass.cur)
  /\ UNCHANGED <<market, record, exits, table, request, counters>>

(* Mutation: the retry state is not merged back. *)
MergedStops(m) == [local[m] EXCEPT !.failures = table[m].failures, !.waiting = table[m].waiting]

Merged(m) == local[m]

(* The copies are merged back into the table. *)
EndPass ==
  /\ pass.at = "look" /\ pass.left = {}
  /\ table' = [m \in Managed |-> IF m \in pass.drop \/ ~Tracked(m) THEN Untracked
                                 ELSE IF m \in pass.keep THEN Merged(m) ELSE table[m]]
  /\ local' = NoCopies /\ pass' = NoPass /\ raced' = {}
  /\ UNCHANGED <<market, record, exits, request>>
  /\ UNCHANGED <<edits, byHand, losses, crashes, extra, blinds, late>>

-----------------------------------------------------------------------------
(* exit_positions: read the positions, look for a recent exit of the same  *)
(* strategy, register a market exit.                                       *)
Answered == [at |-> "done", net |-> 0]

(* A call that is shown no position, though there be one, changes nothing. *)
ReadPositions(r) ==
  /\ request[r].at = "idle" /\ net # 0
  /\ request' = [request EXCEPT ![r] = [at |-> "read", net |-> net]]
  /\ UNCHANGED <<market, record, exits, table, monitor, counters>>

(* The record of a managed exit does not count, the order it made does.    *)
RecentExitExists(r) ==
  \E x \in ExitIds : exits[x].status \in {"CREATED", "SENT", "LOST", "ENDED"}
                     /\ Strategy[r] \in {NoStrategy, Strategy[exits[x].of]}

CheckRecent(r) ==
  /\ request[r].at = "read"
  /\ request' = [request EXCEPT ![r] = IF RecentExitExists(r) THEN Answered
                                         ELSE [at |-> "checked", net |-> @.net]]
  /\ UNCHANGED <<market, record, exits, table, monitor, counters>>

RegisterExit(r) ==
  /\ request[r].at = "checked"
  /\ \E x \in ExitIds : CreateExit(x, r, request[r].net)
  /\ request' = [request EXCEPT ![r] = Answered]
  /\ UNCHANGED <<market, record, table, monitor, counters>>

-----------------------------------------------------------------------------
(* Memory is lost; the tables and the broker stay. *)
Crash ==
  /\ MoreTrouble /\ crashes < MaxCrashes /\ crashes' = crashes + 1
  /\ table' = [m \in Managed |-> Untracked]
  /\ local' = NoCopies /\ pass' = NoPass
  /\ request' = [r \in Requesters |-> IF request[r].at = "idle" THEN request[r]
                                      ELSE Answered]
  /\ late' = [m \in Managed |-> {}] /\ raced' = {}
  /\ UNCHANGED <<market, record, exits, edits, byHand, losses, extra, blinds>>

Watch ==
  \/ StartPass \/ TriggerExit \/ PlaceExit \/ CloseRecord \/ GiveUp \/ ScheduleRetry \/ EndPass
  \/ \E m \in Managed : LookClosed(m) \/ LookFlat(m) \/ LookDeferred(m) \/ Look(m)

Next ==
  \/ Watch
  \/ \E m \in Managed : Register(m) \/ BackoffEnds(m) \/ Remove(m) \/ Withdraw(m)
  \/ \E m \in Managed : \E s \in Stops : Create(m, s) \/ Enable(m, s) \/ Update(m, s)
  \/ \E x \in ExitIds : Fill(x) \/ Reject(x) \/ FillStray(x) \/ RejectStray(x) \/ Reconcile(x) \/ Dispatch(x)
  \/ \E r \in Requesters : ReadPositions(r) \/ CheckRecent(r) \/ RegisterExit(r)
  \/ PriceMoves \/ SquaredOff \/ Crash

(* The watcher thread runs, registering what it finds in the database      *)
(* before each pass, time passes, and the exchange is open again and again *)
(* when the monitor looks at a managed exit.                               *)
Fairness ==
  /\ WF_vars(Watch)
  /\ \A m \in Managed : WF_vars(Register(m)) /\ SF_vars(BackoffEnds(m)) /\ SF_vars(Look(m))

Spec == Init /\ [][Next]_vars

FairSpec == Spec /\ Fairness

-----------------------------------------------------------------------------
(* Shape of the tables, the copies and the orders. *)
States == [stop : Int, base : Int, anchor : Prices \union {NoPrice}, failures : Nat, waiting : BOOLEAN]

TypeOK ==
  /\ net \in Int /\ ltp \in Prices
  /\ \A m \in Managed :
       /\ record[m].status \in {"NONE", "CREATED"} \union Ends
       /\ record[m].stop \in Int /\ record[m].base \in Int
       /\ record[m].anchor \in Prices \union {NoPrice}
       /\ table[m] \in States \union {Untracked} /\ local[m] \in States \union {Untracked}
       /\ Tracked(m) => table[m].failures < MaxFailures
  /\ \A x \in ExitIds :
       exits[x] = NoExit \/ (exits[x].of \in Sources /\ exits[x].qty # 0)
  /\ pass.keep \intersect pass.drop = {}
  /\ pass.at \in {"hit", "placing", "placed", "failed"} => pass.cur \in pass.left

(* "Trail SL upward as price moves in favour" (order_watcher.py:27): while *)
(* the position is long, the stop in the table only moves down when the    *)
(* dashboard says so, or when the merge of a pass undoes what it said      *)
(* during the pass: a pass loosens no stop that nobody edited meanwhile.   *)
StopNeverLoosens ==
  [][\A m \in Managed :
       Tracked(m) /\ Tracked(m)' /\ pass.net > 0 /\ edits' = edits /\ m \notin raced =>
         table'[m].stop >= table[m].stop]_vars

(* Between two passes the database has the stop of the table, so that a    *)
(* restart resumes the trailing where it was, in whatever direction; or it *)
(* has the stop the dashboard set last, during a pass whose merge has put  *)
(* the old one back into the table (order_watcher.py:679).                 *)
StopPersisted ==
  pass.at = "idle" =>
    \A m \in Managed : Tracked(m) /\ record[m].status = "CREATED" =>
       \/ record[m].stop = table[m].stop /\ record[m].base = table[m].base
       \/ record[m].stop \in late[m] /\ record[m].base = record[m].stop

(* The monitor gives up: between two restarts a managed exit makes at most *)
(* MaxFailures orders, though the count lives in a copy that is merged.    *)
BoundedRetries ==
  \A m \in Managed :
    Cardinality({x \in ExitIds : exits[x].of = m}) <= MaxFailures * (crashes + 1)

(* A long position is sold beyond zero only if orders of two sources, an   *)
(* order booked without an answer, a lost session, a crash or the user's   *)
(* own square-off came together.                                           *)
NoReversalAlone ==
  net < 0 => \/ byHand + losses + crashes + extra > 0
             \/ Cardinality({exits[x].of : x \in ExitIds} \ {"none"}) > 1

(* A stop that is hit and stays hit is acted on: the managed exit is       *)
(* triggered, given up after its failures, or cancelled, however often the *)
(* exchange is closed, the dispatch fails or the process ends.  Only a     *)
(* pass that is shown no position closes it over an open one.              *)
ActedOn == {"TRIGGERED", "GAVE_UP", "CANCELLED", "UNSEEN"}

HitIsActedOn ==
  \A m \in Managed :
    (Tracked(m) /\ ltp # NoPrice /\ ltp <= table[m].stop /\ net > 0)
      ~> \/ record[m].status \in ActedOn
         \/ ltp = NoPrice \/ net <= 0 \/ (Tracked(m) /\ ltp > table[m].stop)

(* "EXIT execution is idempotent and persistent" (order_watcher.py:32): an *)
(* exit retried, redispatched or requested twice does not sell more than   *)
(* there is.                                                               *)
ExitIsIdempotent == net >= 0
=============================================================================
