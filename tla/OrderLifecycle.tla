--------------------------- MODULE OrderLifecycle ---------------------------
(***************************************************************************)
(* The life of an order record, from the call that creates it to the       *)
(* broker's verdict: CommandService, execute_command, OrderWatcherEngine,  *)
(* the statuses the risk manager, the control consumer and the end-of-day  *)
(* cleanup write, and RecoveryBootstrap after a restart.                   *)
(*                                                                         *)
(* Threads: one submitter per entry order (a webhook or a strategy tick),  *)
(* the watcher thread, the risk heartbeat and the control consumer.        *)
(* execute_command runs under _cmd_lock, so at most one call of it is in   *)
(* flight: that call is the variable call.  Every SQL statement commits on *)
(* its own and is one step.  A crash can fall between any two steps and    *)
(* leaves the database and the broker as they are.                         *)
(*                                                                         *)
(* Simplifications: live mode (no mock fill), simple exits (managed exits  *)
(* have a module of their own), one trading day.  A status write of        *)
(* execute_command, of the breach handler or of the watcher may fail, as   *)
(* far as MaxLost allows; one that creates, cancels or expires a record    *)
(* and fails has not happened.                                             *)
(***************************************************************************)
EXTENDS Integers, FiniteSets

CONSTANTS
  Entries,      \* command ids of ENTRY orders
  Exits,        \* command ids of EXIT orders
  Slot,         \* Slot[o]: the strategy and symbol of an order
  MaxBooked,    \* bound on the orders that reach the broker's book
  MaxAttempts,  \* ORDER_MAX_RETRY_ATTEMPTS of place_order
  MaxCrashes,   \* bound on the crashes of the process
  MaxLost       \* bound on the status writes that fail

Orders == Entries \union Exits

BrokerIds == 1 .. MaxBooked  \* order numbers, assigned in this order

ASSUME OrderAssumption ==
  /\ Entries \intersect Exits = {}
  /\ DOMAIN Slot = Orders
  /\ MaxBooked \in Nat
  /\ MaxAttempts \in Nat \ {0}
  /\ MaxCrashes \in Nat
  /\ MaxLost \in Nat

VARIABLES
  status,      \* orders table: status of each record, "NONE" before it exists
  brokerId,    \* orders table: broker_order_id, 0 for NULL
  lost,        \* status writes that failed
  unmarked,    \* commands sent on although the write of step 3 failed
  book,        \* the broker's order book
  call,        \* the execute_command call that holds _cmd_lock
  submitted,   \* entries whose submitter waits for _cmd_lock
  watch,       \* what the watcher thread is doing
  polled,      \* broker orders of the polled book still to be looked at
  telling,     \* the fill written and not told yet
  todo,        \* exits of the open-order list still to be dispatched
  dispatched,  \* _dispatched_exits of the watcher
  riskHit,     \* daily_loss_hit (persisted: it survives a restart)
  riskTodo,    \* orders the breach handler still has to mark FAILED
  recovering,  \* broker orders RecoveryBootstrap still has to look at
  fills,       \* on_fill callbacks delivered for each order
  crashes

failures == <<lost, unmarked>>
database == <<status, brokerId, failures>>
watcherVars == <<watch, polled, telling, todo, dispatched>>
vars == <<database, book, call, submitted, watcherVars, riskHit, riskTodo,
          recovering, fills, crashes>>

-----------------------------------------------------------------------------
Statuses ==
  {"NONE", "CREATED", "SENT_TO_BROKER", "EXECUTED", "FAILED", "CANCELLED", "EXPIRED"}

Open == {"CREATED", "SENT_TO_BROKER"}

(* The broker's states, REJECTED standing for every way not to be filled.  *)
(* acked: place_order returned this order's number.                        *)
BookEntry == [cmd : Orders, state : {"OPEN", "COMPLETE", "REJECTED"}, acked : BOOLEAN]

NoEntry == [cmd |-> "none", state |-> "NONE", acked |-> FALSE]

(* Where the call in flight is, between two of its steps.                  *)
Stages == {"cleared", "unblocked", "marked", "accepted", "refused"}

Idle == [cmd |-> "none", at |-> "idle", id |-> 0, tries |-> 0]

GetOpenOrders == {o \in Orders : status[o] \in Open}

(* The broker numbers its orders one after the other. *)
NextNumber(id) == id \in BrokerIds /\ book[id] = NoEntry
             /\ \A other \in BrokerIds : other < id => book[other] # NoEntry

Known(o) == brokerId[o] # 0

Filled(o) == Known(o) /\ book[brokerId[o]].state = "COMPLETE"

Init ==
  /\ status = [o \in Orders |-> "NONE"]
  /\ brokerId = [o \in Orders |-> 0]
  /\ lost = 0 /\ unmarked = {}
  /\ book = [id \in BrokerIds |-> NoEntry]
  /\ call = Idle
  /\ submitted = {}
  /\ watch = "poll" /\ polled = {} /\ telling = {} /\ todo = {} /\ dispatched = {}
  /\ riskHit = FALSE /\ riskTodo = {}
  /\ recovering = {}
  /\ fills = [o \in Orders |-> 0]
  /\ crashes = 0

Mark(o, s) == status' = [status EXCEPT ![o] = s] /\ UNCHANGED failures

(* The database is locked or full: the record stays as it is. *)
Lose == lost < MaxLost /\ lost' = lost + 1 /\ UNCHANGED status

(* A failing write is logged, and its caller goes on. *)
TryMark(o, s) == Mark(o, s) \/ (Lose /\ UNCHANGED unmarked)

-----------------------------------------------------------------------------
(* CommandService.submit up to execute_command; register for an EXIT.      *)
Submit(o) ==
  /\ o \in Entries /\ status[o] = "NONE"
  /\ \/ Mark(o, "CREATED") /\ submitted' = submitted \union {o}
     \/ Mark(o, "FAILED") /\ UNCHANGED submitted              \* VALIDATION_FAILED
  /\ UNCHANGED <<brokerId, book, call, watcherVars, riskHit, riskTodo, recovering,
                 fills, crashes>>

Register(o) ==
  /\ o \in Exits /\ status[o] = "NONE"
  /\ Mark(o, "CREATED")
  /\ UNCHANGED <<brokerId, book, call, submitted, watcherVars, riskHit, riskTodo,
                 recovering, fills, crashes>>

-----------------------------------------------------------------------------
(* execute_command.  The caller is the submitter of an entry, or the       *)
(* watcher going through its list; the record's own status is not read.    *)
Caller(o) == IF o \in Entries THEN o \in submitted ELSE watch = "dispatch" /\ o \in todo

Released(o) ==
  /\ submitted' = submitted \ {o}
  /\ todo' = todo \ {o}

(* _ensure_login, then check 2A: an entry needs can_execute. *)
Begin(o) ==
  /\ call = Idle /\ Caller(o)
  /\ o \in Entries => ~riskHit
  /\ call' = [cmd |-> o, at |-> "cleared", id |-> 0, tries |-> 0]
  /\ UNCHANGED <<database, book, submitted, watcherVars, riskHit, riskTodo, recovering,
                 fills, crashes>>

BlockedByRisk(o) ==
  /\ call = Idle /\ Caller(o)
  /\ o \in Entries /\ riskHit
  /\ TryMark(o, "FAILED")
  /\ Released(o)
  /\ UNCHANGED <<brokerId, book, call, watch, polled, telling, dispatched, riskHit, riskTodo,
                 recovering, fills, crashes>>

(* The session is lost: RuntimeError before anything was written. *)
LoginFails(o) ==
  /\ call = Idle /\ Caller(o)
  /\ Released(o)
  /\ UNCHANGED <<database, book, call, watch, polled, telling, dispatched, riskHit, riskTodo,
                 recovering, fills, crashes>>

(* Mutation: 2C looks for waiting orders only, not for sent ones. *)
DuplicateWaiting(o) ==
  \E other \in Orders : other # o /\ Slot[other] = Slot[o] /\ status[other] = "CREATED"

(* Checks 2B and 2C: the guard knows the strategy, or another open order   *)
(* of the strategy is on the symbol.                                       *)
Duplicate(o) ==
  \E other \in GetOpenOrders : other # o /\ Slot[other] = Slot[o]

Unblocked ==
  /\ call.at = "cleared"
  /\ call.cmd \in Entries => ~Duplicate(call.cmd)
  /\ call' = [call EXCEPT !.at = "unblocked"]
  /\ UNCHANGED <<database, book, submitted, watcherVars, riskHit, riskTodo, recovering,
                 fills, crashes>>

BlockedByGuard ==
  /\ call.at = "cleared" /\ call.cmd \in Entries
  /\ TryMark(call.cmd, "FAILED")
  /\ Released(call.cmd)
  /\ call' = Idle
  /\ UNCHANGED <<brokerId, book, watch, polled, telling, dispatched, riskHit, riskTodo,
                 recovering, fills, crashes>>

(* Mutation: the status is left to step 5. *)
MarkSentLater ==
  /\ call.at = "unblocked"
  /\ call' = [call EXCEPT !.at = "marked"]
  /\ UNCHANGED <<database, book, submitted, watcherVars, riskHit, riskTodo, recovering,
                 fills, crashes>>

(* Step 3: the status is written before the order leaves, and the order    *)
(* leaves all the same when the write fails.                               *)
MarkSent ==
  /\ call.at = "unblocked"
  /\ \/ Mark(call.cmd, "SENT_TO_BROKER")
     \/ Lose /\ unmarked' = unmarked \union {call.cmd}
  /\ call' = [call EXCEPT !.at = "marked"]
  /\ UNCHANGED <<brokerId, book, submitted, watcherVars, riskHit, riskTodo, recovering,
                 fills, crashes>>

(* Step 4, place_order: the order reaches the book, or not, and the answer *)
(* is its number, a refusal, an exception, or empty.  An empty answer logs *)
(* in again and sends the order again, until the attempts are used up.     *)
Booked(id, acked) ==
  /\ NextNumber(id)
  /\ book' = [book EXCEPT ![id] = [cmd |-> call.cmd, state |-> "OPEN", acked |-> acked]]

Place ==
  /\ call.at = "marked"
  /\ \E id \in BrokerIds :
       /\ Booked(id, TRUE)
       /\ call' = [call EXCEPT !.at = "accepted", !.id = id]
  /\ UNCHANGED <<database, submitted, watcherVars, riskHit, riskTodo, recovering,
                 fills, crashes>>

Unanswered ==
  /\ call.at = "marked"
  /\ UNCHANGED book \/ \E id \in BrokerIds : Booked(id, FALSE)
  /\ \/ /\ call.tries + 1 < MaxAttempts                       \* empty: try again
        /\ call' = [call EXCEPT !.tries = @ + 1]
     \/ call' = [call EXCEPT !.at = "refused"]                 \* exception, or the last
  /\ UNCHANGED <<database, submitted, watcherVars, riskHit, riskTodo, recovering,
                 fills, crashes>>

(* The login before an attempt, or after an empty answer, fails:           *)
(* RuntimeError leaves the record as step 3 wrote it.                      *)
SessionLost ==
  /\ call.at = "marked"
  /\ UNCHANGED book \/ \E id \in BrokerIds : Booked(id, FALSE)
  /\ call' = Idle
  /\ Released(call.cmd)
  /\ UNCHANGED <<database, watch, polled, telling, dispatched, riskHit, riskTodo,
                 recovering, fills, crashes>>

(* Step 5.  update_broker_id writes the status again, whatever it is now;  *)
(* when it fails the number is lost, and the call has succeeded.           *)
RecordAccepted ==
  /\ call.at = "accepted"
  /\ \/ Mark(call.cmd, "SENT_TO_BROKER") /\ brokerId' = [brokerId EXCEPT ![call.cmd] = call.id]
     \/ Lose /\ UNCHANGED <<unmarked, brokerId>>
  /\ call' = Idle
  /\ Released(call.cmd)
  /\ dispatched' = IF call.cmd \in Exits THEN dispatched \union {call.cmd} ELSE dispatched
  /\ UNCHANGED <<book, watch, polled, telling, riskHit, riskTodo, recovering, fills, crashes>>

RecordRefused ==
  /\ call.at = "refused"
  /\ TryMark(call.cmd, "FAILED")
  /\ call' = Idle
  /\ Released(call.cmd)
  /\ UNCHANGED <<brokerId, book, watch, polled, telling, dispatched, riskHit, riskTodo,
                 recovering, fills, crashes>>

-----------------------------------------------------------------------------
(* The watcher thread: poll the book, then dispatch, then poll again.      *)
Owner(id) == {o \in Orders : brokerId[o] = id}

(* Mutation: only failed records are taken for reconciled. *)
ReconciledWhenFailed(o) == status[o] = "FAILED"

Reconciled(o) == status[o] \in {"EXECUTED", "FAILED"}

Verdict(id) == IF book[id].state = "COMPLETE" THEN "EXECUTED" ELSE "FAILED"

(* The broker orders of the polled book the loop has something to do for:  *)
(* a final verdict, and a record under the number that lacks it.           *)
Unreconciled ==
  {id \in BrokerIds : /\ book[id].state \in {"COMPLETE", "REJECTED"}
                      /\ \E o \in Owner(id) : ~Reconciled(o)}

PollBook ==
  /\ watch = "poll" /\ polled = {}
  /\ polled' = Unreconciled /\ watch' = "reconcile"
  /\ UNCHANGED <<database, book, call, submitted, telling, todo, dispatched, riskHit, riskTodo,
                 recovering, fills, crashes>>

Reconcile(id) ==
  /\ watch = "reconcile" /\ telling = {} /\ id \in polled
  /\ polled' = polled \ {id}
  /\ \/ \E o \in Owner(id) :
          /\ ~Reconciled(o)
          /\ Mark(o, Verdict(id))
          /\ telling' = IF Verdict(id) = "EXECUTED" THEN {o} ELSE {}
     \/ /\ \A o \in Owner(id) : Reconciled(o)
        /\ UNCHANGED <<status, failures, telling>>
  /\ UNCHANGED <<brokerId, book, call, submitted, watch, todo, dispatched, riskHit,
                 riskTodo, recovering, fills, crashes>>

(* The callback of the strategy, after the write of the status. *)
NotifyFill(o) ==
  /\ o \in telling
  /\ telling' = {}
  /\ fills' = [fills EXCEPT ![o] = @ + 1]
  /\ UNCHANGED <<database, book, call, submitted, watch, polled, todo, dispatched, riskHit,
                 riskTodo, recovering, crashes>>

(* A failing write ends the cycle: the loop logs the error and polls anew. *)
ReconcileFails(id) ==
  /\ watch = "reconcile" /\ telling = {} /\ id \in polled
  /\ \E o \in Owner(id) : ~Reconciled(o)
  /\ Lose
  /\ watch' = "poll" /\ polled' = {}
  /\ UNCHANGED <<brokerId, unmarked, book, call, submitted, telling, todo, dispatched,
                 riskHit, riskTodo, recovering, fills, crashes>>

(* Mutation: a record counts as dispatched before its call succeeded. *)
ListOpenExitsOnce ==
  /\ watch = "reconcile" /\ polled = {} /\ telling = {}
  /\ todo' = {o \in Exits : status[o] = "CREATED" /\ o \notin dispatched}
  /\ dispatched' = dispatched \union todo'
  /\ watch' = "dispatch"
  /\ UNCHANGED <<database, book, call, submitted, polled, telling, riskHit, riskTodo, recovering,
                 fills, crashes>>

ListOpenExits ==
  /\ watch = "reconcile" /\ polled = {} /\ telling = {}
  /\ todo' = {o \in Exits : status[o] = "CREATED" /\ o \notin dispatched}
  /\ watch' = "dispatch"
  /\ UNCHANGED <<database, book, call, submitted, polled, telling, dispatched, riskHit, riskTodo,
                 recovering, fills, crashes>>

NextCycle ==
  /\ watch = "dispatch" /\ todo = {}
  /\ watch' = "poll"
  /\ UNCHANGED <<database, book, call, submitted, polled, telling, todo, dispatched, riskHit,
                 riskTodo, recovering, fills, crashes>>

(* _ensure_login at the head of the loop raises RuntimeError, which run    *)
(* passes on: the thread is gone and nothing starts another.               *)
WatcherDies ==
  /\ watch = "poll"
  /\ watch' = "dead"
  /\ UNCHANGED <<database, book, call, submitted, polled, telling, todo, dispatched, riskHit,
                 riskTodo, recovering, fills, crashes>>

-----------------------------------------------------------------------------
(* The heartbeat finds the day's loss limit broken: can_execute is false   *)
(* from now on, and the open entries it lists are marked FAILED one by one.*)
Breach ==
  /\ ~riskHit
  /\ riskHit' = TRUE
  /\ riskTodo' = GetOpenOrders \intersect Entries
  /\ UNCHANGED <<database, book, call, submitted, watcherVars, recovering, fills, crashes>>

RiskCancel(o) ==
  /\ o \in riskTodo
  /\ riskTodo' = riskTodo \ {o}
  /\ TryMark(o, "FAILED")
  /\ UNCHANGED <<brokerId, book, call, submitted, watcherVars, riskHit, recovering,
                 fills, crashes>>

(* A control intent cancels one record or all, and the nightly cleanup     *)
(* expires all, if the record is still open at that moment.                *)
Cancel(o) ==
  /\ o \in GetOpenOrders
  /\ Mark(o, "CANCELLED")
  /\ UNCHANGED <<brokerId, book, call, submitted, watcherVars, riskHit, riskTodo,
                 recovering, fills, crashes>>

CloseAll(s) ==
  /\ GetOpenOrders # {}
  /\ status' = [o \in Orders |-> IF status[o] \in Open THEN s ELSE status[o]]
  /\ UNCHANGED <<brokerId, failures, book, call, submitted, watcherVars, riskHit, riskTodo,
                 recovering, fills, crashes>>

CancelAll == CloseAll("CANCELLED")

ExpireAll == CloseAll("EXPIRED")

-----------------------------------------------------------------------------
(* The broker works an order off. *)
BrokerCloses(id, s) ==
  /\ book[id].state = "OPEN"
  /\ book' = [book EXCEPT ![id].state = s]
  /\ UNCHANGED <<database, call, submitted, watcherVars, riskHit, riskTodo, recovering,
                 fills, crashes>>

(* What RecoveryBootstrap corrects: any status but the broker's verdict.   *)
Disagreeing ==
  {id \in BrokerIds : /\ book[id].state \in {"COMPLETE", "REJECTED"}
                      /\ \E o \in Owner(id) : status[o] # Verdict(id)}

(* The process goes down and comes up again: threads start anew, the       *)
(* recovery reads the book unless the broker cannot be reached.  A fill    *)
(* that was written and not told is never told.                            *)
Crash ==
  /\ crashes < MaxCrashes
  /\ crashes' = crashes + 1
  /\ call' = Idle /\ submitted' = {}
  /\ watch' = "poll" /\ polled' = {} /\ telling' = {} /\ todo' = {} /\ dispatched' = {}
  /\ riskTodo' = {}
  /\ recovering' \in {Disagreeing, {}}
  /\ UNCHANGED <<database, book, riskHit, fills>>

Recover(id) ==
  /\ id \in recovering
  /\ recovering' = recovering \ {id}
  /\ \/ /\ status' = [o \in Orders |-> IF o \in Owner(id) THEN Verdict(id) ELSE status[o]]
        /\ UNCHANGED failures
     \/ Lose /\ UNCHANGED unmarked
  /\ UNCHANGED <<brokerId, book, call, submitted, watcherVars, riskHit, riskTodo,
                 fills, crashes>>

Execute ==
  \/ \E o \in Orders : Begin(o) \/ BlockedByRisk(o)
  \/ Unblocked \/ BlockedByGuard \/ MarkSent \/ Place \/ Unanswered
  \/ RecordAccepted \/ RecordRefused

Watcher ==
  \/ PollBook \/ ListOpenExits \/ NextCycle
  \/ \E id \in BrokerIds : Reconcile(id)
  \/ \E o \in Orders : NotifyFill(o)

Next ==
  \/ \E o \in Orders : Submit(o) \/ Register(o) \/ LoginFails(o) \/ RiskCancel(o) \/ Cancel(o)
  \/ Execute \/ SessionLost \/ Watcher \/ WatcherDies
  \/ Breach \/ CancelAll \/ ExpireAll
  \/ \E id \in BrokerIds : BrokerCloses(id, "COMPLETE") \/ BrokerCloses(id, "REJECTED")
  \/ Crash \/ \E id \in BrokerIds : Recover(id) \/ ReconcileFails(id)

(* The process runs its threads: a call in flight goes on, the watcher     *)
(* loops, and a session that keeps coming back is not lost at every single *)
(* attempt to dispatch an exit.  Nothing is assumed of the environment.    *)
Fairness ==
  /\ WF_vars(Execute) /\ WF_vars(Watcher)
  /\ \A o \in Exits : SF_vars(Begin(o))

Spec == Init /\ [][Next]_vars

FairSpec == Spec /\ Fairness

-----------------------------------------------------------------------------
(* Shape of the tables and of each thread's private state. *)
TypeOK ==
  /\ status \in [Orders -> Statuses]
  /\ brokerId \in [Orders -> BrokerIds \union {0}]
  /\ lost \in Nat /\ unmarked \subseteq Orders
  /\ book \in [BrokerIds -> BookEntry \union {NoEntry}]
  /\ \/ call = Idle
     \/ call \in [cmd : Orders, at : Stages, id : BrokerIds \union {0}, tries : Nat]
  /\ submitted \subseteq Entries
  /\ watch \in {"poll", "reconcile", "dispatch", "dead"}
  /\ polled \subseteq BrokerIds /\ telling \subseteq Orders
  /\ todo \subseteq Exits /\ dispatched \subseteq Exits
  /\ riskHit \in BOOLEAN /\ riskTodo \subseteq Entries
  /\ recovering \subseteq BrokerIds
  /\ fills \in [Orders -> Nat]
  /\ crashes \in Nat

(* The broker acknowledges at most one order per command, whatever is      *)
(* retried, redispatched or restarted: step 3 marks the record before the  *)
(* order leaves, and only CREATED exits are dispatched.  Excepted are the  *)
(* commands that left although this very write failed: a restart finds     *)
(* such an exit CREATED and sends it again.                                *)
AcknowledgedOnce ==
  \A i, j \in BrokerIds :
     /\ book[i].acked /\ book[j].acked /\ book[i].cmd = book[j].cmd
     /\ book[i].cmd \notin unmarked
     => i = j

(* "Broker is the ONLY source of EXECUTED truth": a record says EXECUTED   *)
(* only when the broker order under its number is of this command and      *)
(* complete.                                                               *)
ExecutedIsFilled ==
  \A o \in Orders : status[o] = "EXECUTED" => Filled(o) /\ book[brokerId[o]].cmd = o

(* Check 2C: of the entries of one strategy on one symbol at most one is   *)
(* marked as sent, whatever is cancelled, expired or revived by a late     *)
(* update_broker_id.                                                       *)
OneEntryPerSlot ==
  \A o, p \in Entries :
     status[o] = "SENT_TO_BROKER" /\ status[p] = "SENT_TO_BROKER" /\ Slot[o] = Slot[p] => o = p

(* A strategy hears of a fill once: neither the next poll nor a restart    *)
(* with its recovery repeats the on_fill callback.                         *)
FillNotifiedOnce == \A o \in Orders : fills[o] <= 1

(* A fill under a known number is recorded in the end, unless the watcher  *)
(* thread died.                                                            *)
FillRecorded ==
  \A o \in Orders :
     (Filled(o) /\ status[o] = "SENT_TO_BROKER") ~> (status[o] # "SENT_TO_BROKER" \/ watch = "dead")

(* A registered exit leaves CREATED in the end, unless the watcher thread  *)
(* died: a failed login is retried by the next cycle.  An exit whose       *)
(* status writes all failed may stay CREATED, but then the broker has      *)
(* acknowledged it.                                                        *)
ExitDispatched ==
  \A o \in Exits :
     (status[o] = "CREATED") ~> \/ status[o] # "CREATED" \/ watch = "dead"
                               \/ \E id \in BrokerIds : book[id].cmd = o /\ book[id].acked

(* The status contract of repository.py: "FAILED : Broker cancelled /      *)
(* rejected / expired".                                                    *)
FailedIsNotFilled ==
  \A o \in Orders : status[o] = "FAILED" =>
     \A id \in BrokerIds : book[id].cmd = o => book[id].state # "COMPLETE"
=============================================================================
