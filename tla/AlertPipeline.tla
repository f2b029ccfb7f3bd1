---------------------------- MODULE AlertPipeline ----------------------------
(* The way of an alert of one strategy, from a webhook thread or the       *)
(* strategy's executor to the orders it leads to: process_alert with the   *)
(* lock of the strategy, the guard's view made from the broker's           *)
(* positions, the duplicate check, the guard's plan, the routing of mixed  *)
(* batches and the legs one by one.  The guard is ExecutionGuard, whose    *)
(* actions are the calls made here; the order watcher and the broker move  *)
(* between any two steps.                                                  *)
(*                                                                         *)
(* Simplifications: LIVE mode; the legs of one alert are on different      *)
(* symbols and are visited in any order; an order fills completely or not  *)
(* at all; nobody else trades in the account.                              *)
EXTENDS ExecutionGuard, Sequences, FiniteSets

CONSTANTS
  Self,         \* the strategy of the alerts
  Callers,      \* threads that call process_alert
  AlertChoice,  \* alerts they may bring: [type, legs]
  MaxAlerts,    \* bound on the alerts
  MaxBlind      \* bound on the failing position calls

ASSUME CallersAssumption == "free" \notin Callers

VARIABLES
  net,     \* net quantity of each symbol at the broker
  view,    \* positions the broker view has cached: [young, net]
  orders,  \* records of the strategy: [kind, sym, side, qty, asked, status, filled]
  lock,    \* the caller that holds the strategy's lock, or "free"
  call,    \* per caller how far it is; marked: duplicates, or the exits of a batch
  due,     \* the watcher has marked an order EXECUTED and not yet reconciled the guard
  used     \* counters for the bounds

pipeVars == <<net, view, orders, lock, call, due, used>>

-----------------------------------------------------------------------------
Signed(side, qty) == IF side = "BUY" THEN qty ELSE 0 - qty
Size(n) == IF n < 0 THEN 0 - n ELSE n

Flat == [sym \in Symbols |-> 0]
Expired == [young |-> FALSE, net |-> Flat]
NoAlert == [type |-> "none", legs |-> <<>>]
Idle == [pc |-> "idle", alert |-> NoAlert, seen |-> Flat, marked |-> {}, plan |-> <<>>,
         left |-> {}, good |-> 0, sent |-> 0, tried |-> FALSE, answer |-> "none"]

Open == {"CREATED", "SENT_TO_BROKER"}
OpenOn(sym) == {i \in DOMAIN orders : orders[i].sym = sym /\ orders[i].status \in Open}

PipeInit ==
  /\ Init
  /\ net = Flat /\ view = Expired /\ orders = <<>> /\ lock = "free"
  /\ call = [c \in Callers |-> Idle]
  /\ due = FALSE /\ used = [alerts |-> 0, blind |-> 0]

Legs(c) == DOMAIN call[c].alert.legs
Leg(c, sym) == call[c].alert.legs[sym]
Type(c) == call[c].alert.type
At(c, pc) == call[c].pc = pc
Go(c, pc) == call' = [call EXCEPT ![c].pc = pc]
Answered(c, answer) == call' = [call EXCEPT ![c].pc = "answer", ![c].answer = answer]

(* A call for fresh positions; the callers here put the empty list in the  *)
(* place of a failure.                                                     *)
Positions(p) ==
  \/ p = net /\ view' = [young |-> TRUE, net |-> net] /\ UNCHANGED used
  \/ /\ used.blind < MaxBlind
     /\ p = Flat /\ view' = Expired /\ used' = [used EXCEPT !.blind = @ + 1]

MapOf(p) ==
  [sym \in Symbols |-> [d \in Directions |->
     IF d = (IF p[sym] > 0 THEN "BUY" ELSE "SELL") THEN Size(p[sym]) ELSE 0]]

-----------------------------------------------------------------------------
Receive(c) ==
  /\ At(c, "idle") /\ used.alerts < MaxAlerts
  /\ \E a \in AlertChoice : call' = [call EXCEPT ![c] = [Idle EXCEPT !.pc = "lock", !.alert = a]]
  /\ used' = [used EXCEPT !.alerts = @ + 1]
  /\ UNCHANGED <<vars, net, view, orders, lock, due>>

(* Mutation: every call makes a lock of its own. *)
TakesOwnLock(c) == TRUE

TakesLock(c) == lock = "free"

(* Under the lock an ENTRY or ADJUSTMENT is first put to the risk manager. *)
Acquire(c) ==
  /\ At(c, "lock") /\ TakesLock(c)
  /\ lock' = c
  /\ \/ Go(c, "reconcile")
     \/ Type(c) # "EXIT" /\ Answered(c, "blocked")
  /\ UNCHANGED <<vars, net, view, orders, used, due>>

ReconcileGuard(c) ==
  /\ At(c, "reconcile")
  /\ \E p \in {net, Flat} : Positions(p) /\ Reconcile(Self, MapOf(p))
  /\ Go(c, IF Type(c) = "ENTRY" THEN "orders" ELSE "guard")
  /\ UNCHANGED <<net, orders, lock, due>>

(* has_live_entry_block, first half: an open order on the symbol. *)
DuplicateOrders(c) == {sym \in Legs(c) : OpenOn(sym) # {}}

CheckOrders(c) ==
  /\ At(c, "orders")
  /\ call' = [call EXCEPT ![c].pc = "positions", ![c].marked = DuplicateOrders(c)]
  /\ UNCHANGED <<vars, net, view, orders, lock, used, due>>

(* Second half: a position, as the cache has it while it is young, else    *)
(* as the broker has it.  When that call fails too the orders stand in for *)
(* the positions, and of those only the ones sent and not yet executed.    *)
CheckPositions(c) ==
  /\ At(c, "positions")
  /\ \/ /\ view.young
        /\ call' = [call EXCEPT ![c].pc = "guard",
                                ![c].marked = @ \cup {sym \in Legs(c) : view.net[sym] # 0}]
        /\ UNCHANGED <<view, used>>
     \/ /\ view' = [young |-> TRUE, net |-> net]
        /\ call' = [call EXCEPT ![c].pc = "guard",
                                ![c].marked = @ \cup {sym \in Legs(c) : net[sym] # 0}]
        /\ UNCHANGED used
     \/ /\ used.blind < MaxBlind
        /\ used' = [used EXCEPT !.blind = @ + 1]
        /\ call' = [call EXCEPT ![c].pc = "guard",
                       ![c].marked = @ \cup {sym \in Legs(c) : \E i \in DOMAIN orders :
                                       orders[i].sym = sym /\ orders[i].status = "SENT_TO_BROKER"}]
        /\ UNCHANGED view
  /\ UNCHANGED <<vars, net, orders, lock, due>>

-----------------------------------------------------------------------------

(* validate_and_prepare.  An EXIT is symbolic: its plan is everything the  *)
(* guard holds for the strategy, in full, whatever the legs ask.           *)
Planned(c) ==
  IF Type(c) = "EXIT" THEN [sym \in Held(Self) |-> strategyPositions[Self][sym].qty]
                      ELSE Approved(Self, call[c].alert.legs)

Accepts(c) ==
  \/ Type(c) = "EXIT"
  \/ /\ Type(c) = "ENTRY" => ~HasStrategy(Self)
     /\ WellFormed(call[c].alert.legs) /\ NoConflict(call[c].alert.legs)
     /\ SameDirection(Self, call[c].alert.legs)
     /\ NoReduction(Self, call[c].alert.legs) /\ AllOrNothing(Self, call[c].alert.legs)

Guard(c) ==
  /\ At(c, "guard")
  /\ \/ /\ Type(c) = "EXIT" /\ UNCHANGED vars
     \/ /\ Type(c) = "ENTRY" /\ Entry(Self, call[c].alert.legs)
     \/ /\ Type(c) = "ADJUSTMENT" /\ Adjust(Self, call[c].alert.legs)
  /\ call' = [call EXCEPT ![c].pc = "route", ![c].plan = Planned(c), ![c].left = Legs(c)]
  /\ UNCHANGED <<net, view, orders, lock, used, due>>

GuardRefuses(c) ==
  /\ At(c, "guard") /\ ~Accepts(c)
  /\ Answered(c, "blocked")
  /\ UNCHANGED <<vars, net, view, orders, lock, used, due>>

-----------------------------------------------------------------------------
(* _atomic_route_intents: a leg against the position is an exit, any other *)
(* an entry.  Only the legs of an EXIT alert are in its plan as exits, and *)
(* those of no EXIT alert are in it as entries: a mixed EXIT alert exits   *)
(* the first and drops the others, any other mixed alert sends nothing.    *)
Against(c, p, sym) == p[sym] # 0 /\ Leg(c, sym).direction = (IF p[sym] > 0 THEN "SELL" ELSE "BUY")

Order(kind, sym, side, qty, asked, status) ==
  [kind |-> kind, sym |-> sym, side |-> side, qty |-> qty, asked |-> asked,
   status |-> status, filled |-> FALSE]

Route(c) ==
  /\ At(c, "route")
  /\ \E p \in {net, Flat} :
       LET outs == {sym \in Legs(c) : Against(c, p, sym)} IN
       /\ Positions(p)
       /\ \/ outs \in {{}, Legs(c)} /\ Go(c, IF Type(c) = "EXIT" THEN "look" ELSE "legs")
          \/ outs \notin {{}, Legs(c)} /\ Type(c) # "EXIT" /\ Answered(c, "FAILED")
          \/ /\ outs \notin {{}, Legs(c)} /\ Type(c) = "EXIT"
             /\ call' = [call EXCEPT ![c].pc = "batch", ![c].left = outs, ![c].marked = outs]
  /\ UNCHANGED <<vars, net, orders, lock, due>>

(* Phase 1, one exit after the other; the registration may fail. *)
RegisterBatch(c) ==
  /\ At(c, "batch")
  /\ \E sym \in call[c].left :
       \/ /\ sym \in DOMAIN call[c].plan
          /\ orders' = Append(orders, Order("EXIT", sym, Leg(c, sym).direction,
                                call[c].plan[sym], Leg(c, sym).qty, "CREATED"))
          /\ call' = [call EXCEPT ![c].left = @ \ {sym}, ![c].good = @ + 1, ![c].sent = @ + 1]
       \/ /\ call' = [call EXCEPT ![c].left = @ \ {sym}]
          /\ UNCHANGED orders
  /\ UNCHANGED <<vars, net, view, lock, used, due>>

BatchRegistered(c) ==
  /\ At(c, "batch") /\ call[c].left = {}
  /\ IF call[c].good = 0 THEN Answered(c, "FAILED") ELSE Go(c, "wait")
  /\ UNCHANGED <<vars, net, view, orders, lock, used, due>>

(* Phase 2: up to 30 s for the positions and the open orders to go. *)
WaitUntilFlat(c) ==
  /\ At(c, "wait")
  /\ \A sym \in call[c].marked : net[sym] = 0 /\ OpenOn(sym) = {}
  /\ view' = [young |-> TRUE, net |-> net]
  /\ Answered(c, "ATOMIC_BATCH_EXECUTED")
  /\ UNCHANGED <<vars, net, orders, lock, used, due>>

(* Mutation: it waits for as long as it takes. *)
NeverTimesOut(c) == FALSE

TimesOut(c) == At(c, "wait")

WaitTimesOut(c) ==
  /\ TimesOut(c)
  /\ Answered(c, "FAILED")
  /\ UNCHANGED <<vars, net, view, orders, lock, used, due>>

-----------------------------------------------------------------------------
(* The positions an EXIT takes its directions from. *)
LookForExit(c) ==
  /\ At(c, "look")
  /\ \E p \in {net, Flat} : Positions(p) /\ call' = [call EXCEPT ![c].pc = "legs", ![c].seen = p]
  /\ UNCHANGED <<vars, net, orders, lock, due>>

(* A leg that is skipped: no position to exit, or not in the plan. *)
SkipLeg(c, sym) ==
  /\ \/ Type(c) = "EXIT" /\ call[c].seen[sym] = 0
     \/ sym \notin DOMAIN call[c].plan
  /\ call' = [call EXCEPT ![c].left = @ \ {sym}]
  /\ UNCHANGED orders

IsDuplicate(c, sym) == Type(c) = "ENTRY" /\ sym \in call[c].marked

Side(c, sym) == IF Type(c) = "EXIT" THEN (IF call[c].seen[sym] > 0 THEN "SELL" ELSE "BUY")
                                    ELSE Leg(c, sym).direction

Sendable(c, sym) == sym \in DOMAIN call[c].plan /\ (Type(c) = "EXIT" => call[c].seen[sym] # 0)

(* A leg whose order fails a check, is a duplicate or raises: nothing is   *)
(* rolled back for it.                                                     *)
FailLeg(c, sym) ==
  /\ Sendable(c, sym)
  /\ call' = [call EXCEPT ![c].left = @ \ {sym}, ![c].tried = TRUE]
  /\ UNCHANGED orders

(* register of an EXIT leaves a record for the watcher; submit of any      *)
(* other order sends it, and its refusal by the broker still counts as     *)
(* the leg's success.                                                      *)
SendLeg(c, sym) ==
  /\ Sendable(c, sym) /\ ~IsDuplicate(c, sym)
  /\ \E status \in (IF Type(c) = "EXIT" THEN {"CREATED"} ELSE {"SENT_TO_BROKER", "FAILED"}) :
       orders' = Append(orders, Order(Type(c), sym, Side(c, sym), call[c].plan[sym],
                                      Leg(c, sym).qty, status))
  /\ call' = [call EXCEPT ![c].left = @ \ {sym}, ![c].tried = TRUE, ![c].good = @ + 1,
                          ![c].sent = @ + 1]

ProcessLeg(c) ==
  /\ At(c, "legs")
  /\ \E sym \in call[c].left : SkipLeg(c, sym) \/ FailLeg(c, sym) \/ SendLeg(c, sym)
  /\ UNCHANGED <<vars, net, view, lock, used, due>>

NothingSent(c) == call[c].good = 0

(* An ENTRY without one order takes the strategy out of the guard. *)
LegsDone(c) ==
  /\ At(c, "legs") /\ call[c].left = {}
  /\ IF Type(c) = "ENTRY" /\ NothingSent(c)
       THEN ForceClose(Self) /\ Answered(c, "FAILED")
       ELSE /\ UNCHANGED vars
            /\ Answered(c, CASE Type(c) = "EXIT" /\ ~call[c].tried -> "NO_POSITION"
                             [] call[c].good = Cardinality(Legs(c)) -> "INTENTS_REGISTERED"
                             [] call[c].good > 0 -> "PARTIALLY_REGISTERED"
                             [] OTHER -> "FAILED")
  /\ UNCHANGED <<net, view, orders, lock, used, due>>

(* Whatever the answer is, the lock is given back. *)
Answer(c) ==
  /\ At(c, "answer")
  /\ lock' = (IF lock = c THEN "free" ELSE lock)
  /\ call' = [call EXCEPT ![c] = Idle]
  /\ UNCHANGED <<vars, net, view, orders, used, due>>

-----------------------------------------------------------------------------
(* The watcher sends an exit, the broker fills an order or refuses it, the *)
(* watcher learns of it and brings the guard into line.                    *)
Dispatch(i) ==
  /\ orders[i].kind = "EXIT" /\ orders[i].status = "CREATED"
  /\ orders' = [orders EXCEPT ![i].status = "SENT_TO_BROKER"]
  /\ UNCHANGED <<vars, net, view, lock, call, used, due>>

Fill(i) ==
  /\ orders[i].status = "SENT_TO_BROKER" /\ ~orders[i].filled
  /\ orders' = [orders EXCEPT ![i].filled = TRUE]
  /\ net' = [net EXCEPT ![orders[i].sym] = @ + Signed(orders[i].side, orders[i].qty)]
  /\ UNCHANGED <<vars, view, lock, call, used, due>>

PollFilled(i) ==
  /\ ~due /\ orders[i].status = "SENT_TO_BROKER" /\ orders[i].filled
  /\ orders' = [orders EXCEPT ![i].status = "EXECUTED"]
  /\ due' = TRUE
  /\ UNCHANGED <<vars, net, view, lock, call, used>>

(* Between the two the watcher tells the strategy of the fill. *)
PollReconciles ==
  /\ due /\ due' = FALSE
  /\ Reconcile(Self, MapOf(net))
  /\ UNCHANGED <<net, view, orders, lock, call, used>>

PollRefused(i) ==
  /\ ~due /\ orders[i].status = "SENT_TO_BROKER" /\ ~orders[i].filled
  /\ orders' = [orders EXCEPT ![i].status = "FAILED"]
  /\ IF Holds(Self, orders[i].sym) THEN ForceClearSymbol(Self, orders[i].sym) ELSE UNCHANGED vars
  /\ UNCHANGED <<net, view, lock, call, used, due>>

(* The time to live of the cached positions is over. *)
Expire ==
  /\ view.young /\ view' = Expired
  /\ UNCHANGED <<vars, net, orders, lock, call, used, due>>

Step(c) ==
  \/ ReconcileGuard(c) \/ CheckOrders(c) \/ CheckPositions(c)
  \/ Guard(c) \/ GuardRefuses(c)
  \/ Route(c) \/ RegisterBatch(c) \/ BatchRegistered(c) \/ WaitUntilFlat(c) \/ WaitTimesOut(c)
  \/ LookForExit(c) \/ ProcessLeg(c) \/ LegsDone(c) \/ Answer(c)

PipeNext ==
  \/ \E c \in Callers : Receive(c) \/ Acquire(c) \/ Step(c)
  \/ \E i \in DOMAIN orders : Dispatch(i) \/ Fill(i) \/ PollFilled(i) \/ PollRefused(i)
  \/ PollReconciles \/ Expire

PipeSpec == PipeInit /\ [][PipeNext]_<<vars, pipeVars>>

(* A caller goes on, and one that waits for the lock gets it when the lock *)
(* is free again and again.                                                *)
PipeFairness == \A c \in Callers : WF_<<vars, pipeVars>>(Step(c)) /\ SF_<<vars, pipeVars>>(Acquire(c))

-----------------------------------------------------------------------------
(* The records have the shape of the table, and a plan asks for a positive *)
(* quantity.                                                               *)
PipeTypeOK ==
  /\ net \in [Symbols -> Int]
  /\ view \in [young : BOOLEAN, net : [Symbols -> Int]]
  /\ \A i \in DOMAIN orders : /\ orders[i].sym \in Symbols /\ orders[i].side \in Directions
                              /\ orders[i].qty \in Nat \ {0}
                              /\ orders[i].status \in Open \cup {"EXECUTED", "FAILED"}
                              /\ orders[i].filled \in BOOLEAN
  /\ lock \in Callers \cup {"free"}
  /\ \A c \in Callers : \A sym \in DOMAIN call[c].plan : call[c].plan[sym] > 0

(* Two webhooks that bring the same alert at the same time, or one sent    *)
(* again while the first's order is on its way, do not enter twice: an     *)
(* ENTRY is never sent on a symbol with an order of the strategy open.     *)
NoEntryOverOpenOrder ==
  [][\A i \in DOMAIN orders' \ DOMAIN orders :
       orders'[i].kind = "ENTRY" => OpenOn(orders'[i].sym) = {}]_<<vars, pipeVars>>

(* The executor forgets the legs of an ENTRY answered with a failure: such *)
(* an answer is given only when the alert has left no order behind.        *)
RefusedEntryLeftNoOrder ==
  \A c \in Callers :
     At(c, "answer") /\ Type(c) = "ENTRY" /\ call[c].answer \in {"FAILED", "blocked"}
        => call[c].sent = 0

(* Every alert is answered, whatever the broker does: the waits inside the *)
(* lock have deadlines, and every way out gives the lock back.             *)
AlertAnswered(c) == At(c, "lock") ~> At(c, "idle")
EveryAlertAnswered == \A c \in Callers : AlertAnswered(c)

(* What is said of an ENTRY that finds the symbol in the account ("Blocks  *)
(* ENTRY if: ... open broker position exists"): it is not sent.            *)
EnteredOnFlat ==
  [][\A i \in DOMAIN orders' \ DOMAIN orders :
       orders'[i].kind = "ENTRY" => net[orders'[i].sym] = 0]_<<vars, pipeVars>>

(* What the partial exits of the executor rely on ("Submit broker orders   *)
(* for the closed half"): an exit is not larger than the alert asked.      *)
ExitsWhatWasAsked ==
  \A i \in DOMAIN orders : orders[i].kind = "EXIT" => orders[i].qty <= orders[i].asked

(* What the adjustments of the executor rely on: while the broker can be   *)
(* seen, an ADJUSTMENT that closes one leg and opens another passes.       *)
ClosingAdjustmentsPass ==
  \A c \in Callers :
     At(c, "answer") /\ Type(c) = "ADJUSTMENT" /\ call[c].answer = "blocked" /\ call[c].sent = 0
        => \A sym \in Legs(c) : ~Against(c, net, sym)
=============================================================================
