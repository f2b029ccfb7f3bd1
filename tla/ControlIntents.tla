---------------------------- MODULE ControlIntents ----------------------------
(* The table control_intents between the dashboard and the bot: requests   *)
(* are inserted as PENDING rows, two consumer threads claim, execute and   *)
(* settle them, and the orphan position manager reads its rules from the   *)
(* same table when the process starts.                                     *)
(*                                                                         *)
(* A claim is one transaction; what is executed for a row and the write of *)
(* its final status are steps of their own, so that the other consumer,    *)
(* the dashboard, a failing write and the end of the process come between. *)
(*                                                                         *)
(* Simplifications: the legs of a request stand for its payload, and what  *)
(* the called code does with a leg is its answer only.                     *)
EXTENDS Integers, Sequences, FiniteSets, FiniteSetsExt, SequencesExt

CONSTANTS
  Asked,       \* orders a request may carry: "ENTRY", "EXIT", "ADJUST", "unpriced"
  Baskets,     \* lists of such orders
  OrderIds,    \* orders the dashboard shows, which it may cancel or change
  Symbols,     \* symbols held outside of every strategy
  RuleChoice,  \* rules for them: [kind, condition, threshold, reduce]
  Quotes,      \* what a position may look like: [ltp, avg, delta, theta, vega, gamma, upnl]
  MaxRows,     \* bound on the rows
  MaxCrashes,  \* bound on the ends of the process
  MaxBusy,     \* bound on the failing writes of a status
  MaxTrades    \* bound on the trades made by hand

Types == {"STRATEGY", "STRATEGY_RECOVER_RESUME", "GENERIC", "BASKET", "ADVANCED",
          "ORPHAN_POSITION_RULE", "CANCEL_SYSTEM_ORDER", "MODIFY_SYSTEM_ORDER",
          "CANCEL_ALL_SYSTEM_ORDERS", "CANCEL_BROKER_ORDER", "MODIFY_BROKER_ORDER",
          "CANCEL_ALL_BROKER_ORDERS"}
Legs == Asked \cup {"FORCE_EXIT", "change"} \cup Symbols

ASSUME IntentsAssumption ==
  /\ Asked \subseteq {"ENTRY", "EXIT", "ADJUST", "unpriced"} /\ Baskets \subseteq Seq(Asked)
  /\ OrderIds \subseteq STRING
  /\ \A r \in RuleChoice : r.threshold \in Int /\ r.reduce \in Nat
  /\ MaxRows \in Nat /\ MaxCrashes \in Nat /\ MaxBusy \in Nat /\ MaxTrades \in Nat

Consumers == {"generic", "strategy"}

VARIABLES
  rows,     \* the table, in the order of created_at: [type, legs, key, rule, status]
  alive,    \* the process runs
  work,     \* per consumer the row it has claimed (0: none) and how far it is
  loaded,   \* load_active_rules has run in this process
  rules,    \* active_rules: rows of the rules in memory
  held,     \* net quantity of each symbol at the broker
  exits,    \* the orders the orphan manager has registered: [rule, symbol, qty]
  done,     \* history: what was executed: [row, leg, by, answer]
  bound     \* counters for the bounds

vars == <<rows, alive, work, loaded, rules, held, exits, done, bound>>

Idle == [row |-> 0, left |-> <<>>, answers |-> <<>>, outcome |-> "none"]

Init ==
  /\ rows = <<>> /\ alive = TRUE
  /\ work = [c \in Consumers |-> Idle]
  /\ loaded = FALSE /\ rules = {}
  /\ held \in [Symbols -> {-1, 0, 1}]
  /\ exits = <<>> /\ done = <<>>
  /\ bound = [crashes |-> 0, busy |-> 0, trades |-> 0]

-----------------------------------------------------------------------------
(* The dashboard.  An id made of the order it is about is taken for ever:  *)
(* a second request on that order fails on the primary key.  Every other   *)
(* id is a fresh one.                                                      *)
NoRule == [kind |-> "none", condition |-> "none", threshold |-> 0, reduce |-> 0]

InsertRule(type, legs, key, rule) ==
  /\ Len(rows) < MaxRows
  /\ key = "" \/ \A i \in DOMAIN rows : rows[i].type = type => rows[i].key # key
  /\ rows' = Append(rows, [type |-> type, legs |-> legs, key |-> key, rule |-> rule,
                           status |-> "PENDING"])
  /\ UNCHANGED <<alive, work, loaded, rules, held, exits, done, bound>>

InsertIntent(type, legs, key) == InsertRule(type, legs, key, NoRule)

SubmitGeneric == \E leg \in Asked : InsertIntent("GENERIC", <<leg>>, "")
SubmitStrategy == \E action \in Asked \ {"unpriced"} : InsertIntent("STRATEGY", <<action>>, "")
ForceExit == InsertIntent("STRATEGY", <<"FORCE_EXIT">>, "")
SubmitBasket == \E legs \in Baskets : InsertIntent("BASKET", legs, "")
SubmitAdvanced == \E legs \in Baskets : InsertIntent("ADVANCED", legs, "")
RecoverResume == \E sym \in Symbols : InsertIntent("STRATEGY_RECOVER_RESUME", <<sym>>, "")
CreateRule ==
  \E rule \in RuleChoice : \E syms \in (SUBSET Symbols) \ {{}} :
    InsertRule("ORPHAN_POSITION_RULE", SetToSeq(syms), "", rule)
CancelSystemOrder == \E o \in OrderIds : InsertIntent("CANCEL_SYSTEM_ORDER", <<"change">>, o)
ModifySystemOrder == \E o \in OrderIds : InsertIntent("MODIFY_SYSTEM_ORDER", <<"change">>, o)
CancelAllSystem == InsertIntent("CANCEL_ALL_SYSTEM_ORDERS", <<"change">>, "")
CancelBrokerOrder == \E o \in OrderIds : InsertIntent("CANCEL_BROKER_ORDER", <<"change">>, o)
ModifyBrokerOrder == \E o \in OrderIds : InsertIntent("MODIFY_BROKER_ORDER", <<"change">>, o)
CancelAllBroker == InsertIntent("CANCEL_ALL_BROKER_ORDERS", <<"change">>, "")

(* delete_orphan_rule: the row only; what is in memory stays. *)
DeleteRule(i) ==
  /\ rows[i].type = "ORPHAN_POSITION_RULE" /\ rows[i].status # "DELETED"
  /\ rows' = [rows EXCEPT ![i].status = "DELETED"]
  /\ UNCHANGED <<alive, work, loaded, rules, held, exits, done, bound>>

-----------------------------------------------------------------------------
(* Mutation: a row another process left behind is claimed again. *)
ClaimableAgain(c) ==
  {i \in DOMAIN rows : /\ rows[i].status \in {"PENDING", "PROCESSING"}
                       /\ c = "strategy" => rows[i].type = "STRATEGY"}

(* Mutation: the generic consumer leaves alone what it cannot execute. *)
ClaimableOwn(c) ==
  {i \in DOMAIN rows : /\ rows[i].status = "PENDING"
                       /\ (c = "strategy") <=> (rows[i].type = "STRATEGY")
                       /\ rows[i].type # "ORPHAN_POSITION_RULE"}

(* What each consumer's query finds: only the strategy consumer's has a    *)
(* condition on the type.                                                  *)
Claimable(c) ==
  {i \in DOMAIN rows : /\ rows[i].status = "PENDING"
                       /\ c = "strategy" => rows[i].type = "STRATEGY"}

(* ORDER BY created_at LIMIT 1 *)
FirstOf(ids) == CHOOSE i \in ids : \A j \in ids : i <= j

(* What is executed for a row, in order; of a basket the exits come first. *)
(* Of the rows whose payload has no symbol nothing is, nor of an           *)
(* unsupported change at the broker.                                       *)
Plan(r) ==
  CASE r.type = "BASKET" -> SelectSeq(r.legs, LAMBDA l : l = "EXIT")
                              \o SelectSeq(r.legs, LAMBDA l : l # "EXIT")
    [] r.type \in {"STRATEGY", "GENERIC", "CANCEL_SYSTEM_ORDER", "MODIFY_SYSTEM_ORDER",
                   "CANCEL_ALL_SYSTEM_ORDERS", "CANCEL_BROKER_ORDER"} -> r.legs
    [] OTHER -> <<>>

(* How a row ends that is settled without executing anything. *)
Unexecuted(c, r) ==
  CASE c = "generic" /\ r.type = "STRATEGY" -> "IGNORED"
    [] r.type = "MODIFY_BROKER_ORDER" -> "REJECTED"
    [] OTHER -> "FAILED"

Claim(c) ==
  /\ alive /\ work[c].row = 0 /\ Claimable(c) # {}
  /\ LET i == FirstOf(Claimable(c))
         left == IF c = "generic" /\ rows[i].type = "STRATEGY" THEN <<>> ELSE Plan(rows[i])
     IN /\ rows' = [rows EXCEPT ![i].status = "PROCESSING"]
        /\ work' = [work EXCEPT ![c] =
             [row |-> i, left |-> left, answers |-> <<>>,
              outcome |-> IF left = <<>> THEN Unexecuted(c, rows[i]) ELSE "none"]]
  /\ UNCHANGED <<alive, loaded, rules, held, exits, done, bound>>

(* What a leg can be answered: an order without its price raises before    *)
(* anything is sent, the updates of the order table always succeed, an     *)
(* alert is accepted, blocked or fails, and an exit of positions, a start  *)
(* or an exit of a strategy works or raises.  An adjustment does nothing.  *)
Answers(r, leg) ==
  CASE leg = "unpriced" -> {"FAILED"}
    [] r.type \in {"CANCEL_SYSTEM_ORDER", "MODIFY_SYSTEM_ORDER",
                   "CANCEL_ALL_SYSTEM_ORDERS"} \/ leg = "ADJUST" -> {"ACCEPTED"}
    [] r.type \in {"GENERIC", "BASKET"} -> {"ACCEPTED", "REJECTED", "FAILED"}
    [] OTHER -> {"ACCEPTED", "FAILED"}

(* The final status of what was executed. *)
Outcome(r, answers) ==
  LET got == {answers[i] : i \in DOMAIN answers}
  IN IF r.type # "BASKET" THEN answers[1]
     ELSE IF "ACCEPTED" \notin got THEN "FAILED"
     ELSE IF got = {"ACCEPTED"} THEN "ACCEPTED" ELSE "PARTIALLY_ACCEPTED"

Execute(c) ==
  /\ alive /\ work[c].left # <<>>
  /\ LET w == work[c]
         r == rows[w.row]
     IN \E answer \in Answers(r, Head(w.left)) :
          LET answers == Append(w.answers, answer)
              more == Tail(w.left)
          IN /\ done' = Append(done, [row |-> w.row, leg |-> Head(w.left), by |-> c,
                                      nth |-> Len(answers), answer |-> answer])
             /\ work' = [work EXCEPT ![c] =
                  [w EXCEPT !.left = more, !.answers = answers,
                            !.outcome = IF more = <<>> THEN Outcome(r, answers) ELSE "none"]]
  /\ UNCHANGED <<rows, alive, loaded, rules, held, exits, bound>>

(* _update_status: without a condition on the status it finds. *)
Settle(c) ==
  /\ alive /\ work[c].outcome # "none"
  /\ rows' = [rows EXCEPT ![work[c].row].status = work[c].outcome]
  /\ work' = [work EXCEPT ![c] = Idle]
  /\ UNCHANGED <<alive, loaded, rules, held, exits, done, bound>>

(* The database is busy.  A first failing write is followed by one of      *)
(* FAILED; when that fails too the loop goes on with the next row.         *)
Busy(c) ==
  /\ alive /\ work[c].outcome # "none" /\ bound.busy < MaxBusy
  /\ bound' = [bound EXCEPT !.busy = @ + 1]
  /\ \/ work' = [work EXCEPT ![c].outcome = "FAILED"]
     \/ work' = [work EXCEPT ![c] = Idle]
  /\ UNCHANGED <<rows, alive, loaded, rules, held, exits, done>>

-----------------------------------------------------------------------------
(* The orphan manager.  Its rules are read once, after the consumers have  *)
(* been started.                                                           *)
LoadRules ==
  /\ alive /\ ~loaded /\ loaded' = TRUE
  /\ rules' = {i \in DOMAIN rows : /\ rows[i].type = "ORPHAN_POSITION_RULE"
                                   /\ rows[i].status \notin {"DELETED", "FAILED"}}
  /\ UNCHANGED <<rows, alive, work, held, exits, done, bound>>

(* Every order in the table has a user, the manager's own ones too. *)
Owned == {exits[k].symbol : k \in DOMAIN exits}

(* validate_order refuses a quantity that is not positive. *)
Registers(qty) == qty > 0

(* The quantity an order of the rule asks for: of a short position it is   *)
(* the negative one.                                                       *)
ExitQty(rule, sym) == IF rule.reduce = 0 THEN held[sym] ELSE rule.reduce

(* The conditions.  One position that meets it is enough for a rule on     *)
(* prices or greeks; a combined one asks for the sum over its positions.   *)
Size(n) == IF n < 0 THEN 0 - n ELSE n

PriceRule(rule, p) ==
  CASE rule.condition = "target"   -> p.ltp >= rule.threshold
    [] rule.condition = "stoploss" -> p.ltp <= rule.threshold
    [] rule.condition = "trailing" -> p.ltp <= p.avg - rule.threshold

GreekRule(rule, p) ==
  CASE rule.condition = "delta_target" -> Size(p.delta) >= rule.threshold
    [] rule.condition = "theta_target" -> Size(p.theta) <= rule.threshold
    [] rule.condition = "vega_target"  -> Size(p.vega) >= rule.threshold
    [] rule.condition = "gamma_target" -> p.gamma >= rule.threshold

CombinedRule(rule, quote, syms) ==
  CASE rule.condition = "combined_delta" ->
         Size(MapThenSumSet(LAMBDA sym : quote[sym].delta, syms)) >= rule.threshold
    [] rule.condition = "combined_pnl" ->
         MapThenSumSet(LAMBDA sym : quote[sym].upnl, syms) >= rule.threshold

Holds(rule, quote, syms) ==
  CASE rule.kind = "PRICE" -> \E sym \in syms : PriceRule(rule, quote[sym])
    [] rule.kind = "GREEK" -> \E sym \in syms : GreekRule(rule, quote[sym])
    [] rule.kind = "COMBINED" -> CombinedRule(rule, quote, syms)

(* The positions a rule is about: those of its symbols nobody else owns. *)
Relevant(i) == {sym \in ToSet(rows[i].legs) \ Owned : held[sym] # 0}

(* One pass over the rules: positions and orders are read before it.       *)
Monitor ==
  /\ alive /\ loaded
  /\ \E quote \in [Symbols -> Quotes] :
       LET met == {i \in rules : Relevant(i) # {} /\ Holds(rows[i].rule, quote, Relevant(i))}
           fired == {e \in [rule : met, symbol : Symbols] :
                       e.symbol \in Relevant(e.rule) /\ Registers(ExitQty(rows[e.rule].rule, e.symbol))}
       IN /\ fired # {}
          /\ exits' = exits \o SetToSeq({[rule |-> e.rule, symbol |-> e.symbol,
                          qty |-> ExitQty(rows[e.rule].rule, e.symbol)] : e \in fired})
  /\ UNCHANGED <<rows, alive, work, loaded, rules, held, done, bound>>

(* The watcher sends a registered exit and the broker fills it. *)
ExitFills(k) ==
  /\ held[exits[k].symbol] # 0
  /\ held' = [held EXCEPT ![exits[k].symbol] = 0]
  /\ UNCHANGED <<rows, alive, work, loaded, rules, exits, done, bound>>

ManualTrade(s) ==
  /\ bound.trades < MaxTrades
  /\ \E q \in {-1, 1} : held' = [held EXCEPT ![s] = q]
  /\ bound' = [bound EXCEPT !.trades = @ + 1]
  /\ UNCHANGED <<rows, alive, work, loaded, rules, exits, done>>

-----------------------------------------------------------------------------
Crash ==
  /\ alive /\ bound.crashes < MaxCrashes
  /\ alive' = FALSE /\ loaded' = FALSE /\ rules' = {}
  /\ work' = [c \in Consumers |-> Idle]
  /\ bound' = [bound EXCEPT !.crashes = @ + 1]
  /\ UNCHANGED <<rows, held, exits, done>>

Restart ==
  /\ ~alive /\ alive' = TRUE
  /\ UNCHANGED <<rows, work, loaded, rules, held, exits, done, bound>>

Next ==
  \/ SubmitGeneric \/ SubmitStrategy \/ ForceExit \/ SubmitBasket \/ SubmitAdvanced
  \/ RecoverResume \/ CreateRule
  \/ CancelSystemOrder \/ ModifySystemOrder \/ CancelAllSystem
  \/ CancelBrokerOrder \/ ModifyBrokerOrder \/ CancelAllBroker
  \/ \E i \in DOMAIN rows : DeleteRule(i)
  \/ \E c \in Consumers : Claim(c) \/ Execute(c) \/ Settle(c) \/ Busy(c)
  \/ LoadRules \/ Monitor
  \/ \E k \in DOMAIN exits : ExitFills(k)
  \/ \E s \in Symbols : ManualTrade(s)
  \/ Crash \/ Restart

Spec == Init /\ [][Next]_vars

(* The consumer threads run as long as the process does, and a supervisor  *)
(* of the operating system starts it again.                                *)
Fairness ==
  /\ \A c \in Consumers : WF_vars(Claim(c)) /\ WF_vars(Execute(c)) /\ WF_vars(Settle(c))
  /\ WF_vars(LoadRules) /\ WF_vars(Restart)

FairSpec == Spec /\ Fairness

-----------------------------------------------------------------------------
Statuses == {"PENDING", "PROCESSING", "ACCEPTED", "PARTIALLY_ACCEPTED", "REJECTED",
             "FAILED", "IGNORED", "DELETED"}

(* The kinds of values the variables take, and a consumer's row in hand is *)
(* one of the table.                                                       *)
TypeOK ==
  /\ rows \in Seq([type : Types, legs : Seq(Legs), key : OrderIds \cup {""},
                 rule : RuleChoice \cup {NoRule}, status : Statuses])
  /\ alive \in BOOLEAN /\ loaded \in BOOLEAN
  /\ \A c \in Consumers :
       /\ work[c].row \in 0 .. Len(rows)
       /\ work[c].outcome \in Statuses \cup {"none"}
       /\ work[c].row = 0 <=> work[c] = Idle
  /\ rules \subseteq DOMAIN rows
  /\ held \in [Symbols -> Int]
  /\ exits \in Seq([rule : DOMAIN rows, symbol : Symbols, qty : Nat \ {0}])
  /\ \A k \in DOMAIN done : done[k].row \in DOMAIN rows /\ done[k].by \in Consumers
  /\ bound.crashes \in 0 .. MaxCrashes /\ bound.busy \in 0 .. MaxBusy
  /\ bound.trades \in 0 .. MaxTrades

(* No leg of a request is executed twice: not by the two consumers whose   *)
(* queries overlap, and not after a restart ("recovery-safe, idempotent"). *)
NothingTwice ==
  \A j, k \in DOMAIN done :
    j # k => <<done[j].row, done[j].nth>> # <<done[k].row, done[k].nth>>

(* Of a basket no exit is sent after an entry, whatever comes between.     *)
ExitsBeforeEntries ==
  \A j, k \in DOMAIN done :
    /\ j < k /\ done[j].row = done[k].row /\ rows[done[j].row].type = "BASKET"
    /\ done[k].leg = "EXIT"
    => done[j].leg = "EXIT"

(* Each consumer executes requests in the order they were made: an EXIT of *)
(* a strategy never overtakes the ENTRY it takes back.                     *)
InOrderOfCreation ==
  \A j, k \in DOMAIN done :
    j < k /\ done[j].by = done[k].by => done[j].row <= done[k].row

AnswersFor(i) == {done[k].answer : k \in {j \in DOMAIN done : done[j].row = i}}

(* A status tells the user the truth: ACCEPTED means that every leg was    *)
(* taken, PARTIALLY_ACCEPTED some and not all, IGNORED and REJECTED none;  *)
(* a status that could not be written never claims more than was done.     *)
StatusIsTrue ==
  \A i \in DOMAIN rows :
    /\ rows[i].status = "ACCEPTED" =>
         AnswersFor(i) = {"ACCEPTED"}
         /\ Cardinality({k \in DOMAIN done : done[k].row = i}) = Len(rows[i].legs)
    /\ rows[i].status = "PARTIALLY_ACCEPTED" =>
         "ACCEPTED" \in AnswersFor(i) /\ AnswersFor(i) # {"ACCEPTED"}
    /\ rows[i].status \in {"IGNORED", "REJECTED"} => "ACCEPTED" \notin AnswersFor(i)

(* A rule exits a symbol at most once, however often its condition holds   *)
(* and over restarts: the order it has registered makes the symbol one of  *)
(* a strategy's.                                                           *)
RuleFiresOnce ==
  \A j, k \in DOMAIN exits :
    j # k => <<exits[j].rule, exits[j].symbol>> # <<exits[k].rule, exits[k].symbol>>

(* No request is left waiting: one of the consumers takes every row, of    *)
(* whatever type.                                                          *)
EveryRowTaken ==
  \A i \in 1 .. MaxRows :
    (i \in DOMAIN rows /\ rows[i].status = "PENDING")
      ~> (i \in DOMAIN rows /\ rows[i].status # "PENDING")

(* What start_control_intent_consumers says: a STRATEGY intent is the      *)
(* strategy consumer's.                                                    *)
StrategyRowsReachTheirConsumer ==
  \A i \in DOMAIN rows : rows[i].type = "STRATEGY" => rows[i].status # "IGNORED"
=============================================================================
