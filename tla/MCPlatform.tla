------------------------------ MODULE MCPlatform ------------------------------
(* Instances of the services around the execution core.  They share no     *)
(* state: each behaviour is one of a single service, named by part, so     *)
(* that one run explores the sum of their states and not the product.      *)
EXTENDS ControlIntents

CONSTANTS
  Threads, TTL, MaxTime, None,                                          \* BrokerViewCache
  Clients, ConfRole, Misses, MaxAdmin, MaxStarts,                       \* ClientFleet
  Alerts, Followers, Role, Threshold, BaseBackoff, MaxBackoff, MaxWait, \* CopyTrading
  Slugs, Bodies, Requests, MaxRequests, NoName,                         \* ConfigStore
  Wanted, Supervisor, Workers, MaxAttempts, MaxLosses, MaxRecoveries,   \* MarketSocket
  Names, MaxChanges, MaxRegister, MaxAdjust, MaxFaults                  \* StrategyHistory

(* What the proofs need of them, service by service: whole numbers, marks  *)
(* for "nothing" that are no values.                                       *)
ASSUME SymbolsAssumption == IsFiniteSet(Symbols)
ASSUME ViewAssumption == TTL \in Nat /\ None \notin Nat
ASSUME FleetAssumption ==
  /\ Misses \in Nat
  /\ \A c \in Clients : ConfRole[c] \in {"master", "follower", "standalone"}

ASSUME ConfigAssumption == NoName \notin Slugs
ASSUME HistoryAssumption == IsFiniteSet(Names)

VARIABLES
  part,
  now, holder, started, cached, stamp, answered, changed,
  record, up, snapshot, todo, polled, misses, row, traded, admin, starts,
  time, result, post, breaker, taken, since,
  file, temp, run, legs, req, asked, crashes, saved,
  socket, handler, ws, mine, feed, atBroker, lock, worker, sub, restored, recovered, lost,
  positions, changes, registers, known, stated, at, cfgs, states, last, batch, samples, events, week, blemishes, faults,
  auto, status, event, pc, depth, newest, stopping, stops, of, failed

viewVars == <<now, holder, started, cached, stamp, answered, changed>>
fleetVars == <<record, up, snapshot, todo, polled, misses, row, traded, admin, starts>>
copyVars == <<time, result, post, breaker, taken, since>>
configVars == <<file, temp, run, legs, req, asked, crashes, saved>>
socketVars == <<socket, handler, ws, mine, feed, atBroker, lock, worker, sub, restored, recovered, lost>>
historyVars == <<positions, changes, registers, known, stated, at, cfgs, states, last, batch, samples, events, week, blemishes, faults>>
serviceVars == <<auto, status, event, pc, depth, newest, stopping, stops, of, failed>>
others == <<configVars, socketVars, historyVars, serviceVars>>
services == <<viewVars, fleetVars, copyVars>>

OneBasket == {<<"ENTRY", "unpriced", "EXIT">>}
SomeRules == {
  [kind |-> "PRICE", condition |-> "stoploss", threshold |-> 1, reduce |-> 0],
  [kind |-> "COMBINED", condition |-> "combined_pnl", threshold |-> 2, reduce |-> 1]}
Following == [c \in Clients \cup Followers |-> "follower"]
FewTokens == [index |-> {"nifty"}, chain |-> {"ce"}, supervisor |-> {"ce"}]
SomeQuotes == [ltp : {1, 2}, avg : {2}, delta : {0}, theta : {0}, vega : {0}, gamma : {0}, upnl : {1}]

View == INSTANCE BrokerViewCache
Fleet == INSTANCE ClientFleet
Copies == INSTANCE CopyTrading WITH MaxTime <- MaxWait
Config == INSTANCE ConfigStore WITH alive <- saved, Nobody <- NoName
Socket == INSTANCE MarketSocket WITH bound <- lost
History == INSTANCE StrategyHistory WITH legs <- positions, pc <- at
Service == INSTANCE IsolatedService WITH
  Threads <- {1, 2}, MaxDepth <- 3, MaxStops <- 3

MInit ==
  /\ part \in {"intents", "orphans", "view", "fleet", "copies", "config", "socket", "history", "service"}
  /\ Init /\ View!Init /\ Fleet!Init /\ Copies!Init
  /\ Config!ConfigInit /\ (part # "config" => saved = {})
  /\ \A s \in Slugs : Config!Saved(s) => file[s].mode = "LIVE"
  /\ Socket!Init /\ History!Init
  /\ Service!Init /\ (part # "service" => auto)
  /\ part # "orphans" => held = [s \in Symbols |-> 0]

MNext ==
  /\ part' = part
  /\ \/ /\ part = "intents" /\ Next /\ held' = held
        /\ \A i \in DOMAIN rows' : rows'[i].type # "ORPHAN_POSITION_RULE"
        /\ UNCHANGED <<services, others>>
     \/ /\ part = "orphans" /\ Next
        /\ \A i \in DOMAIN rows' : rows'[i].type \in {"ORPHAN_POSITION_RULE", "CANCEL_BROKER_ORDER"}
        /\ UNCHANGED <<services, others>>
     \/ /\ part = "view" /\ View!Next
        /\ UNCHANGED <<vars, fleetVars, copyVars, others>>
     \/ /\ part = "fleet" /\ Fleet!Next
        /\ UNCHANGED <<vars, viewVars, copyVars, others>>
     \/ /\ part = "copies" /\ Copies!Next
        /\ UNCHANGED <<vars, viewVars, fleetVars, others>>
     \/ /\ part = "config" /\ Config!ConfigNext
        /\ UNCHANGED <<vars, services, socketVars, historyVars, serviceVars>>
     \/ /\ part = "socket" /\ Socket!Next
        /\ UNCHANGED <<vars, services, configVars, historyVars, serviceVars>>
     \/ /\ part = "history" /\ History!Next
        /\ UNCHANGED <<vars, services, configVars, socketVars, serviceVars>>
     \/ /\ part = "service" /\ Service!Next
        /\ UNCHANGED <<vars, services, configVars, socketVars, historyVars>>

InIntents(A) == part \in {"intents", "orphans"} /\ A

MFairness ==
  /\ \A c \in Consumers : /\ WF_vars(InIntents(Claim(c)))
                          /\ WF_vars(InIntents(Execute(c)))
                          /\ WF_vars(InIntents(Settle(c)))
  /\ WF_vars(InIntents(Restart))
  /\ WF_serviceVars(part = "service" /\ Service!StopEnds)
  /\ \A t \in {1, 2} :
       /\ WF_serviceVars(part = "service" /\ (Service!Enter(t) \/ Service!Recovers(t) \/ Service!Cancels(t) \/ Service!Restarts(t) \/ Service!Finally(t)))
       /\ WF_serviceVars(part = "service" /\ event /\ Service!Returns(t))

MSpec == MInit /\ [][MNext]_<<part, vars, services, others>> /\ MFairness

(* The properties of the instances, under names a configuration can use.   *)
HitsSeeTheOrder == View!HitsSeeTheOrder
BlockedForMisses == Fleet!BlockedForMisses
CopiedOnce == Copies!CopiedOnce
NothingSavedIsLost == Config!NothingSavedIsLost
RestoredFeedDelivers == Socket!RestoredFeedDelivers
TableIsMemory == History!TableIsMemory
StopIsHeard == Service!StopHeard(2)
=============================================================================
