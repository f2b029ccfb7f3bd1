------------------------------- MODULE MCMarket -------------------------------
(* Instances of what stands between the bot and the broker's market: the   *)
(* session, the limits, the option chains and their prices, the choice of  *)
(* strikes and of expiries, the measurements of a chain.  They share no    *)
(* state: each behaviour is one of a single module, named by part.         *)
EXTENDS Integers, FiniteSets, FiniteSetsExt

CONSTANTS
  BotThreads,
  MaxRetries, MaxLogins, MaxCalls, MaxExpiries,               \* BrokerSession
  MaxFails, TTL, Rest, MaxNow, MaxAsks,                          \* BrokerLimits
  Keys, Users, MaxAttempts, MaxBundles, MaxStarts, MaxFaults, \* OptionChains
  Strikes, Chains, Selections, Unknown, MaxWrites,            \* StrikeSelection
  MaxSnapshots, MaxRows, MaxFailures                          \* ChainMetrics

(* What the proofs need of them.  ORDER_MAX_RETRY_ATTEMPTS is at least     *)
(* one; there are threads; the supervisor is no thread of a user; a delta  *)
(* is a number or not there, and a wanted delta is a number.               *)
ASSUME SessionAssumption == MaxRetries \in Nat \ {0}
ASSUME LimitsAssumption == MaxFails \in Nat /\ IsFiniteSet(BotThreads) /\ BotThreads # {}
ASSUME SupervisedAssumption == MaxBundles \in Nat /\ "supervisor" \notin Users
ASSUME StrikesAssumption ==
  /\ \A c \in Chains : \A s \in Strikes : \A t \in {"CE", "PE"} :
       c.rows[s][t].delta \in Int \/ c.rows[s][t].delta = Unknown
  /\ \A w \in Selections : w.by = "delta" => w.value \in Int

VARIABLES
  part,
  loggedIn, fresh, young, loggingIn, recovering, valid, held, pc, call, bound,
  clock, fails, rest, limits, asking, asks, logins, resting, tries,
  chains, failed, due, bundle, stored, starter, loop, written, displaced, faults,
  market, feeding, ticked, prices, active, greeks, refresher, moves,
  chain, writes, selection, leg, step,
  day, files, running, created, mode, registering, loaded, cycle, alone, holds, rpc, path, same, timed, got,
  file, snapshot, age, mpc, meta, rows, stale, base, against, measured, ticks, failures, restarts

sessionVars == <<loggedIn, fresh, young, loggingIn, recovering, valid, held, pc, call, bound>>
limitVars == <<clock, fails, rest, limits, asking, asks, logins, resting, tries>>
chainVars == <<chains, failed, due, bundle, stored, starter, loop, written, displaced, faults>>
priceVars == <<market, feeding, ticked, prices, active, greeks, refresher, moves>>
strikeVars == <<chain, writes, selection, leg, step>>
expiryVars == <<day, files, running, created, mode, registering, loaded, cycle, alone, holds, rpc, path, same, timed, got>>
metricVars == <<file, snapshot, age, mpc, meta, rows, stale, base, against, measured, ticks, failures, restarts>>

(* Chains whose deltas differ, where a snapshot may be replaced by any     *)
(* other, and chains of every open interest, read by what asks for it.     *)
Flat(d) == [ltp |-> 1, delta |-> d, oi |-> 1]
Deltas == {[atm |-> 2, rows |-> <<
    [CE |-> Flat(up), PE |-> Flat(-6)],
    [CE |-> Flat(mid), PE |-> [Flat(-9) EXCEPT !.ltp = quiet]],
    [CE |-> Flat(7), PE |-> Flat(-down)]>>] :
  up \in {14, Unknown}, mid \in {8, 11}, quiet \in {0, 2}, down \in {10, 13}}
Interest == {[atm |-> 2, rows |-> [s \in 1..3 |->
    [t \in {"CE", "PE"} |-> [Flat(10) EXCEPT !.oi = IF t = "CE" THEN ce[s] ELSE pe[s]]]]] :
  ce \in [1..3 -> 0..2], pe \in [1..3 -> 0..2]}
OfDelta == [by : {"delta", "straddle_delta"}, value : {6, 10}] \cup
  {[by |-> "offset", value |-> 1], [by |-> "exact", value |-> 3], [by |-> "premium", value |-> 2], [by |-> "moneyness", value |-> 0]}
OfInterest == [by : {"max_pain", "pcr_inflection", "oi"}, value : {1}]

(* Each chain is asked for what it was made for. *)
SomeChains == Deltas \cup Interest
SomeSelections == OfDelta \cup OfInterest

Session == INSTANCE BrokerSession WITH Threads <- BotThreads
Limits == INSTANCE BrokerLimits WITH Callers <- BotThreads, call <- asking
Supervised == INSTANCE OptionChains WITH
  MaxAsks <- MaxStarts, file <- stored, thread <- starter, bound <- faults
Prices == INSTANCE ChainPrices WITH
  OnFutures <- FALSE, MaxPrice <- 3, MaxMoves <- 2, MaxLosses <- 1, store <- ticked, chain <- prices, bound <- moves
Choice == INSTANCE StrikeSelection
Expiries == INSTANCE ExpirySelection WITH
  Expiries <- {1, 2, 3}, Modes <- {"weekly_current", "weekly_auto", "weekly_next"}, LastDay <- 2, MaxFiles <- 1,
  active <- running, pc <- registering, leg <- holds
Metrics == INSTANCE ChainMetrics WITH pc <- mpc

(* The state a part that is not the one explored stays in is a single one. *)
MInit ==
  /\ part \in {"session", "limits", "chains", "prices", "strikes", "expiry", "metrics"}
  /\ Session!Init /\ (part # "session" => held)
  /\ Limits!LimitsInit /\ Supervised!Init
  /\ Prices!Init /\ (part # "prices" => prices["spot"] = 2)
  /\ chain \in (IF part = "strikes" THEN Deltas \cup Interest ELSE {CHOOSE c \in Deltas : TRUE})
  /\ selection \in (IF chain \in Interest THEN OfInterest ELSE IF part = "strikes" THEN OfDelta ELSE {CHOOSE w \in OfDelta : TRUE})
  /\ Choice!StrikeInit
  /\ files \in (IF part = "expiry" THEN SUBSET {1, 2, 3} ELSE {{}})
  /\ Expiries!Init /\ (part # "expiry" => mode = "weekly_current")
  /\ Metrics!Init

MNext ==
  /\ part' = part
  /\ \/ /\ part = "session" /\ Session!Next
        /\ UNCHANGED <<limitVars, chainVars, priceVars, strikeVars, expiryVars, metricVars>>
     \/ /\ part = "limits" /\ Limits!LimitsNext
        /\ UNCHANGED <<sessionVars, chainVars, priceVars, strikeVars, expiryVars, metricVars>>
     \/ /\ part = "chains" /\ Supervised!Next
        /\ UNCHANGED <<sessionVars, limitVars, priceVars, strikeVars, expiryVars, metricVars>>
     \/ /\ part = "prices" /\ Prices!Next
        /\ UNCHANGED <<sessionVars, limitVars, chainVars, strikeVars, expiryVars, metricVars>>
     \/ /\ part = "strikes" /\ Choice!StrikeNext
        /\ (chain \in Deltas) = (chain' \in Deltas) /\ (chain \in Interest => chain' = chain)
        /\ UNCHANGED <<sessionVars, limitVars, chainVars, priceVars, expiryVars, metricVars>>
     \/ /\ part = "expiry" /\ Expiries!Next
        /\ UNCHANGED <<sessionVars, limitVars, chainVars, priceVars, strikeVars, metricVars>>
     \/ /\ part = "metrics" /\ Metrics!Next
        /\ UNCHANGED <<sessionVars, limitVars, chainVars, priceVars, strikeVars, expiryVars>>

(* The fairness of each module, in its part. *)
In(p, A) == part = p /\ A
MFairness ==
  /\ WF_priceVars(In("prices", Prices!Refresher))
  /\ \A t \in {"spot", "future"} : WF_priceVars(In("prices", Prices!Tick(t)))
  /\ WF_expiryVars(In("expiry", Expiries!Ask \/ Expiries!Open \/ Expiries!Stat))
  /\ \A e \in {1, 2, 3} : WF_expiryVars(In("expiry", Expiries!Writes(e)))

MSpec == MInit /\ [][MNext]_<<part, sessionVars, limitVars, chainVars, priceVars, strikeVars, expiryVars, metricVars>> /\ MFairness

(* The properties of the instances, under names a configuration can use.   *)
AnsweredOrdersStay == Session!AnsweredOrdersStay
LoginsAreFew == Limits!LoginsAreFew
NoStoreLeaked == Supervised!NoStoreLeaked
GreeksComeBack == part = "prices" => Prices!GreeksComeBack
DeltaIsNearest == Choice!DeltaIsNearest
ReaderFindsTheFile == Expiries!ReaderFindsTheFile
NothingCountedTwice == Metrics!NothingCountedTwice
=============================================================================
