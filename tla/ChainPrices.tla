------------------------------- MODULE ChainPrices -------------------------------
(* The prices of the underlying of one option chain: from the ticks of the *)
(* feed into the tick store, into OptionChainData, and into the greeks of  *)
(* its options, which hold for one price of the underlying.                *)
(*                                                                         *)
(* The feed writes the store, which forgets what is old; the refresher     *)
(* pulls from it and computes the greeks without a lock; Fyers fills what  *)
(* is missing.                                                             *)
(*                                                                         *)
(* Simplifications: a price is a number of steps, and one step is less and *)
(* two are more than the 0.75 % at which greeks are dropped; the greeks of *)
(* all rows are the price they were computed with.                         *)
EXTENDS Integers

CONSTANTS
  OnFutures,  \* the chain is on MCX: its options are on the future
  MaxPrice,   \* prices are 1..MaxPrice
  MaxMoves,   \* bound on the moves of the market
  MaxLosses   \* bound on what the store forgets and on greeks that fail

Tokens == {"spot", "future"}
None == 0
Prices == 1..MaxPrice
Far(a, b) == a - b > 1 \/ b - a > 1

VARIABLES
  market,     \* the price of each instrument
  feeding,    \* ticks arrive
  store,      \* tick_data_store
  chain,      \* _spot_ltp and _fut_ltp, or None
  active,     \* the chain has its rows: it was not cleaned up
  greeks,     \* the underlying they were computed with, or None
  refresher,  \* where it is, what it has fetched, and the underlying it reads
  bound

vars == <<market, feeding, store, chain, active, greeks, refresher, bound>>

Nothing == [t \in Tokens |-> None]

Init ==
  /\ market \in [Tokens -> {2}] /\ feeding = TRUE /\ store = Nothing
  /\ \E spot \in {None, 2} : chain = [Nothing EXCEPT !["spot"] = spot, !["future"] = 2]
  /\ active = TRUE /\ greeks = None
  /\ refresher = [at |-> "rest", ticks |-> Nothing, used |-> None]
  /\ bound = [moves |-> 0, losses |-> 0]

-----------------------------------------------------------------------------
Moves(t) ==
  /\ bound.moves < MaxMoves /\ bound' = [bound EXCEPT !.moves = @ + 1]
  /\ \E p \in Prices : p # market[t] /\ market' = [market EXCEPT ![t] = p]
  /\ UNCHANGED <<feeding, store, chain, active, greeks, refresher>>

(* event_handler_feed_update.  A chain on futures has no token of its spot. *)
Tick(t) ==
  /\ feeding /\ (t = "spot" => ~OnFutures) /\ store[t] # market[t]
  /\ store' = [store EXCEPT ![t] = market[t]]
  /\ UNCHANGED <<market, feeding, chain, active, greeks, refresher, bound>>

(* The connection, or the ticks of it, are gone for good. *)
FeedDies ==
  /\ feeding /\ feeding' = FALSE
  /\ UNCHANGED <<market, store, chain, active, greeks, refresher, bound>>

(* A tick of five minutes ago leaves the store. *)
Evicted(t) ==
  /\ store[t] # None /\ bound.losses < MaxLosses
  /\ bound' = [bound EXCEPT !.losses = @ + 1] /\ store' = [store EXCEPT ![t] = None]
  /\ UNCHANGED <<market, feeding, chain, active, greeks, refresher>>

(* FyersChainService fills what is missing, and only that. *)
Filled(have, price) == IF have = None THEN price ELSE have

Enrich ==
  /\ active
  /\ chain' = [chain EXCEPT !["spot"] = Filled(@, market["spot"])]
  /\ chain' # chain
  /\ UNCHANGED <<market, feeding, store, active, greeks, refresher, bound>>

-----------------------------------------------------------------------------
(* The refresher: pull_ticks_efficient, then refresh_greeks if there were  *)
(* ticks.                                                                  *)
At(where) == refresher' = [refresher EXCEPT !.at = where]

(* The batch is read from the store outside the lock of the chain. *)
PullFetches ==
  /\ refresher.at = "rest" /\ active
  /\ refresher' = [refresher EXCEPT !.at = IF store = Nothing THEN "rest" ELSE "fetched",
                                    !.ticks = store]
  /\ UNCHANGED <<market, feeding, store, chain, active, greeks, bound>>

PullApplies ==
  /\ refresher.at = "fetched" /\ At("pulled")
  /\ chain' = [t \in Tokens |->
       IF refresher.ticks[t] = None THEN chain[t] ELSE refresher.ticks[t]]
  /\ UNCHANGED <<market, feeding, store, active, greeks, bound>>

Or(a, b) == IF a # None THEN a ELSE b

(* Options on futures follow the future. *)
Underlying ==
  IF OnFutures THEN Or(chain["future"], chain["spot"]) ELSE Or(chain["spot"], chain["future"])

(* The underlying has moved away from what the greeks were computed with. *)
Moved(spot) == Far(greeks, spot)

(* The underlying is read under the lock; greeks of another price go. *)
GreeksRead ==
  /\ refresher.at = "pulled"
  /\ LET gone == greeks # None /\ Underlying # None /\ Moved(Underlying)
     IN /\ greeks' = IF gone THEN None ELSE greeks
        /\ refresher' = [refresher EXCEPT
             !.at = IF gone \/ Underlying = None \/ ~active THEN "rest" ELSE "computing",
             !.used = Underlying]
  /\ UNCHANGED <<market, feeding, store, chain, active, bound>>

(* Too few prices, or too few of them with an implied volatility. *)
GreeksFail ==
  /\ refresher.at = "computing" /\ bound.losses < MaxLosses /\ At("rest")
  /\ bound' = [bound EXCEPT !.losses = @ + 1]
  /\ UNCHANGED <<market, feeding, store, chain, active, greeks>>

(* Mutation: the future is what is compared. *)
StillThereFuture(used) == chain["future"] = None \/ ~Far(chain["future"], used)

(* Whether the price has not moved during the calculation.  It is the spot *)
(* that is compared, for every exchange.                                   *)
StillThere(used) ==
  LET now == Or(chain["spot"], chain["future"]) IN now = None \/ ~Far(now, used)

GreeksCommit ==
  /\ refresher.at = "computing" /\ At("rest")
  /\ greeks' = IF StillThere(refresher.used) THEN refresher.used ELSE greeks
  /\ UNCHANGED <<market, feeding, store, chain, active, bound>>

-----------------------------------------------------------------------------
(* cleanup *)
Cleanup ==
  /\ active /\ active' = FALSE /\ greeks' = None
  /\ UNCHANGED <<market, feeding, store, chain, refresher, bound>>

Refresher == PullFetches \/ PullApplies \/ GreeksRead \/ GreeksFail \/ GreeksCommit

Next ==
  \/ \E t \in Tokens : Moves(t) \/ Tick(t) \/ Evicted(t)
  \/ FeedDies \/ Enrich \/ Refresher \/ Cleanup

Spec == Init /\ [][Next]_vars
FairSpec == Spec /\ WF_vars(Refresher) /\ \A t \in Tokens : WF_vars(Tick(t))

-----------------------------------------------------------------------------
(* However slowly the underlying drifts, and whatever fails in between:    *)
(* greeks that are shown are those of a price next to the one the          *)
(* refresher saw last.                                                     *)
GreeksNearUnderlying == greeks # None /\ refresher.used # None => ~Far(greeks, refresher.used)

(* Greeks are not committed for a spot that has moved while they were      *)
(* computed.                                                               *)
CommittedWhereSpotIs ==
  [][greeks' # greeks /\ greeks' # None =>
       LET now == Or(chain["spot"], chain["future"]) IN now = None \/ ~Far(greeks', now)]_vars

(* refresh_greeks: while ticks arrive and nothing fails, a chain has       *)
(* greeks again.                                                           *)
GreeksComeBack == []<>(greeks # None \/ ~feeding \/ ~active)
=============================================================================
