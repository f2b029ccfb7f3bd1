----------------------------- MODULE StrikeSelection -----------------------------
(* MarketReader: how a leg of an entry or an adjustment finds its option   *)
(* in the snapshot of a chain.                                             *)
(*                                                                         *)
(* resolve_strike reads the header first (the strike at the money) and the *)
(* rows in queries of their own; the supervisor may write another snapshot *)
(* between any two of them.  The legs of an entry are resolved one by one. *)
(*                                                                         *)
(* Simplifications: deltas are multiples of 0.05 and their sign is that of *)
(* the type; theta, vega, gamma, iv and volume are searched by the same    *)
(* queries as the three attributes here; an offset is one of strikes.      *)
EXTENDS Integers, FiniteSets, FiniteSetsExt

CONSTANTS
  Strikes,    \* the strikes a chain may list, 1..n: a strike is its rank
  Chains,     \* the snapshots there may be: [atm, rows : [Strikes -> [Types -> row]]]
  Selections, \* how legs are selected: [by, value]
  Unknown,    \* a value the chain has not got (NULL)
  MaxWrites   \* bound on the snapshots of the supervisor

Types == {"CE", "PE"}
None == 0

VARIABLES
  chain,      \* the snapshot in the file
  writes,     \* how many there were since
  selection,  \* strike_selection and strike_value of the entry's legs
  leg,        \* per type: where its resolution is, the header it read, its answer
  step        \* _strike_step_cache, or None

strikeVars == <<chain, writes, selection, leg, step>>

Row(s, t) == chain.rows[s][t]
Magnitude(n) == IF n < 0 THEN -n ELSE n
Priced(t) == {s \in Strikes : Row(s, t).ltp > 0}

StrikeInit ==
  /\ chain \in Chains /\ writes = 0 /\ step = None /\ selection \in Selections
  /\ leg = [t \in Types |-> [at |-> "todo", atm |-> None, strike |-> None, read |-> None]]

-----------------------------------------------------------------------------
(* The searches.  ORDER BY with LIMIT 1: any of the nearest rows.          *)
Nearest(S, distance(_)) == {s \in S : \A u \in S : distance(s) <= distance(u)}

(* Rows within the tolerance, or else within the fallback. *)
Search(S, distance(_), tolerance, fallback) ==
  LET Within(d) == {s \in S : distance(s) <= d}
  IN IF Within(tolerance) # {} THEN Nearest(Within(tolerance), distance)
     ELSE Nearest(Within(fallback), distance)

(* Mutation: the delta of a put keeps its sign. *)
OffBySigned(s, t, target) == Magnitude(Row(s, t).delta - target)

(* How far the delta of a row is from a target, whatever its sign. *)
OffBy(s, t, target) == Magnitude(Magnitude(Row(s, t).delta) - target)

WithDelta(t) == {s \in Priced(t) : Row(s, t).delta # Unknown}

(* 0.05, then MAX_DELTA_FALLBACK *)
ByDelta(t, target) == LET Off(s) == OffBy(s, t, target) IN Search(WithDelta(t), Off, 1, 3)

(* Any premium rather than none. *)
ByPremium(t, target) ==
  LET Off(s) == Magnitude(Row(s, t).ltp - target)
  IN Search(Priced(t), Off, 0, Max({Off(s) : s \in Strikes}))

(* find_option_by_criteria: for open interest the tolerance is the larger. *)
ByInterest(t, target) ==
  LET Off(s) == Magnitude(Row(s, t).oi - target) IN Search(Priced(t), Off, 1, 0)

(* The error of a strike is that of both its options. *)
Error(s, t, target) == OffBy(s, "CE", target) + OffBy(s, "PE", target)

(* The lowest of the strikes with the least error; a chain without any     *)
(* falls back to the plain search.                                         *)
ByStraddle(t, target) ==
  LET common == WithDelta("CE") \cap WithDelta("PE")
      Err(s) == Error(s, t, target)
  IN IF common = {} THEN ByDelta(t, target) ELSE {Min(Nearest(common, Err))}

(* The aggregate payout of the writers if the underlying ends at s. *)
Pain(s) ==
  MapThenSumSet(LAMBDA k : Row(k, "CE").oi * Max({0, s - k}) + Row(k, "PE").oi * Max({0, k - s}),
                Strikes)

(* The strikes are tried in order, and a later one must be better. *)
MaxPain == Min(Nearest(Strikes, Pain))

(* The ratio of puts to calls nearest to one, with the distance from the   *)
(* money added; the header's strike where nobody holds calls.  Times the   *)
(* common denominator, to compare fractions.                               *)
Inflection ==
  LET held == {s \in Strikes : Row(s, "CE").oi > 0}
      ce(s) == Row(s, "CE").oi
      Score(s) == chain.atm * Magnitude(Row(s, "PE").oi - ce(s)) + ce(s) * Magnitude(s - chain.atm)
      best == {s \in held : \A u \in held : Score(s) * ce(u) <= Score(u) * ce(s)}
  IN IF best = {} THEN chain.atm ELSE Min(best)

(* The strikes are evenly spaced, so that the most common difference is 1; *)
(* a chain of one strike has none, and 50 is taken and not kept.           *)
StepOf == IF Cardinality(Strikes) > 1 THEN 1 ELSE None

-----------------------------------------------------------------------------
(* resolve_strike, in its two reads.                                       *)
Begin(t) ==
  /\ leg[t].at = "todo" /\ (t = "PE" => leg["CE"].at = "done")
  /\ leg' = [leg EXCEPT ![t].at = "resolving", ![t].atm = chain.atm]
  /\ step' = IF selection.by = "offset" /\ step = None THEN StepOf ELSE step
  /\ UNCHANGED <<chain, writes, selection>>

(* The strikes an answer may have.  A strike that is computed is looked up *)
(* without asking for a price, and is refused when it is not listed.       *)
Answers(t) ==
  LET by == selection.by
      value == selection.value
      at == CASE by = "offset" -> leg[t].atm + value * step
              [] by = "moneyness" -> IF t = "CE" THEN leg[t].atm
                                     ELSE leg[t].atm + (leg["CE"].strike - leg[t].atm)
              [] by = "max_pain" -> MaxPain
              [] by = "pcr_inflection" -> Inflection
              [] OTHER -> value
  IN CASE by = "delta" -> ByDelta(t, value)
       [] by = "straddle_delta" -> ByStraddle(t, value)
       [] by = "premium" -> ByPremium(t, value)
       [] by = "oi" -> ByInterest(t, value)
       [] OTHER -> {at} \cap Strikes

(* Nothing found raises: the leg stays without a strike. *)
Resolve(t) ==
  /\ leg[t].at = "resolving"
  /\ \/ \E s \in Answers(t) :
          leg' = [leg EXCEPT ![t] = [@ EXCEPT !.at = "done", !.strike = s, !.read = writes + 1]]
     \/ Answers(t) = {} /\ leg' = [leg EXCEPT ![t].at = "failed"]
  /\ UNCHANGED <<chain, writes, selection, step>>

(* The supervisor writes a snapshot. *)
Snapshot ==
  /\ writes < MaxWrites /\ writes' = writes + 1 /\ chain' \in Chains
  /\ UNCHANGED <<selection, leg, step>>

StrikeNext == Snapshot \/ \E t \in Types : Begin(t) \/ Resolve(t)

StrikeSpec == StrikeInit /\ [][StrikeNext]_strikeVars

-----------------------------------------------------------------------------
(* find_straddle_strike_by_delta: legs that were resolved from one snapshot *)
(* are legs of one strike, unless no strike has both of them.  (With a      *)
(* snapshot in between they need not be.)                                   *)
StraddleIsOneStrike ==
  selection.by = "straddle_delta" /\ (\A t \in Types : leg[t].at = "done" /\ leg[t].read = writes + 1)
    /\ WithDelta("CE") \cap WithDelta("PE") # {} => leg["CE"].strike = leg["PE"].strike

(* find_option_by_delta in its two passes is a search for the nearest      *)
(* magnitude: no priced option is nearer than the one answered, the answer *)
(* is never off by more than 0.15, and a leg fails only if all are.        *)
DeltaIsNearest ==
  selection.by = "delta" =>
    \A t \in Types :
      LET off(s) == Magnitude(Magnitude(Row(s, t).delta) - selection.value)
      IN /\ leg[t].at = "done" /\ leg[t].read = writes + 1 =>
              off(leg[t].strike) <= 3 /\ \A s \in WithDelta(t) : off(leg[t].strike) <= off(s)
         /\ Answers(t) = {} => \A s \in WithDelta(t) : off(s) > 3

(* get_max_pain_strike: at the strike it names the interest in calls at or *)
(* below first outweighs that in the puts above, which is what makes it    *)
(* the one where least is paid.                                            *)
PainIsBalanced ==
  LET calls(s) == MapThenSumSet(LAMBDA k : Row(k, "CE").oi, {k \in Strikes : k <= s})
      puts(s) == MapThenSumSet(LAMBDA k : Row(k, "PE").oi, {k \in Strikes : k > s})
  IN selection.by = "max_pain" => MaxPain = Min({s \in Strikes : calls(s) >= puts(s)})
=============================================================================
