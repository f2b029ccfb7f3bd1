---------------------------- MODULE MCStrategies ----------------------------
(* An instance of StrategyLegs in three parts and one of StrategyRules in  *)
(* the part "rules"; the run explores the sum of the four spaces.  Part    *)
(* "extra" is a day with a leg to adjust and a crash, "days" several days  *)
(* with one leg and no kill switch or lost answers, "strikes" a day with   *)
(* several strikes and no crash, stop or expiry.                           *)
EXTENDS StrategyLegs

CONSTANTS
  Nothing, NoLimit,
  RuleTags, Rulebook, Prices, Pause, RuleTicks, RuleDays, RuleCrashes   \* of part "rules"

VARIABLES
  part,
  conf, spot, rmem, marks, hold, pc, rfile, now, day, last, done, stopped, accepted, low,
  repeats, crashes

ruleVars == <<conf, spot, rmem, marks, hold, pc, rfile, now, day, last, done, stopped, accepted,
              low, repeats, crashes>>

(* A configuration without any rule, of which the others differ. *)
Plain == [
  target |-> NoLimit, ontarget |-> "exit_all", stop |-> NoLimit, again |-> FALSE,
  trail |-> NoLimit, trailpct |-> NoLimit, lock |-> NoLimit, lockpct |-> NoLimit,
  gap |-> NoLimit, size |-> NoLimit,
  onstep |-> "profit_step_adj", until |-> NoLimit, any |-> "OR", combined |-> <<>>,
  leg |-> <<>>, ref |-> "ce", most |-> 1, entry |-> <<>>, loss |-> NoLimit, lots |-> NoLimit,
  rules |-> <<>>, gains |-> {0, 1}, mark |-> 1]

If(p, cmp, v) == [param |-> p, cmp |-> cmp, value |-> v, value2 |-> v + 1, join |-> "AND"]
Or(p, cmp, v) == [If(p, cmp, v) EXCEPT !.join = "OR"]

Rule(conds, type, leg, new) ==
  [conds |-> conds, action |-> [type |-> type, leg |-> leg, new |-> new, lots |-> 1],
   else |-> FALSE, orelse |-> <<>>, elseaction |-> [type |-> "none", leg |-> "ce", new |-> "pe", lots |-> 1],
   once |-> FALSE, cooldown |-> 0, perday |-> NoLimit, total |-> NoLimit, guard |-> Nothing]

Up == If("spot_price", "crosses_above", 1)

SomeConfigs == {
  [Plain EXCEPT !.stop = 0, !.again = TRUE, !.trail = 2, !.lock = 2, !.gains = {-1, 0, 1, 2}],
  [Plain EXCEPT !.trail = 2, !.lock = 4, !.gap = 3, !.size = 2, !.onstep = "profit_step_partial",
                !.gains = {0, 2, 3}, !.stop = 1],
  [Plain EXCEPT !.target = 4, !.ontarget = "partial_lots", !.size = 1, !.until = 4],
  [Plain EXCEPT !.trailpct = 1, !.lockpct = 2, !.gains = {0, 3},
     !.rules = <<[Rule(<<If("combined_pnl", ">", 3)>>, "open_hedge", "ce", "hedge") EXCEPT !.once = TRUE]>>],
  [Plain EXCEPT !.entry = <<Up>>, !.gains = {0},
     !.rules = <<[Rule(<<Up>>, "simple_close_open_new", "MOST_PROFITABLE_LEG", "pe")
                    EXCEPT !.once = TRUE],
                 [Rule(<<If("spot_price", ">", 1)>>, "open_hedge", "ce", "hedge")
                    EXCEPT !.once = TRUE, !.cooldown = 1]>>],
  [Plain EXCEPT !.gains = {0, 1}, !.lots = 3, !.any = "AND",
     !.combined = <<If("active_legs_count", ">=", 3), Up>>,
     !.rules = <<[Rule(<<If("combined_pnl", "<", 1), Or("spot_price", "==", 2)>>, "reduce_by_pct", "ce", "pe")
                    EXCEPT !.perday = 1, !.guard = "ce", !.action.lots = 50, !.else = TRUE,
                           !.elseaction.type = "convert_to_spread"],
                 [Rule(<<If("spot_price", "crosses_below", 2)>>, "roll_to_next_expiry", "ce", "pe")
                    EXCEPT !.once = TRUE, !.total = 3]>>],
  [Plain EXCEPT !.leg = <<If("combined_pnl", "between", 1)>>, !.target = 6,
     !.ontarget = "profit_target_trail", !.trail = 1, !.gains = {-1, 0, 1, 3}, !.onstep = "profit_step_trail",
     !.size = 3, !.loss = 2]}

Rules == INSTANCE StrategyRules WITH
  Tags <- RuleTags, Configs <- Rulebook, Spots <- Prices, Backoff <- Pause,
  MaxTicks <- RuleTicks, MaxDays <- RuleDays, MaxCrashes <- RuleCrashes,
  mem <- rmem, file <- rfile, entries <- done

(* What a configuration is made of, as the schema of the configurations    *)
(* has it.                                                                 *)
IsSeries(l) == IsFiniteSet(DOMAIN l) /\ DOMAIN l \subseteq Int /\ (l # <<>> => 1 \in DOMAIN l)

ASSUME RulesAssumption ==
  /\ IsFiniteSet(RuleTags) /\ Nothing \notin RuleTags /\ NoLimit \notin Int
  /\ Prices \subseteq Int /\ Nothing \notin Int
  /\ \A c \in Rulebook :
       /\ c.gains \subseteq Int /\ c.ref \in RuleTags
       /\ c.trail \in Nat \cup {NoLimit}
       /\ {c.trailpct, c.lock, c.lockpct, c.gap} \subseteq Int \cup {NoLimit}
       /\ c.onstep \in {"profit_step_adj", "profit_step_trail", "profit_step_partial"}
       /\ IsSeries(c.entry) /\ IsSeries(c.combined) /\ IsSeries(c.leg) /\ IsSeries(c.rules)
       /\ \A i \in DOMAIN c.rules :
            /\ c.rules[i].action.lots \in Int /\ c.rules[i].elseaction.lots \in Int
            /\ IsSeries(c.rules[i].conds) /\ IsSeries(c.rules[i].orelse)

(* The crossings that are counted: where a rule or an entry asks for an    *)
(* upward crossing, it is that of the spot over the mark, and required.    *)
RequiresMark(c, l) ==
  Rules!Upward(l) => \A i \in DOMAIN l :
    l[i].join = "AND" /\ (l[i].cmp = "crosses_above" => l[i].param = "spot_price" /\ l[i].value = c.mark)

ASSUME MarksAssumption ==
  \A c \in Rulebook :
    /\ c.mark \in Int /\ RequiresMark(c, c.entry)
    /\ \A i \in DOMAIN c.rules :
         RequiresMark(c, c.rules[i].conds) /\ (Rules!Upward(c.rules[i].conds) => ~c.rules[i].else)

MInit ==
  /\ part \in {"extra", "days", "strikes", "rules"}
  /\ Init
  /\ Rules!Init /\ (part # "rules" => conf = (CHOOSE c \in SomeConfigs : c.stop = 0) /\ spot = 1)

MNext ==
  /\ part' = part
  /\ \/ /\ part = "rules" /\ Rules!Next /\ UNCHANGED vars
     \/ /\ part # "rules" /\ Next /\ UNCHANGED ruleVars
        /\ part = "extra" => today' = 1 /\ (faults' # faults => ~up')
        /\ part = "days" => ~KillSwitch /\ \A i \in DOMAIN orders' : orders'[i].status # "UNSEEN"
        /\ part = "strikes" => /\ today' = 1 /\ up' /\ cfg' # "STOPPED"
                              /\ \A i \in DOMAIN orders' : orders'[i].status # "EXPIRED"
        /\ part # "extra" => \A t \in ExtraLegs : mem'.legs[t].st = "none"
        /\ part # "strikes" => \A t \in Tags : mem'.legs[t].at = 1

MSpec == MInit /\ [][MNext]_<<part, vars, ruleVars>> /\ Fairness

(* EveryPendingLegSettles, of the extra leg in the part that has one and of *)
(* the entry's leg in the other.                                           *)
Followed == IF part = "extra" THEN "b" ELSE "a"
WaitingLegSettles == Waits(Followed) ~> (~Waits(Followed) \/ OrderExpired(Followed))

(* The properties of the rules, under names a configuration can use.       *)
LockedInIsKept == Rules!LockedInIsKept
CrossingsActedOnOnce == Rules!CrossingsActedOnOnce
=============================================================================
