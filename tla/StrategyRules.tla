---------------------------- MODULE StrategyRules ----------------------------
(* What one strategy does by its rules: the tick of its executor, that     *)
(* evaluates conditions on the market and on its own state, takes the exit *)
(* rules in their order, enters, and applies its adjustment rules, of      *)
(* which the broker may refuse what comes out.                             *)
(*                                                                         *)
(* Simplifications: money counts in small units and a leg's gain is the    *)
(* same for each of its lots; strikes are the spot of the moment a leg is  *)
(* opened; fills and failures of waiting legs come from outside; what the  *)
(* orders then do is the matter of StrategyLegs.                           *)
EXTENDS Integers, Sequences, FiniteSets, FiniteSetsExt, SequencesExt

CONSTANTS
  Tags,        \* tags a leg may have
  Configs,     \* configurations a strategy may run with
  Spots,       \* prices of the underlying
  Nothing,     \* a value that is not there
  NoLimit,     \* a number that stands for an option that is not set
  Backoff,     \* ticks without adjustments after a refused one
  MaxTicks,    \* bound on the ticks
  MaxDays,     \* bound on the days
  MaxCrashes   \* bound on the crashes

VARIABLES
  conf,     \* its configuration
  spot,     \* price of the underlying
  mem,      \* StrategyState, all of which is saved
  marks,    \* of the adjustment engine: when a rule fired last, on what day
  hold,     \* adjustments are held until this tick
  pc,       \* "idle", "sent" between an accepted alert and the save after it, "off"
  file,     \* the saved state
  now, day,
  last,     \* the day of the last tick
  entries,  \* history: entries of the day
  stopped,  \* history: since the last entry a stop loss has allowed another one
  accepted, \* history: per rule the adjustments of the day that were sent
  low,      \* history: the spot was low since the last crossing was acted on
  repeats,  \* history: crossings acted on without that
  crashes

vars == <<conf, spot, mem, marks, hold, pc, file, now, day, last, entries, stopped, accepted,
          low, repeats, crashes>>

NoLeg == [st |-> "none", lots |-> 0, gain |-> 0, strike |-> 0]
(* floor is history: the level the trailing stop was set at. *)
Flat == [on |-> FALSE, level |-> 0, peak |-> 0, floor |-> 0]
Params == {"spot_price", "combined_pnl", "active_legs_count", "adj_count_today"}
Blank == [legs |-> [t \in Tags |-> NoLeg], trail |-> Flat, step |-> -1, booked |-> 0,
          today |-> 0, life |-> 0, prev |-> [p \in Params |-> Nothing], entered |-> FALSE,
          done |-> FALSE]
RuleIds == 1 .. 2
NoMarks == [last |-> [i \in RuleIds |-> 0], once |-> [i \in RuleIds |-> 0]]

Active(m) == {t \in Tags : m.legs[t].st = "active"}
Held(m) == {t \in Tags : m.legs[t].st = "pending"}
ProfitOf(m, t) == m.legs[t].lots * m.legs[t].gain
Profit(m) == MapThenSumSet(LAMBDA t : ProfitOf(m, t), Active(m))
Lots(m) == MapThenSumSet(LAMBDA t : m.legs[t].lots, Active(m))
IsSet(x) == x # NoLimit

Init ==
  /\ conf \in Configs /\ spot \in Spots
  /\ mem = Blank /\ marks = NoMarks /\ hold = 0 /\ pc = "idle" /\ file = Blank
  /\ now = 1 /\ day = 1 /\ last = 1 /\ entries = 0 /\ stopped = FALSE
  /\ accepted = [i \in RuleIds |-> 0] /\ low = FALSE /\ repeats = 0 /\ crashes = 0

-----------------------------------------------------------------------------
(* Conditions.  All of a list are evaluated, and joined from left to right *)
(* without precedence; a crossing compares with the value its parameter    *)
(* had when a crossing of it was evaluated last, by whichever rule.        *)
Value(m, s, p) ==
  CASE p = "spot_price" -> s
    [] p = "combined_pnl" -> Profit(m)
    [] p = "active_legs_count" -> Cardinality(Active(m))
    [] p = "adj_count_today" -> m.today

Crossed(above, before, x, v) ==
  before # Nothing /\ (IF above THEN before <= v /\ x > v ELSE before >= v /\ x < v)

Holds(c, x, before) ==
  CASE c.cmp = ">"  -> x > c.value
    [] c.cmp = ">=" -> x >= c.value
    [] c.cmp = "<"  -> x < c.value
    [] c.cmp = "<=" -> x <= c.value
    [] c.cmp = "==" -> x = c.value
    [] c.cmp = "between" -> c.value <= x /\ x <= c.value2
    [] c.cmp = "crosses_above" -> Crossed(TRUE, before, x, c.value)
    [] c.cmp = "crosses_below" -> Crossed(FALSE, before, x, c.value)

Crossing(c) == c.cmp \in {"crosses_above", "crosses_below"}

(* Mutation: a crossing that is reported is not remembered. *)
RememberedIfNot(c, x, before) ==
  IF Crossing(c) /\ ~Holds(c, x, before) THEN x ELSE before

Remembered(c, x, before) == IF Crossing(c) THEN x ELSE before

Evaluate(m, s, conds) ==
  LET One(acc, c) ==
        LET x == Value(m, s, c.param)
            h == Holds(c, x, acc.prev[c.param])
        IN [prev |-> [acc.prev EXCEPT ![c.param] = Remembered(c, x, @)],
            holds |-> IF c.join = "OR" THEN acc.holds \/ h ELSE acc.holds /\ h]
  IN FoldLeft(One, [prev |-> m.prev, holds |-> TRUE], conds)

Seen(m, e) == [m EXCEPT !.prev = e.prev]

-----------------------------------------------------------------------------
(* The exit rules, in the order of check_exits. *)
TargetHit(m) == IsSet(conf.target) /\ Profit(m) >= conf.target

StopHit(m) == Active(m) # {} /\ IsSet(conf.stop) /\ Profit(m) <= -conf.stop

(* An option that is no amount may be a percentage of what the active legs *)
(* are worth, a unit a lot, and moves with them; it is not set without     *)
(* legs.                                                                   *)
Amount(m, x, percent) ==
  IF IsSet(x) \/ ~IsSet(percent) THEN x
  ELSE IF Lots(m) = 0 THEN NoLimit ELSE percent * Lots(m)
TrailOf(m) == Amount(m, conf.trail, conf.trailpct)
LockOf(m) == Amount(m, conf.lock, conf.lockpct)

(* Mutation: the stop follows the profit and not its peak. *)
RatchetedToProfit(m, t) == [t EXCEPT !.level = Profit(m) - TrailOf(m)]

(* The stop follows the peak, at once or when it is a step away. *)
Ratcheted(m, t) ==
  LET level == t.peak - TrailOf(m)
  IN IF IsSet(conf.gap)
     THEN IF t.peak - t.level >= conf.gap THEN [t EXCEPT !.level = level] ELSE t
     ELSE IF level > t.level THEN [t EXCEPT !.level = level] ELSE t

Trailed(m) ==
  LET p == Profit(m)
      t == [m.trail EXCEPT !.peak = IF p > @ THEN p ELSE @]
      level == p - TrailOf(m)
      u == IF ~t.on /\ IsSet(LockOf(m)) /\ p >= LockOf(m)
           THEN [t EXCEPT !.on = TRUE, !.level = level, !.floor = level] ELSE t
  IN IF ~IsSet(TrailOf(m)) THEN m.trail ELSE IF u.on THEN Ratcheted(m, u) ELSE u

TrailHit(m) == m.trail.on /\ IsSet(TrailOf(m)) /\ Profit(m) <= m.trail.level

(* One step at a time, the first of which is that of no loss. *)
NextStep(m) == IF Profit(m) \div conf.size > m.step THEN m.step + 1 ELSE m.step

StepDue(m) == IsSet(conf.size) /\ NextStep(m) # m.step

(* The combined conditions, looked at one after the other until the answer *)
(* is known.                                                               *)
Combined(m, s) ==
  LET Go(acc, c) ==
        IF acc.holds = (conf.any = "OR") /\ acc.some THEN acc
        ELSE LET e == Evaluate([m EXCEPT !.prev = acc.prev], s, <<c>>)
             IN [prev |-> e.prev, holds |-> e.holds, some |-> TRUE]
      first == FoldLeft(Go, [prev |-> m.prev, holds |-> conf.any # "OR", some |-> FALSE], conf.combined)
  IN [prev |-> first.prev, holds |-> conf.combined # <<>> /\ first.holds]

TimeIsUp(m) == Active(m) # {} /\ IsSet(conf.until) /\ now >= conf.until

(* check_exits: the first rule that holds, and what the checks up to it    *)
(* leave behind.                                                           *)
CheckExits(m, s) ==
  LET t == [m EXCEPT !.trail = Trailed(m)]
      u == [t EXCEPT !.step = NextStep(t)]
      c == Combined(t, s)
      v == Seen(t, c)
      l == Evaluate(v, s, conf.leg)
  IN IF TargetHit(m) THEN [act |-> conf.ontarget, mem |-> m]
     ELSE IF StopHit(m) THEN [act |-> "exit_stop", mem |-> m]
     ELSE IF TrailHit(t) THEN [act |-> "exit_all", mem |-> t]
     ELSE IF StepDue(t) THEN [act |-> conf.onstep, mem |-> u]
     ELSE IF TimeIsUp(t) THEN [act |-> "exit_all", mem |-> t]
     ELSE IF c.holds THEN [act |-> "exit_all", mem |-> v]
     ELSE IF conf.leg # <<>> /\ m.legs[conf.ref].st = "active"
       THEN [act |-> IF l.holds THEN "leg_rule" ELSE "none", mem |-> Seen(v, l)]
     ELSE [act |-> "none", mem |-> v]

Shut(m, t) == [m EXCEPT !.legs[t].st = "closed"]

Less(m, t, n) ==
  IF n < m.legs[t].lots THEN [m EXCEPT !.legs[t].lots = @ - n]
  ELSE [m EXCEPT !.legs[t].lots = 0, !.legs[t].st = "closed"]
ShutAll(m) ==
  [m EXCEPT !.legs = [t \in Tags |-> IF t \in Active(m) THEN Shut(m, t).legs[t] ELSE @[t]]]

Booked(m) == [ShutAll(m) EXCEPT !.booked = @ + Profit(m)]

Exited(m, again) ==
  [Booked(m) EXCEPT !.trail = Flat, !.step = -1, !.entered = ~again,
                    !.done = IF again THEN @ ELSE TRUE]

FirstActive(m) == CHOOSE t \in Active(m) : TRUE

(* _execute_exit: what is not a whole exit changes the legs in memory.     *)
Executed(m, act) ==
  CASE act = "exit_all" -> Exited(m, FALSE)
    [] act = "exit_stop" -> Exited(m, conf.again)
    [] act = "partial_lots" /\ Active(m) # {} -> Less(m, FirstActive(m), 1)
    [] act = "profit_target_trail" ->
         [m EXCEPT !.trail.on = TRUE,
                   !.trail.level = m.trail.peak - (IF IsSet(conf.trail) THEN conf.trail ELSE 0)]
    [] act = "profit_step_trail" /\ IsSet(conf.trail) ->
         [m EXCEPT !.trail.level = m.trail.peak - (conf.trail * 3) \div 4]
    [] act = "profit_step_partial" ->
         [m EXCEPT !.legs = [t \in Tags |-> IF t \in Active(m) THEN Less(m, t, 1).legs[t] ELSE @[t]]]
    [] act = "leg_rule" -> Shut(m, conf.ref)
    [] OTHER -> m

-----------------------------------------------------------------------------
(* The adjustment rules. *)
Best(m) == CHOOSE t \in Active(m) : \A u \in Active(m) : ProfitOf(m, t) >= ProfitOf(m, u)
Worst(m) == CHOOSE t \in Active(m) : \A u \in Active(m) : ProfitOf(m, t) <= ProfitOf(m, u)

(* A tag stands for its leg while that is active, a name for the leg it    *)
(* describes.                                                              *)
CloseTag(m, name) ==
  CASE Active(m) = {} -> Nothing
    [] Active(m) # {} /\ name = "MOST_PROFITABLE_LEG" -> Best(m)
    [] Active(m) # {} /\ name = "LEAST_PROFITABLE_LEG" -> Worst(m)
    [] OTHER -> IF name \in Active(m) THEN name ELSE Nothing

(* A new leg waits under a tag that no leg has. *)
Unused(m, tag) ==
  IF m.legs[tag].st = "none" THEN tag ELSE CHOOSE t \in Tags : m.legs[t].st = "none"
NewLeg(m, tag, lots, strike) ==
  [m EXCEPT !.legs[Unused(m, tag)] = [st |-> "pending", lots |-> lots, gain |-> 0, strike |-> strike]]

(* round() to the nearest, halves to the even one; one lot at least. *)
Rounded(x) ==
  LET q == x \div 100  r == x % 100
  IN IF r > 50 \/ (r = 50 /\ q % 2 = 1) THEN q + 1 ELSE q
Part(lots, pct) == IF Rounded(lots * pct) = 0 THEN 1 ELSE Rounded(lots * pct)

(* A swap that would open what it closes is undone. *)
Swapped(m, t, a, s) ==
  IF t # Nothing /\ m.legs[t].strike = s THEN m
  ELSE LET c == IF t = Nothing THEN m ELSE [Shut(m, t) EXCEPT !.booked = @ + ProfitOf(m, t)]
       IN NewLeg(c, a.new, 1, s)

(* _execute_action; an action whose leg is not there does nothing. *)
Performed(m, a, s) ==
  LET t == CloseTag(m, a.leg)
  IN CASE a.type = "simple_close_open_new" -> Swapped(m, t, a, s)
       [] a.type = "open_hedge" -> NewLeg(m, a.new, 1, s)
       [] t # Nothing /\ a.type = "close_leg" -> Shut(m, t)
       [] t # Nothing /\ a.type = "partial_close_lots" -> Less(m, t, a.lots)
       [] t # Nothing /\ a.type = "reduce_by_pct" -> Less(m, t, Part(m.legs[t].lots, a.lots))
       [] t # Nothing /\ a.type = "roll_to_next_expiry" ->
            Shut(NewLeg(m, a.new, m.legs[t].lots, m.legs[t].strike), t)
       [] t # Nothing /\ a.type = "convert_to_spread" ->
            NewLeg(m, a.new, m.legs[t].lots, m.legs[t].strike + 1)
       [] OTHER -> m

MayFire(i, r, m, mk) ==
  /\ r.once => mk.once[i] # day
  /\ r.cooldown > 0 /\ mk.last[i] # 0 => now - mk.last[i] >= r.cooldown
  /\ IsSet(r.perday) => m.today < r.perday
  /\ IsSet(r.total) => m.life < r.total
  /\ r.guard # Nothing => m.legs[r.guard].st = "active"

Fired(i, r, mk) == [mk EXCEPT !.last[i] = now, !.once[i] = IF r.once THEN day ELSE @]

(* check_and_apply: every rule in the order of priority, each on what the  *)
(* ones before have made of the legs.  What leaves the legs as they are    *)
(* costs nothing.                                                          *)
Applied(m, s) ==
  LET Apply(acc, i) ==
        LET r == conf.rules[i]
            e == Evaluate(acc.mem, s, r.conds)
            f == Evaluate(Seen(acc.mem, e), s, r.orelse)
            chosen == e.holds \/ (r.else /\ f.holds)
            n == Seen(acc.mem, IF e.holds \/ ~r.else THEN e ELSE f)
            p == Performed(n, IF e.holds THEN r.action ELSE r.elseaction, s)
        IN IF ~MayFire(i, r, acc.mem, acc.marks) THEN acc
           ELSE IF ~chosen \/ p.legs = n.legs THEN [acc EXCEPT !.mem = n]
           ELSE [mem |-> [p EXCEPT !.today = @ + 1, !.life = @ + 1],
                 marks |-> Fired(i, r, acc.marks), fired |-> acc.fired \cup {i}]
  IN FoldLeftDomain(Apply, [mem |-> m, marks |-> marks, fired |-> {}], conf.rules)

-----------------------------------------------------------------------------
(* A tick.  On a new day the counters start again, what was crossed and    *)
(* what it held stays; then the market is read.                            *)
NewDay(m) ==
  [m EXCEPT !.today = 0, !.entered = FALSE, !.done = FALSE, !.trail = Flat, !.step = -1,
            !.booked = 0, !.legs = [t \in Tags |-> IF t \in Active(m) THEN @[t] ELSE NoLeg]]

Read(m, g) == [m EXCEPT !.legs = [t \in Tags |-> IF t \in Active(m) THEN [@[t] EXCEPT !.gain = g[t]] ELSE @[t]]]

WithinLoss(m) == IsSet(conf.loss) => m.booked > -conf.loss
WithinLots(m, more) == IsSet(conf.lots) => Lots(m) + more <= conf.lots

Upward(conds) == \E i \in DOMAIN conds : conds[i].cmp = "crosses_above"

(* What has become of the crossing of the spot that a rule acts on. *)
Acted(acts, s) ==
  /\ low' = (~acts /\ (low \/ s <= conf.mark))
  /\ repeats' = repeats + (IF acts /\ ~low THEN 1 ELSE 0)

NotActed(s) == Acted(FALSE, s)

(* The steps of a tick begin with x, what check_exits has answered. *)
GoesOn(x) == x.act \in {"none", "profit_step_adj"}

(* The strategy exits in whole or in part, and the state is saved. *)
TickExit(x, s) ==
  /\ ~GoesOn(x)
  /\ mem' = Executed(x.mem, x.act) /\ file' = mem'
  /\ stopped' = (stopped \/ (x.act = "exit_stop" /\ conf.again))
  /\ NotActed(s)
  /\ UNCHANGED <<marks, hold, pc, entries, accepted>>

(* process_entry.  The number of trades it compares with the most that are *)
(* allowed is never counted.                                               *)
Enters(m, s) == ~m.entered /\ WithinLoss(m) /\ conf.most > 0 /\ Evaluate(m, s, conf.entry).holds

(* A rule compares afresh, so that a leg of an earlier entry is replaced.  *)
Entered(m, s) == [m EXCEPT !.legs[conf.ref] = [st |-> "pending", lots |-> 2, gain |-> 0, strike |-> s]]

TickEnter(x, s) ==
  /\ GoesOn(x) /\ Enters(x.mem, s)
  /\ \E n \in {Seen(x.mem, Evaluate(x.mem, s, conf.entry))} :
       \/ /\ mem' = [Entered(n, s) EXCEPT !.entered = TRUE] /\ pc' = "sent"
          /\ entries' = entries + 1 /\ stopped' = FALSE
       \/ /\ mem' = [n EXCEPT !.legs[conf.ref] = NoLeg]
          /\ UNCHANGED <<pc, entries, stopped>>
  /\ Acted(Upward(conf.entry), s)
  /\ UNCHANGED <<marks, hold, file, accepted>>

(* Adjustments wait after a refusal, and for the legs that are on their    *)
(* way.                                                                    *)
MayAdjust(m) == now >= hold /\ Active(m) # {} /\ Held(m) = {}

(* A refused adjustment is taken back: the legs and the counters; not what *)
(* it booked, nor the marks of its rules.                                  *)
Restored(m, a) == [a EXCEPT !.legs = m.legs, !.today = m.today, !.life = m.life]

Adds(m, a) == MapThenSumSet(LAMBDA t : a.legs[t].lots, {t \in Held(a) : m.legs[t].st = "none"})

(* The conditions of the entry are evaluated unless something else keeps   *)
(* the strategy out.                                                       *)
NotEntered(m, s) ==
  IF m.entered \/ ~WithinLoss(m) \/ conf.most = 0 THEN m ELSE Seen(m, Evaluate(m, s, conf.entry))

TickAdjust(x, s) ==
  /\ GoesOn(x) /\ ~Enters(x.mem, s)
  /\ \E n \in {NotEntered(x.mem, s)} :
       /\ MayAdjust(n)
       /\ \E a \in {Applied(n, s)} :
            /\ a.fired # {} /\ marks' = a.marks
            /\ \/ /\ WithinLoss(a.mem) /\ WithinLots(a.mem, Adds(n, a.mem))
                  /\ mem' = a.mem /\ pc' = "sent" /\ hold' = hold
                  /\ accepted' = [i \in RuleIds |-> accepted[i] + (IF i \in a.fired THEN 1 ELSE 0)]
               \/ /\ mem' = Restored(n, a.mem) /\ hold' = now + Backoff
                  /\ UNCHANGED <<pc, accepted>>
            /\ Acted(\E i \in a.fired : Upward(conf.rules[i].conds), s)
  /\ UNCHANGED <<file, entries, stopped>>

(* The strike of the new leg is not found: the tick ends there, with the   *)
(* old leg closed in memory and no order for it.                           *)
TickBroken(x, s) ==
  /\ GoesOn(x) /\ x.mem.entered /\ MayAdjust(x.mem) /\ conf.rules # <<>>
  /\ LET r == conf.rules[1]
     IN /\ r.action.type = "simple_close_open_new" /\ MayFire(1, r, x.mem, marks)
        /\ \E e \in {Evaluate(x.mem, s, r.conds)} : \E t \in {CloseTag(x.mem, r.action.leg)} :
             /\ e.holds /\ t # Nothing
             /\ mem' = [Shut(Seen(x.mem, e), t) EXCEPT !.booked = @ + ProfitOf(x.mem, t)]
        /\ Acted(Upward(r.conds), s)
  /\ UNCHANGED <<marks, hold, pc, file, entries, stopped, accepted>>

(* Nothing is due; every half minute the state is saved. *)
TickQuiet(x, s) ==
  /\ GoesOn(x) /\ ~Enters(x.mem, s)
  /\ \E n \in {NotEntered(x.mem, s)} :
       \/ /\ MayAdjust(n)
          /\ \E a \in {Applied(n, s)} : a.fired = {} /\ mem' = a.mem
       \/ ~MayAdjust(n) /\ mem' = n
  /\ file' \in {file, mem'}
  /\ NotActed(s)
  /\ UNCHANGED <<marks, hold, pc, entries, stopped, accepted>>

Tick ==
  /\ pc = "idle" /\ now < MaxTicks /\ now' = now + 1 /\ last' = day
  /\ \E s \in Spots : \E g \in [Active(mem) -> conf.gains] :
       \E x \in {CheckExits(Read(IF last = day THEN mem ELSE NewDay(mem), g), s)} :
          /\ spot' = s
          /\ TickExit(x, s) \/ TickEnter(x, s) \/ TickAdjust(x, s) \/ TickBroken(x, s) \/ TickQuiet(x, s)
  /\ UNCHANGED <<conf, day, crashes>>

Save ==
  /\ pc = "sent" /\ file' = mem /\ pc' = "idle"
  /\ UNCHANGED <<conf, spot, mem, marks, hold, now, day, last, entries, stopped, accepted,
                 low, repeats, crashes>>

(* A leg that waits is filled, or given up. *)
Settle(t, st) ==
  /\ pc = "idle" /\ mem.legs[t].st = "pending"
  /\ mem' = [mem EXCEPT !.legs[t].st = st]
  /\ UNCHANGED <<conf, spot, marks, hold, pc, file, now, day, last, entries, stopped, accepted,
                 low, repeats, crashes>>

Complete ==
  /\ pc = "idle" /\ mem.done /\ Active(mem) = {} /\ pc' = "over"
  /\ UNCHANGED <<conf, spot, mem, marks, hold, file, now, day, last, entries, stopped, accepted,
                 low, repeats, crashes>>

NextDay ==
  /\ pc = "idle" /\ day < MaxDays /\ day' = day + 1
  /\ entries' = 0 /\ stopped' = FALSE /\ accepted' = [i \in RuleIds |-> 0]
  /\ UNCHANGED <<conf, spot, mem, marks, hold, pc, file, now, last, low, repeats, crashes>>

(* The process ends and starts again on the same day.  A state without     *)
(* legs of an entry is begun anew by hand.                                 *)
Crash ==
  /\ pc \in {"idle", "sent"} /\ crashes < MaxCrashes /\ crashes' = crashes + 1
  /\ pc' = "off"
  /\ UNCHANGED <<conf, spot, mem, marks, hold, file, now, day, last, entries, stopped, accepted,
                 low, repeats>>

Resumes == Active(file) \cup Held(file) # {} \/ ~file.entered

Restart ==
  /\ pc = "off" /\ pc' = "idle" /\ last' = day
  /\ mem' = (IF Resumes THEN file ELSE Blank) /\ file' = mem'
  /\ marks' = NoMarks /\ hold' = 0
  /\ entries' = (IF Resumes THEN entries ELSE 0)
  /\ accepted' = (IF Resumes THEN accepted ELSE [i \in RuleIds |-> 0])
  /\ UNCHANGED <<conf, spot, now, day, stopped, low, repeats, crashes>>

Next ==
  \/ Tick \/ Save \/ Complete \/ NextDay \/ Crash \/ Restart
  \/ \E t \in Tags, st \in {"active", "failed"} : Settle(t, st)

Spec == Init /\ [][Next]_vars

-----------------------------------------------------------------------------
RulesTypeOK ==
  /\ pc \in {"idle", "sent", "off", "over"} /\ now \in 1 .. MaxTicks /\ day \in 1 .. MaxDays
  /\ \A m \in {mem, file} :
       /\ \A t \in Tags : m.legs[t].st = "active" => m.legs[t].lots > 0
       /\ m.step >= -1 /\ m.today >= 0 /\ m.life >= m.today

(* A trailing stop that was set when a profit was reached never falls      *)
(* below the level it was set at, whatever happens to peak, steps, legs    *)
(* and restarts, until the strategy is out or a day is over.  Two kinds of *)
(* configurations are excepted: those whose profit target moves the stop,  *)
(* and those with a step and the trail in percent, where more legs make    *)
(* the trail longer (exit_engine.py:151-179).                              *)
StopNeverLowered(c) == c.ontarget # "profit_target_trail" /\ (IsSet(c.trail) \/ ~IsSet(c.gap))
LockedInIsKept == mem.trail.on /\ StopNeverLowered(conf) => mem.trail.level >= mem.trail.floor

(* No tick of a strategy leaves a loss at its limit standing, a limit of   *)
(* zero included.                                                          *)
StopLossActs ==
  [][now' # now /\ IsSet(conf.stop) /\ Active(mem') # {} => Profit(mem') > -conf.stop]_vars

(* A strategy enters again on a day only after a stop loss that allows it, *)
(* or for what a crash has made it forget.                                 *)
ReentryOnlyAfterStop ==
  [][entries' > entries /\ entries >= 1 => stopped \/ crashes > 0]_vars

(* Of every step of profit there is an action, and none before it is made. *)
StepsInOrder ==
  [][mem'.step > mem.step /\ pc # "off" => /\ mem'.step = mem.step + 1
                                           /\ now' # now]_vars

(* No more adjustments of a rule are sent on a day than the rule allows,   *)
(* but for one for each crash between the sending and the saving.          *)
BudgetHolds ==
  \A i \in DOMAIN conf.rules :
    IsSet(conf.rules[i].perday) => accepted[i] <= conf.rules[i].perday + crashes

(* A rule that is not to be triggered again is sent once a day, but for    *)
(* the crashes that make the engine forget it.                             *)
OnceADay == \A i \in DOMAIN conf.rules : conf.rules[i].once => accepted[i] <= 1 + crashes

(* A crossing is acted on once, by whichever rule sees it first.           *)
CrossingsActedOnOnce == repeats <= crashes

(* A refused adjustment leaves the strategy free to try again: what is     *)
(* said of a rule without retrigger, that it is blocked "after its first   *)
(* successful execution".                                                  *)
RefusedMayTryAgain ==
  pc = "idle" => \A i \in DOMAIN conf.rules :
    conf.rules[i].once /\ marks.once[i] = day => accepted[i] > 0
=============================================================================
