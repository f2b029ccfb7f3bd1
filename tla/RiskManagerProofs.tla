-------------------------- MODULE RiskManagerProofs --------------------------
(* Proofs about RiskManager, for all calendars, limits, results, glitches  *)
(* and numbers of crashes.                                                 *)
EXTENDS RiskManager, TLAPS

LEMMA FreshFields ==
  ASSUME RiskAssumption, NEW d \in Days
  PROVE  /\ Fresh(d) \in Risks /\ Fresh(d).day = d /\ Fresh(d).limit = Base
         /\ Fresh(d).peak = 0 /\ Fresh(d).pnl = 0 /\ Fresh(d).failed = <<>>
  BY DEF RiskAssumption, Fresh, Risks

LEMMA StoredFields ==
  ASSUME RiskAssumption, NEW r \in Risks
  PROVE  /\ Stored(r) \in Risks /\ Stored(r).pnl = 0
         /\ Stored(r).day = r.day /\ Stored(r).limit = r.limit
         /\ Stored(r).peak = r.peak /\ Stored(r).hit = r.hit /\ Stored(r).failed = r.failed
  BY DEF RiskAssumption, Stored, Risks

LEMMA ResetFields ==
  ASSUME RiskAssumption, NEW r \in Risks, NEW d \in Days
  PROVE  /\ Reset(r, d) \in Risks /\ Reset(r, d).day = d /\ Reset(r, d).limit = Base
         /\ Reset(r, d).peak = 0 /\ Reset(r, d).pnl = 0 /\ Reset(r, d).failed = r.failed
  BY FreshFields DEF RiskAssumption, Reset, Fresh, Risks

LEMMA UpdatedFields ==
  ASSUME RiskAssumption, pnl \in Pnls, NEW r \in Risks, NEW view
  PROVE  /\ Updated(r, view) \in Risks
         /\ Updated(r, view).day = r.day /\ Updated(r, view).limit = r.limit
         /\ Updated(r, view).peak = r.peak /\ Updated(r, view).hit = r.hit
         /\ Updated(r, view).failed = r.failed
         /\ \/ Updated(r, view).pnl \in {r.pnl, 0}
            \/ ~Unusable(r, "rows") /\ Updated(r, view).pnl = pnl
  <1> DEFINE total == IF view = "rows" THEN pnl ELSE 0
  <1>1. total \in Pnls
    BY DEF RiskAssumption
  <1>2. CASE Unusable(r, view)
    BY <1>2 DEF Updated
  <1>3. CASE ~Unusable(r, view)
    <2>1. Updated(r, view) = [r EXCEPT !.pnl = total, !.last = total]
      BY <1>3 DEF Updated
    <2>2. total = 0 \/ (total = pnl /\ ~Unusable(r, "rows"))
      BY <1>3
    <2> HIDE DEF total
    <2> QED BY <1>1, <2>1, <2>2 DEF Risks
  <1> QED BY <1>2, <1>3

LEMMA SeenFields ==
  ASSUME RiskAssumption, today \in Days, NEW r \in Risks
  PROVE  /\ NewDaySeen(r) \in Risks /\ NewDaySeen(r).day = today
         /\ NewDaySeen(r).failed = r.failed
         /\ r.day = today => NewDaySeen(r) = r
         /\ r.day # today => /\ NewDaySeen(r).limit = Base
                             /\ NewDaySeen(r).peak = 0 /\ NewDaySeen(r).pnl = 0
  BY ResetFields DEF NewDaySeen

(* The trailing raises the limit or leaves it, in market hours, to the     *)
(* result it has.                                                          *)
LEMMA TrailedFields ==
  ASSUME RiskAssumption, NEW r \in Risks
  PROVE  /\ Trailed(r) \in Risks
         /\ Trailed(r).day = r.day /\ Trailed(r).hit = r.hit /\ Trailed(r).failed = r.failed
         /\ Trailed(r).limit >= r.limit /\ Trailed(r).pnl = r.pnl
         /\ Trailed(r).peak \in {r.peak, r.pnl}
  <1> DEFINE limit == Base + (r.pnl \div Step) * Step
             best == IF limit > r.limit THEN limit ELSE r.limit
  <1>1. r.pnl \in Int /\ r.limit \in Int /\ r.peak \in Int
    BY DEF RiskAssumption, Risks
  <1>2. r.pnl \div Step \in Int
    BY <1>1 DEF RiskAssumption
  <1>3. limit \in Int
    BY <1>2 DEF RiskAssumption
  <1>4. best \in Int /\ best >= r.limit
    BY <1>1, <1>3
  <1>5. \/ Trailed(r) = r
        \/ Trailed(r) = [r EXCEPT !.peak = r.pnl, !.limit = best]
    BY DEF Trailed
  <1> HIDE DEF best, limit
  <1>6. CASE Trailed(r) = r
    BY <1>1, <1>6 DEF Risks
  <1>7. CASE Trailed(r) = [r EXCEPT !.peak = r.pnl, !.limit = best]
    BY <1>1, <1>4, <1>7 DEF Risks
  <1> QED BY <1>5, <1>6, <1>7

LEMMA NotedFields ==
  ASSUME RiskAssumption, NEW r \in Risks, Len(r.failed) <= LossDays
  PROVE  /\ LossNoted(r) \in Risks
         /\ LossNoted(r).day = r.day /\ LossNoted(r).hit = r.hit
         /\ LossNoted(r).limit = r.limit /\ LossNoted(r).peak = r.peak
         /\ LossNoted(r).pnl = r.pnl /\ Len(LossNoted(r).failed) <= LossDays
  <1> DEFINE days == Append(r.failed, r.day)
             kept == IF Len(days) > LossDays THEN Tail(days) ELSE days
  <1>1. r.failed \in Seq(Days) /\ r.day \in Days /\ Len(r.failed) \in Nat
    BY DEF Risks
  <1>2. days \in Seq(Days) /\ Len(days) = Len(r.failed) + 1
    BY <1>1
  <1>3. kept \in Seq(Days) /\ Len(kept) <= LossDays
    <2>1. CASE Len(days) > LossDays
      <3>1. days # <<>>
        BY <1>1, <1>2
      <3>2. Tail(days) \in Seq(Days) /\ Len(Tail(days)) = Len(days) - 1
        BY <1>2, <3>1
      <3> QED BY <1>1, <1>2, <2>1, <3>2 DEF RiskAssumption
    <2>2. CASE ~(Len(days) > LossDays)
      BY <1>1, <1>2, <2>2 DEF RiskAssumption
    <2> QED BY <2>1, <2>2
  <1>4. LossNoted(r) = [r EXCEPT !.failed = kept, !.forced = TRUE]
    BY DEF LossNoted
  <1> HIDE DEF kept
  <1> QED BY <1>3, <1>4 DEF Risks

(* The memory after a heartbeat and after a gate has read the positions: a *)
(* day that was seen before keeps its limit, its flag and its best profit, *)
(* a new one starts afresh.                                                *)
ReadFields(r) ==
  /\ r \in Risks /\ r.day = today /\ r.failed = risk.failed
  /\ risk.day = today => r.limit = risk.limit /\ r.hit = risk.hit /\ r.peak = risk.peak
  /\ risk.day # today => r.limit = Base /\ r.peak = 0
  /\ \/ r.pnl = 0
     \/ risk.day = today /\ r.pnl = risk.pnl
     \/ r.pnl = pnl /\ ~Unusable(risk, "rows")

LEMMA BeatRead ==
  ASSUME RiskAssumption, TypeOK, NEW view
  PROVE  ReadFields(Beat(view))
  <1> DEFINE r == NewDaySeen(risk)
  <1>1. risk \in Risks /\ today \in Days /\ pnl \in Pnls
    BY DEF TypeOK
  <1>2. /\ r \in Risks /\ r.day = today /\ r.failed = risk.failed
        /\ risk.day = today => r = risk
        /\ risk.day # today => r.limit = Base /\ r.peak = 0 /\ r.pnl = 0
    BY <1>1, SeenFields
  <1>3. Unusable(r, "rows") <=> Unusable(risk, "rows")
    BY DEF Unusable
  <1>4. Beat(view) = Updated(r, view)
    BY DEF Beat
  <1> HIDE DEF r
  <1>5. /\ Updated(r, view) \in Risks
        /\ Updated(r, view).day = r.day /\ Updated(r, view).limit = r.limit
        /\ Updated(r, view).peak = r.peak /\ Updated(r, view).hit = r.hit
        /\ Updated(r, view).failed = r.failed
        /\ \/ Updated(r, view).pnl \in {r.pnl, 0}
           \/ ~Unusable(r, "rows") /\ Updated(r, view).pnl = pnl
    BY <1>1, <1>2, UpdatedFields
  <1> QED BY <1>2, <1>3, <1>4, <1>5 DEF ReadFields

LEMMA GateRead ==
  ASSUME RiskAssumption, TypeOK, NEW view
  PROVE  ReadFields(Gate(view))
  <1> DEFINE r == Updated(risk, view)
  <1>1. risk \in Risks /\ today \in Days /\ pnl \in Pnls
    BY DEF TypeOK
  <1>2. /\ r \in Risks
        /\ r.day = risk.day /\ r.limit = risk.limit
        /\ r.peak = risk.peak /\ r.hit = risk.hit
        /\ r.failed = risk.failed
        /\ \/ r.pnl \in {risk.pnl, 0}
           \/ ~Unusable(risk, "rows") /\ r.pnl = pnl
    BY <1>1, UpdatedFields
  <1>3. Gate(view) = NewDaySeen(r)
    BY DEF Gate
  <1> HIDE DEF r
  <1>4. /\ NewDaySeen(r) \in Risks /\ NewDaySeen(r).day = today
        /\ NewDaySeen(r).failed = r.failed
        /\ r.day = today => NewDaySeen(r) = r
        /\ r.day # today => /\ NewDaySeen(r).limit = Base
                            /\ NewDaySeen(r).peak = 0 /\ NewDaySeen(r).pnl = 0
    BY <1>1, <1>2, SeenFields
  <1> QED BY <1>2, <1>3, <1>4 DEF ReadFields

-----------------------------------------------------------------------------
(* q is r after some steps of a call: the same day, a flag that stays, a   *)
(* limit that is not lower, a best profit that was the result.             *)
Kept(q, r) ==
  /\ q \in Risks /\ q.day = r.day /\ (r.hit => q.hit) /\ q.limit >= r.limit
  /\ q.peak \in {r.peak, r.pnl} /\ q.pnl = r.pnl /\ Len(q.failed) <= LossDays

(* q is what the file has after r was saved. *)
FileOf(q, r) ==
  /\ q \in Risks /\ q.day = r.day /\ q.hit = r.hit /\ q.limit = r.limit
  /\ q.peak = r.peak /\ q.pnl = 0 /\ q.failed = r.failed

(* The five ways a step treats the memory and the file: not at all; by a   *)
(* restart; in memory only; reading the positions, and saving or not.      *)
Aside == UNCHANGED <<risk, saved>> /\ (breached' => breached /\ today' = today)

Frame == UNCHANGED <<today, session, lots, pnl, realPeak>>

Restarted == Frame /\ risk' = Loaded /\ saved' = saved /\ breached' = breached

InMemory ==
  /\ Frame /\ Kept(risk', risk) /\ risk'.limit = risk.limit /\ risk'.peak = risk.peak
  /\ saved' = saved /\ breached' = breached

Written ==
  /\ Frame /\ FileOf(saved', risk')
  /\ \E r \in Risks : (ReadFields(r) \/ r = risk) /\ Kept(risk', r)
  /\ breached' => breached \/ (risk'.hit /\ risk'.day = today)

ReadOnly ==
  /\ Frame /\ ReadFields(risk') /\ breached' = breached
  /\ saved' = IF risk.day = today THEN saved ELSE Stored(Reset(risk, today))

Remembers == Aside \/ Restarted \/ InMemory \/ Written \/ ReadOnly

LEMMA BreachWritten ==
  ASSUME RiskAssumption, TypeOK, NEW r, ReadFields(r), NEW by, Breach(r, by)
  PROVE  Written
  <1> DEFINE q == Hit(r)
  <1>1. r \in Risks /\ Len(r.failed) <= LossDays /\ r.day = today
    BY DEF ReadFields, TypeOK
  <1>2. /\ q \in Risks /\ q.day = r.day /\ q.hit = TRUE /\ q.limit = r.limit
        /\ q.peak = r.peak /\ q.pnl = r.pnl /\ q.failed = r.failed
    BY <1>1 DEF Hit, Risks
  <1>3. risk' = q /\ saved' = Stored(q) /\ Frame
    BY DEF Breach, Frame, calendar, broker
  <1> HIDE DEF q
  <1>4. FileOf(saved', risk')
    BY <1>2, <1>3, StoredFields DEF FileOf
  <1>5. r.limit \in Int
    BY <1>1 DEF Risks
  <1>6. Kept(risk', r)
    BY <1>1, <1>2, <1>3, <1>5 DEF Kept
  <1> QED BY <1>1, <1>2, <1>3, <1>4, <1>6 DEF Written

(* The end of a heartbeat: the trailing and the save. *)
LEMMA SavedWritten ==
  ASSUME RiskAssumption, TypeOK, Frame, breached' = breached,
         NEW r, ReadFields(r) \/ r = risk, NEW q, Kept(q, r), q.limit = r.limit, q.peak = r.peak,
         Saved(q)
  PROVE  Written
  <1> DEFINE t == Trailed(q)
  <1>1. r \in Risks /\ q \in Risks /\ q.day = r.day /\ Len(q.failed) <= LossDays
    BY DEF ReadFields, TypeOK, Kept
  <1>2. /\ t \in Risks /\ t.day = q.day /\ t.hit = q.hit /\ t.failed = q.failed
        /\ t.limit >= q.limit /\ t.pnl = q.pnl /\ t.peak \in {q.peak, q.pnl}
    BY <1>1, TrailedFields
  <1>3. risk' = t /\ saved' = Stored(t)
    BY DEF Saved
  <1> HIDE DEF t
  <1>4. FileOf(saved', risk')
    BY <1>2, <1>3, StoredFields DEF FileOf
  <1>5. Kept(risk', r)
    BY <1>1, <1>2, <1>3 DEF Kept
  <1> QED BY <1>1, <1>4, <1>5 DEF Written

(* What a call does to the memory alone keeps its day, limit and profit.   *)
LEMMA InMemoryKept ==
  ASSUME RiskAssumption, TypeOK
  PROVE  /\ Kept(Noted, risk) /\ Noted.limit = risk.limit /\ Noted.peak = risk.peak
         /\ Kept(Cooled(risk), risk)
         /\ Cooled(risk).limit = risk.limit /\ Cooled(risk).peak = risk.peak
  <1>1. /\ risk \in Risks /\ Len(risk.failed) <= LossDays /\ today \in Nat
        /\ risk.limit \in Int
    BY DEF TypeOK, Risks, RiskAssumption
  <1>2. NextMonday(today) \in Nat
    BY <1>1 DEF NextMonday, Weekday
  <1>3. /\ Noted \in Risks /\ Noted.day = risk.day /\ Noted.hit = risk.hit
        /\ Noted.limit = risk.limit /\ Noted.peak = risk.peak /\ Noted.pnl = risk.pnl
        /\ Len(Noted.failed) <= LossDays
    BY <1>1, NotedFields DEF Noted
  <1> DEFINE q == Cooled(risk)
  <1>4. /\ q \in Risks /\ q.day = risk.day /\ q.hit = risk.hit
        /\ q.limit = risk.limit /\ q.peak = risk.peak /\ q.pnl = risk.pnl
        /\ q.failed = risk.failed
    <2>1. CASE InARow(risk.failed)
      <3>1. q = [risk EXCEPT !.until = NextMonday(today)]
        BY <2>1 DEF Cooled
      <3> QED BY <1>1, <1>2, <3>1 DEF Risks
    <2>2. CASE ~InARow(risk.failed)
      BY <1>1, <2>2 DEF Cooled
    <2> QED BY <2>1, <2>2
  <1>5. Kept(Noted, risk)
    BY <1>1, <1>3 DEF Kept
  <1> HIDE DEF q
  <1>6. Kept(q, risk)
    BY <1>1, <1>4 DEF Kept
  <1> QED BY <1>3, <1>4, <1>5, <1>6 DEF q

LEMMA Remembering ==
  ASSUME RiskAssumption, TypeOK, [Next]_vars
  PROVE  Remembers
  <1> USE DEF calendar, broker, orders, process, counters, history
  <1>1. CASE UNCHANGED vars
    BY <1>1 DEF vars, Remembers, Aside
  <1>2. CASE NewDay
    BY <1>2 DEF NewDay, Remembers, Aside
  <1>3. CASE Opens \/ Closes \/ PnlMoves \/ EntrySent \/ EntryFills \/ ManualTrade \/ ExitSent
             \/ ExitFills \/ Crash
    BY <1>3 DEF Opens, Closes, PnlMoves, EntrySent, EntryFills, ManualTrade, ExitSent,
                ExitFills, Crash, Remembers, Aside
  <1>4. CASE Start
    BY <1>4 DEF Start, Remembers, Restarted, Frame
  <1>5. ASSUME NEW by \in Beats, HeartbeatBreaches(by) PROVE Remembers
    BY <1>5, BeatRead, BreachWritten DEF HeartbeatBreaches, Remembers
  <1>6. ASSUME NEW by \in Beats, HeartbeatFlattens(by) PROVE Remembers
    <2> DEFINE r == Beat("rows")
               q == [r EXCEPT !.forced = TRUE]
    <2>1. ReadFields(r)
      BY BeatRead
    <2>2. r \in Risks /\ r.limit \in Int /\ Len(r.failed) <= LossDays
      BY <2>1 DEF ReadFields, TypeOK, Risks
    <2>3. risk' = q /\ saved' = Stored(q) /\ Frame /\ breached' = breached
      BY <1>6 DEF HeartbeatFlattens, Frame
    <2> HIDE DEF r
    <2>4. /\ q \in Risks /\ q.day = r.day /\ q.hit = r.hit /\ q.limit = r.limit
          /\ q.peak = r.peak /\ q.pnl = r.pnl /\ q.failed = r.failed
      BY <2>2 DEF Risks
    <2> HIDE DEF q
    <2>5. Kept(risk', r)
      BY <2>2, <2>3, <2>4 DEF Kept
    <2>6. FileOf(saved', risk')
      BY <2>3, <2>4, StoredFields DEF FileOf
    <2> QED BY <2>1, <2>2, <2>3, <2>5, <2>6 DEF Remembers, Written
  <1>7. CASE HeartbeatWatches
    <2>1. PICK view \in Views :
            LET r == Beat(view)
                after == view = "rows" /\ r.hit
            IN  Saved([r EXCEPT !.forced = @ /\ ~(after /\ ~Live)])
      BY <1>7 DEF HeartbeatWatches
    <2> DEFINE r == Beat(view)
               forced == r.forced /\ ~(view = "rows" /\ r.hit /\ ~Live)
               q == [r EXCEPT !.forced = forced]
    <2>2. ReadFields(r)
      BY BeatRead
    <2>3. r \in Risks /\ r.limit \in Int /\ Len(r.failed) <= LossDays
      BY <2>2 DEF ReadFields, TypeOK, Risks
    <2>4. Saved(q) /\ Frame /\ breached' = breached
      <3>1. Frame /\ breached' = breached
        BY <1>7 DEF HeartbeatWatches, Frame
      <3>2. Saved(q)
        BY <2>1
      <3> QED BY <3>1, <3>2
    <2> HIDE DEF r
    <2>5. forced \in BOOLEAN
      OBVIOUS
    <2> HIDE DEF forced
    <2>6. /\ q \in Risks /\ q.day = r.day /\ q.hit = r.hit /\ q.limit = r.limit
          /\ q.peak = r.peak /\ q.pnl = r.pnl /\ q.failed = r.failed
      BY <2>3, <2>5 DEF Risks
    <2> HIDE DEF q
    <2>7. Kept(q, r)
      BY <2>3, <2>6 DEF Kept
    <2> QED BY <2>2, <2>4, <2>6, <2>7, SavedWritten DEF Remembers
  <1>8. CASE GateBlocks \/ GateAllows
    <2>1. PICK view \in Views : Answered(Gate(view))
      BY <1>8 DEF GateBlocks, GateAllows
    <2>2. ReadFields(Gate(view))
      BY GateRead
    <2>3. risk' = Gate(view)
      BY <2>1 DEF Answered
    <2>4. Frame /\ breached' = breached
          /\ saved' = IF risk.day = today THEN saved ELSE Stored(Reset(risk, today))
      BY <2>1 DEF Answered, Frame
    <2> QED BY <2>2, <2>3, <2>4 DEF Remembers, ReadOnly
  <1>9. CASE GateBreaches
    <2>1. PICK view \in Views : Breach(Gate(view), "gate")
      BY <1>9 DEF GateBreaches
    <2> QED BY <2>1, GateRead, BreachWritten DEF Remembers
  <1>10. CASE RouteExit \/ RouteFails
    <2>1. Frame /\ risk' = Noted /\ saved' = saved /\ breached' = breached
      BY <1>10 DEF RouteExit, RouteFails, Frame
    <2> QED BY <2>1, InMemoryKept DEF Remembers, InMemory
  <1>11. CASE CleanUp
    <2>1. Frame /\ risk' = Cooled(risk) /\ saved' = saved /\ breached' = breached
      BY <1>11 DEF CleanUp, Frame
    <2> QED BY <2>1, InMemoryKept DEF Remembers, InMemory
  <1>12. CASE FinishHeartbeat
    <2>1. Saved(risk) /\ Frame /\ breached' = breached
      BY <1>12 DEF FinishHeartbeat, Frame
    <2>2. Kept(risk, risk)
      BY DEF Kept, TypeOK, Risks
    <2> QED BY <2>1, <2>2, SavedWritten DEF Remembers
  <1> QED BY <1>1, <1>2, <1>3, <1>4, <1>5, <1>6, <1>7, <1>8, <1>9, <1>10, <1>11, <1>12
          DEF Next, Manager

-----------------------------------------------------------------------------
(* Type correctness: the memory and the file from the lemma above, the     *)
(* rest from each action.                                                  *)
MemoryTypeOK ==
  /\ risk \in Risks /\ Len(risk.failed) <= LossDays
  /\ saved \in Risks /\ Len(saved.failed) <= LossDays

CalendarTypeOK ==
  /\ today \in Days /\ session \in {"before", "open", "after"}
  /\ breached \in BOOLEAN /\ asked \in BOOLEAN /\ paused \in Nat /\ realPeak \in Nat

BrokerTypeOK ==
  /\ lots \in 0 .. MaxLots /\ listed \in BOOLEAN /\ pnl \in Pnls
  /\ ticket \in {"none", "allowed", "open"}
  /\ exit \in [at : {"none", "created", "open"}, lots : 0 .. MaxLots]

ProcessTypeOK ==
  /\ at \in [doing : {"nothing", "dead", "breach", "flatten", "cleanup", "finish"},
             by : {"nobody", "gate"} \union Beats]
  /\ manual \in 0 .. MaxManual /\ crashes \in 0 .. MaxCrashes

LEMMA TypeParts ==
  TypeOK <=> MemoryTypeOK /\ CalendarTypeOK /\ BrokerTypeOK /\ ProcessTypeOK
  BY DEF TypeOK, MemoryTypeOK, CalendarTypeOK, BrokerTypeOK, ProcessTypeOK

LEMMA MemoryType ==
  ASSUME RiskAssumption, TypeOK, Remembers, today' \in Days
  PROVE  MemoryTypeOK'
  <1>1. MemoryTypeOK /\ today \in Days
    BY DEF TypeOK, MemoryTypeOK
  <1>2. CASE Aside
    BY <1>1, <1>2 DEF Aside, MemoryTypeOK
  <1>3. CASE Restarted
    <2>1. /\ Fresh(today) \in Risks /\ Fresh(today).failed = <<>>
      BY <1>1, FreshFields
    <2>2. Len(<<>>) <= LossDays
      BY DEF RiskAssumption
    <2> QED BY <1>1, <1>3, <2>1, <2>2 DEF Restarted, Loaded, MemoryTypeOK
  <1>4. CASE InMemory
    BY <1>1, <1>4 DEF InMemory, Kept, MemoryTypeOK
  <1>5. CASE Written
    BY <1>1, <1>5 DEF Written, Kept, FileOf, MemoryTypeOK
  <1>6. CASE ReadOnly
    <2>1. risk' \in Risks /\ Len(risk'.failed) <= LossDays
      BY <1>1, <1>6 DEF ReadOnly, ReadFields, MemoryTypeOK
    <2>2. Reset(risk, today) \in Risks /\ Reset(risk, today).failed = risk.failed
      BY <1>1, ResetFields DEF MemoryTypeOK
    <2>3. /\ Stored(Reset(risk, today)) \in Risks
          /\ Stored(Reset(risk, today)).failed = risk.failed
      BY <2>2, StoredFields
    <2> QED BY <1>1, <1>6, <2>1, <2>3 DEF ReadOnly, MemoryTypeOK
  <1> QED BY <1>2, <1>3, <1>4, <1>5, <1>6 DEF Remembers

LEMMA CalendarType ==
  ASSUME RiskAssumption, TypeOK, [Next]_vars
  PROVE  CalendarTypeOK'
  <1> USE DEF calendar, broker, orders, process, counters, history, CalendarTypeOK
  <1>1. CalendarTypeOK /\ pnl \in Pnls /\ today \in Nat
    BY DEF TypeOK, RiskAssumption
  <1>2. CASE UNCHANGED vars
    BY <1>1, <1>2 DEF vars
  <1>3. CASE NewDay
    <2>1. today' \in Days /\ session' = "before" /\ paused' = paused
          /\ breached' = FALSE /\ asked' = FALSE
      BY <1>3 DEF NewDay
    <2>2. pnl' \in Int
      BY <1>1, <1>3 DEF NewDay, RiskAssumption
    <2>3. realPeak' = IF Live /\ pnl' > 0 THEN pnl' ELSE 0
      BY <1>3 DEF NewDay
    <2>4. realPeak' \in Nat
      BY <2>2, <2>3
    <2> QED BY <1>1, <2>1, <2>4
  <1>4. CASE PnlMoves
    <2>1. pnl' \in Int
      BY <1>4 DEF PnlMoves, RiskAssumption
    <2>2. realPeak' \in Nat
      BY <1>1, <1>4, <2>1 DEF PnlMoves, Better
    <2> QED BY <1>1, <1>4, <2>2 DEF PnlMoves
  <1>5. CASE CleanUp
    <2>1. NextMonday(today) \in Nat
      BY <1>1 DEF NextMonday, Weekday
    <2> QED BY <1>1, <1>5, <2>1 DEF CleanUp
  <1>6. CASE Opens \/ Closes \/ EntrySent \/ EntryFills \/ ManualTrade \/ ExitSent \/ ExitFills
             \/ Crash \/ Start
    BY <1>1, <1>6 DEF Opens, Closes, EntrySent, EntryFills, ManualTrade, ExitSent, ExitFills,
                      Crash, Start
  <1>7. ASSUME NEW by \in Beats, HeartbeatBreaches(by) \/ HeartbeatFlattens(by)
        PROVE CalendarTypeOK'
    BY <1>1, <1>7 DEF HeartbeatBreaches, HeartbeatFlattens, Breach
  <1>8. CASE HeartbeatWatches \/ FinishHeartbeat
    BY <1>1, <1>8 DEF HeartbeatWatches, FinishHeartbeat
  <1>9. CASE GateBlocks \/ GateBreaches \/ GateAllows
    BY <1>1, <1>9 DEF GateBlocks, GateBreaches, GateAllows, Answered, Breach
  <1>10. CASE RouteExit \/ RouteFails
    <2>1. asked' \in BOOLEAN
      BY <1>1, <1>10 DEF RouteExit, RouteFails
    <2> QED BY <1>1, <1>10, <2>1 DEF RouteExit, RouteFails
  <1> QED BY <1>2, <1>3, <1>4, <1>5, <1>6, <1>7, <1>8, <1>9, <1>10 DEF Next, Manager

LEMMA BrokerType ==
  ASSUME RiskAssumption, TypeOK, [Next]_vars
  PROVE  BrokerTypeOK'
  <1> USE DEF calendar, broker, orders, process, counters, history, BrokerTypeOK
  <1> DEFINE none == [at |-> "none", lots |-> 0]
  <1>1. BrokerTypeOK /\ MaxLots \in Nat /\ 0 \in Pnls /\ 0 \in 0 .. MaxLots
    BY DEF TypeOK, RiskAssumption
  <1>2. none \in [at : {"none", "created", "open"}, lots : 0 .. MaxLots]
    BY <1>1
  <1>3. CASE UNCHANGED vars
    BY <1>1, <1>3 DEF vars
  <1>4. CASE NewDay
    <2>1. exit' \in {exit, none} /\ ticket' \in {ticket, "none"}
      BY <1>4 DEF NewDay
    <2>2. pnl' \in Pnls /\ UNCHANGED <<lots, listed>>
      BY <1>1, <1>4 DEF NewDay
    <2> HIDE DEF none
    <2> QED BY <1>1, <1>2, <2>1, <2>2
  <1>5. CASE Opens \/ Closes \/ PnlMoves
    <2>1. pnl' \in Pnls /\ UNCHANGED <<lots, ticket, exit>>
      BY <1>1, <1>5 DEF Opens, Closes, PnlMoves
    <2>2. Live \in BOOLEAN
      BY DEF Live
    <2>3. listed' \in BOOLEAN
      BY <1>1, <1>5, <2>2 DEF Opens, Closes, PnlMoves
    <2> QED BY <1>1, <2>1, <2>3
  <1>6. CASE EntrySent \/ EntryFills \/ ManualTrade
    <2>1. lots' \in {lots, lots + 1} /\ (lots' # lots => lots < MaxLots)
      BY <1>6 DEF EntrySent, EntryFills, ManualTrade
    <2>2. lots' \in 0 .. MaxLots
      BY <1>1, <2>1
    <2>3. /\ listed' \in {listed, TRUE} /\ ticket' \in {ticket, "open", "none"}
          /\ UNCHANGED <<pnl, exit>>
      BY <1>6 DEF EntrySent, EntryFills, ManualTrade
    <2> QED BY <1>1, <2>2, <2>3
  <1>7. CASE ExitSent
    BY <1>1, <1>7 DEF ExitSent
  <1>8. CASE ExitFills
    <2>1. lots' \in 0 .. MaxLots
      BY <1>1, <1>8 DEF ExitFills
    <2>2. exit' = none /\ UNCHANGED <<listed, pnl, ticket>>
      BY <1>8 DEF ExitFills
    <2> HIDE DEF none
    <2> QED BY <1>1, <1>2, <2>1, <2>2
  <1>9. ASSUME CancelPending, UNCHANGED broker PROVE BrokerTypeOK'
    <2>1. exit' \in {exit, none} /\ ticket' \in {ticket, "none"}
      BY <1>9 DEF CancelPending
    <2> HIDE DEF none
    <2> QED BY <1>1, <1>2, <1>9, <2>1
  <1>10. CASE Crash \/ Start \/ FinishHeartbeat
    BY <1>1, <1>10 DEF Crash, Dies, Start, FinishHeartbeat
  <1>11. ASSUME NEW by \in Beats, HeartbeatBreaches(by) PROVE BrokerTypeOK'
    BY <1>1, <1>11 DEF HeartbeatBreaches, Breach
  <1>12. ASSUME NEW by \in Beats, HeartbeatFlattens(by) PROVE BrokerTypeOK'
    BY <1>9, <1>12 DEF HeartbeatFlattens
  <1>13. CASE HeartbeatWatches
    <2>1. UNCHANGED broker /\ (CancelPending \/ UNCHANGED orders)
      BY <1>13 DEF HeartbeatWatches
    <2> QED BY <1>1, <1>9, <2>1
  <1>14. CASE GateBlocks \/ GateBreaches \/ GateAllows
    BY <1>1, <1>14 DEF GateBlocks, GateBreaches, GateAllows, Answered, Breach
  <1>15. CASE RouteExit
    <2>1. exit' \in {exit, [at |-> "created", lots |-> lots]} /\ UNCHANGED <<broker, ticket>>
      BY <1>15 DEF RouteExit
    <2>2. [at |-> "created", lots |-> lots] \in [at : {"none", "created", "open"}, lots : 0 .. MaxLots]
      BY <1>1
    <2> QED BY <1>1, <2>1, <2>2
  <1>16. CASE RouteFails
    BY <1>1, <1>16 DEF RouteFails, Dies
  <1>17. CASE CleanUp
    BY <1>9, <1>17 DEF CleanUp
  <1> QED BY <1>3, <1>4, <1>5, <1>6, <1>7, <1>8, <1>10, <1>11, <1>12, <1>13, <1>14, <1>15, <1>16,
             <1>17 DEF Next, Manager

LEMMA ProcessType ==
  ASSUME RiskAssumption, TypeOK, [Next]_vars
  PROVE  ProcessTypeOK'
  <1> USE DEF calendar, broker, orders, process, counters, history, ProcessTypeOK, Up, Down, Call
  <1>1. ProcessTypeOK /\ MaxManual \in Nat /\ MaxCrashes \in Nat
    BY DEF TypeOK, RiskAssumption
  <1>2. CASE UNCHANGED vars
    BY <1>1, <1>2 DEF vars
  <1>3. CASE NewDay \/ Opens \/ Closes \/ PnlMoves \/ EntrySent \/ EntryFills \/ ExitSent \/ ExitFills
    BY <1>1, <1>3 DEF NewDay, Opens, Closes, PnlMoves, EntrySent, EntryFills, ExitSent, ExitFills
  <1>4. CASE ManualTrade
    BY <1>1, <1>4 DEF ManualTrade
  <1>5. CASE Crash \/ RouteFails
    BY <1>1, <1>5 DEF Crash, RouteFails, Dies
  <1>6. CASE Start
    BY <1>1, <1>6 DEF Start
  <1>7. ASSUME NEW by \in Beats, HeartbeatBreaches(by) \/ HeartbeatFlattens(by)
        PROVE ProcessTypeOK'
    <2>1. at' \in {[doing |-> "breach", by |-> by], [doing |-> "flatten", by |-> by]}
      BY <1>7 DEF HeartbeatBreaches, HeartbeatFlattens, Breach
    <2>2. UNCHANGED counters
      BY <1>7 DEF HeartbeatBreaches, HeartbeatFlattens, Breach
    <2> QED BY <1>1, <1>7, <2>1, <2>2
  <1>8. CASE HeartbeatWatches \/ FinishHeartbeat
    <2>1. \E r : Saved(r)
      BY <1>8 DEF HeartbeatWatches, FinishHeartbeat
    <2>2. at' = Up
      BY <2>1 DEF Saved
    <2>3. UNCHANGED counters
      BY <1>8 DEF HeartbeatWatches, FinishHeartbeat
    <2> QED BY <1>1, <2>2, <2>3
  <1>9. CASE GateBlocks \/ GateAllows
    BY <1>1, <1>9 DEF GateBlocks, GateAllows, Answered
  <1>10. CASE GateBreaches
    BY <1>1, <1>10 DEF GateBreaches, Breach
  <1>11. CASE RouteExit
    BY <1>1, <1>11 DEF RouteExit
  <1>12. CASE CleanUp
    <2>1. at' \in {Up, [at EXCEPT !.doing = "finish"]} /\ UNCHANGED counters
      BY <1>12 DEF CleanUp
    <2> QED BY <1>1, <2>1
  <1> QED BY <1>2, <1>3, <1>4, <1>5, <1>6, <1>7, <1>8, <1>9, <1>10, <1>11, <1>12 DEF Next, Manager

LEMMA TypeInit == ASSUME RiskAssumption, Init PROVE TypeOK
  <1>1. today \in Days /\ Fresh(today) \in Risks /\ Fresh(today).failed = <<>>
    BY FreshFields DEF Init
  <1>2. Len(<<>>) <= LossDays
    BY DEF RiskAssumption
  <1>3. risk = Fresh(today) /\ saved = Fresh(today)
    BY DEF Init
  <1>4. MemoryTypeOK
    BY <1>1, <1>2, <1>3 DEF MemoryTypeOK
  <1>5. CalendarTypeOK
    BY DEF Init, CalendarTypeOK
  <1>6. BrokerTypeOK
    <2>1. 0 \in 0 .. MaxLots /\ 0 \in Pnls
      BY DEF RiskAssumption
    <2>2. /\ lots = 0 /\ listed = FALSE /\ pnl = 0 /\ ticket = "none"
          /\ exit = [at |-> "none", lots |-> 0]
      BY DEF Init
    <2> QED BY <2>1, <2>2 DEF BrokerTypeOK
  <1>7. ProcessTypeOK
    BY DEF Init, RiskAssumption, ProcessTypeOK, Up, Call
  <1> QED BY <1>4, <1>5, <1>6, <1>7, TypeParts

LEMMA TypeNext == ASSUME RiskAssumption, TypeOK, [Next]_vars PROVE TypeOK'
  <1>1. CalendarTypeOK' /\ BrokerTypeOK' /\ ProcessTypeOK'
    BY CalendarType, BrokerType, ProcessType
  <1>2. MemoryTypeOK'
    BY <1>1, MemoryType, Remembering DEF CalendarTypeOK
  <1> QED BY <1>1, <1>2 DEF TypeOK, MemoryTypeOK, CalendarTypeOK, BrokerTypeOK, ProcessTypeOK

(* The memory, the file and the process keep their types, and the deque of *)
(* loss days its bound.                                                    *)
THEOREM RiskTypeCorrect == Spec => []TypeOK
  BY RiskAssumption, TypeInit, TypeNext, PTL DEF Spec

-----------------------------------------------------------------------------
(* The flag of a breach is in the memory and in the file for the rest of   *)
(* the day: a dead process finds it again.                                 *)
BreachInv ==
  /\ TypeOK
  /\ breached => /\ risk.day = today /\ risk.hit
                 /\ saved.day = today /\ saved.hit

LEMMA BreachInit == ASSUME RiskAssumption, Init PROVE BreachInv
  BY TypeInit DEF BreachInv, Init

LEMMA BreachNext == ASSUME RiskAssumption, BreachInv, [Next]_vars PROVE BreachInv'
  <1>1. TypeOK /\ TypeOK' /\ Remembers
    BY TypeNext, Remembering DEF BreachInv
  <1>2. SUFFICES ASSUME breached' PROVE /\ risk'.day = today' /\ risk'.hit
                                       /\ saved'.day = today' /\ saved'.hit
    BY <1>1 DEF BreachInv
  <1>3. CASE Aside
    BY <1>2, <1>3 DEF Aside, BreachInv
  <1>4. CASE Restarted
    BY <1>2, <1>4 DEF Restarted, Frame, Loaded, BreachInv
  <1>5. CASE InMemory
    BY <1>2, <1>5 DEF InMemory, Frame, Kept, BreachInv
  <1>6. CASE Written
    <2>1. PICK r \in Risks : (ReadFields(r) \/ r = risk) /\ Kept(risk', r)
      BY <1>6 DEF Written
    <2>2. today' = today /\ FileOf(saved', risk') /\ (breached \/ (risk'.hit /\ risk'.day = today))
      BY <1>2, <1>6 DEF Written, Frame
    <2>3. risk'.hit /\ risk'.day = today
      BY <2>1, <2>2 DEF ReadFields, Kept, BreachInv
    <2> QED BY <2>2, <2>3 DEF FileOf
  <1>7. CASE ReadOnly
    BY <1>2, <1>7 DEF ReadOnly, Frame, ReadFields, BreachInv
  <1> QED BY <1>1, <1>3, <1>4, <1>5, <1>6, <1>7 DEF Remembers

LEMMA GateAsks ==
  ASSUME RiskAssumption, BreachInv, [Next]_vars, ticket' = "allowed", ticket # "allowed"
  PROVE  GateAllows
  <1> USE DEF calendar, broker, orders, process, counters, history
  <1>1. CASE UNCHANGED vars
    BY <1>1 DEF vars
  <1>2. CASE NewDay \/ Opens \/ Closes \/ PnlMoves \/ EntrySent \/ EntryFills \/ ManualTrade
             \/ ExitSent \/ ExitFills \/ Crash \/ Start
    BY <1>2 DEF NewDay, Opens, Closes, PnlMoves, EntrySent, EntryFills, ManualTrade, ExitSent,
                ExitFills, Crash, Dies, Start
  <1>3. CASE CleanUp \/ RouteExit \/ RouteFails \/ FinishHeartbeat
    BY <1>3 DEF CleanUp, CancelPending, RouteExit, RouteFails, Dies, FinishHeartbeat
  <1>4. ASSUME NEW by \in Beats, HeartbeatBreaches(by) \/ HeartbeatFlattens(by) PROVE FALSE
    BY <1>4 DEF HeartbeatBreaches, HeartbeatFlattens, Breach, CancelPending
  <1>5. CASE HeartbeatWatches
    <2>1. CancelPending \/ UNCHANGED orders
      BY <1>5 DEF HeartbeatWatches
    <2> QED BY <2>1 DEF CancelPending
  <1>6. CASE GateBlocks \/ GateBreaches
    BY <1>6 DEF GateBlocks, GateBreaches, Breach
  <1> QED BY <1>1, <1>2, <1>3, <1>4, <1>5, <1>6 DEF Next, Manager

(* After a breach no entry is let through on that day.                     *)
THEOREM BreachBlocksEntries == Spec => NoEntryAfterBreach
  <1>1. ASSUME RiskAssumption, BreachInv, [Next]_vars,
               ticket' = "allowed", ticket # "allowed", breached
        PROVE  FALSE
    <2>1. PICK view \in Views : ~Blocked(Gate(view))
      BY <1>1, GateAsks DEF GateAllows
    <2>2. ReadFields(Gate(view)) /\ risk.day = today /\ risk.hit
      BY <1>1, GateRead DEF BreachInv
    <2> QED BY <2>1, <2>2 DEF ReadFields, Blocked
  <1>2. ASSUME RiskAssumption, BreachInv, [Next]_vars
        PROVE  [ticket' = "allowed" /\ ticket # "allowed" => ~breached]_vars
    BY <1>1, <1>2
  <1> QED BY <1>2, RiskAssumption, BreachInit, BreachNext, PTL DEF Spec, NoEntryAfterBreach

-----------------------------------------------------------------------------
(* A file of the memory's day has its limit; otherwise the limit is the    *)
(* one a new manager starts with.                                          *)
LimitInv ==
  /\ TypeOK
  /\ IF saved.day = risk.day THEN saved.limit = risk.limit ELSE risk.limit = Base

LEMMA LimitInit == ASSUME RiskAssumption, Init PROVE LimitInv
  BY TypeInit DEF LimitInv, Init

LEMMA LimitNext == ASSUME RiskAssumption, LimitInv, [Next]_vars PROVE LimitInv'
  <1>1. TypeOK /\ TypeOK' /\ Remembers /\ risk \in Risks /\ today \in Days
    BY TypeNext, Remembering DEF LimitInv, TypeOK
  <1>2. CASE Aside
    BY <1>1, <1>2 DEF Aside, LimitInv
  <1>3. CASE Restarted
    BY <1>1, <1>3, FreshFields DEF Restarted, Frame, Loaded, LimitInv
  <1>4. CASE InMemory
    BY <1>1, <1>4 DEF InMemory, Kept, LimitInv
  <1>5. CASE Written
    BY <1>1, <1>5 DEF Written, FileOf, LimitInv
  <1>6. CASE ReadOnly
    <2>1. /\ Reset(risk, today) \in Risks /\ Reset(risk, today).day = today
          /\ Reset(risk, today).limit = Base
      BY <1>1, ResetFields
    <2>2. /\ Stored(Reset(risk, today)).day = today
          /\ Stored(Reset(risk, today)).limit = Base
      BY <2>1, StoredFields
    <2> QED BY <1>1, <1>6, <2>2 DEF ReadOnly, ReadFields, LimitInv
  <1> QED BY <1>1, <1>2, <1>3, <1>4, <1>5, <1>6 DEF Remembers

LEMMA LimitStep ==
  ASSUME RiskAssumption, LimitInv, [Next]_vars, risk'.day = risk.day
  PROVE  risk'.limit >= risk.limit
  <1>1. TypeOK /\ Remembers /\ risk \in Risks /\ today \in Days /\ risk.limit \in Int
    BY Remembering DEF LimitInv, TypeOK, Risks
  <1>2. CASE Aside \/ InMemory
    BY <1>1, <1>2 DEF Aside, InMemory, Kept
  <1>3. CASE Restarted
    BY <1>1, <1>3, FreshFields DEF Restarted, Loaded, LimitInv
  <1>4. CASE Written
    <2>1. PICK r \in Risks : (ReadFields(r) \/ r = risk) /\ Kept(risk', r)
      BY <1>4 DEF Written
    <2> QED BY <1>1, <2>1 DEF ReadFields, Kept
  <1>5. CASE ReadOnly
    BY <1>1, <1>5 DEF ReadOnly, ReadFields
  <1> QED BY <1>1, <1>2, <1>3, <1>4, <1>5 DEF Remembers

(* In one day the limit is only tightened, over restarts too.              *)
THEOREM LimitRatchets == Spec => LimitNeverLoosens
  <1>1. ASSUME RiskAssumption, LimitInv, [Next]_vars
        PROVE  [risk'.day = risk.day => risk'.limit >= risk.limit]_vars
    BY <1>1, LimitStep
  <1> QED BY <1>1, RiskAssumption, LimitInit, LimitNext, PTL DEF Spec, LimitNeverLoosens

-----------------------------------------------------------------------------
(* Results that are seen are today's.  Only what the broker shows before   *)
(* the market opens of positions that are flat may be better than today's  *)
(* best result; the manager has no day that is still to come.              *)
Shown == pnl <= realPeak \/ (session = "before" /\ ~Live)

PeakInv ==
  /\ TypeOK /\ Shown
  /\ risk.day <= today /\ saved.day <= today
  /\ risk.day = today => risk.peak <= realPeak /\ risk.pnl <= realPeak
  /\ saved.day = today => saved.peak <= realPeak /\ saved.pnl <= realPeak

LEMMA Numbers ==
  ASSUME RiskAssumption, TypeOK
  PROVE  /\ today \in Int /\ pnl \in Int /\ realPeak \in Nat /\ lots \in Int
         /\ risk.day \in Int /\ risk.peak \in Int /\ risk.pnl \in Int
         /\ saved.day \in Int /\ saved.peak \in Int /\ saved.pnl \in Int
  <1>1. risk \in Risks /\ saved \in Risks
    BY DEF TypeOK
  <1>2. /\ risk.day \in Days /\ risk.peak \in Int /\ risk.pnl \in Pnls
        /\ saved.day \in Days /\ saved.peak \in Int /\ saved.pnl \in Pnls
    BY <1>1 DEF Risks
  <1>3. today \in Days /\ pnl \in Pnls /\ realPeak \in Nat /\ lots \in 0 .. MaxLots
    BY DEF TypeOK
  <1>4. Days \subseteq Int /\ Pnls \subseteq Int /\ 0 .. MaxLots \subseteq Int
    BY DEF RiskAssumption
  <1> QED BY <1>2, <1>3, <1>4

LEMMA PeakInit == ASSUME RiskAssumption, Init PROVE PeakInv
  <1>1. TypeOK
    BY TypeInit
  <1>2. /\ risk = Fresh(today) /\ saved = Fresh(today) /\ today \in Days
        /\ pnl = 0 /\ realPeak = 0
    BY DEF Init
  <1>3. Fresh(today).day = today /\ Fresh(today).peak = 0 /\ Fresh(today).pnl = 0
    BY <1>2, FreshFields
  <1> QED BY <1>1, <1>2, <1>3, Numbers DEF PeakInv, Shown

(* The day's best result only grows until the next day, ...                *)
LEMMA PeakOfTheDay ==
  ASSUME RiskAssumption, PeakInv, [Next]_vars
  PROVE  /\ Shown'
         /\ \/ today' = today /\ realPeak' >= realPeak
            \/ today' > today /\ UNCHANGED <<risk, saved>>
  <1> USE DEF calendar, broker, orders, process, counters, history, Live
  <1>1. TypeOK /\ TypeOK' /\ Shown
    BY TypeNext DEF PeakInv
  <1>2. /\ today \in Int /\ pnl \in Int /\ realPeak \in Nat /\ lots \in Int
        /\ today' \in Int /\ pnl' \in Int /\ realPeak' \in Nat /\ lots' \in Int
    BY <1>1 DEF TypeOK, RiskAssumption
  <1>3. CASE UNCHANGED <<today, session, lots, pnl, realPeak>>
    BY <1>1, <1>2, <1>3 DEF Shown
  <1>4. CASE NewDay
    <2>1. /\ today' > today /\ UNCHANGED <<risk, saved, lots>> /\ session' = "before"
          /\ realPeak' = IF Live /\ pnl' > 0 THEN pnl' ELSE 0
      BY <1>4 DEF NewDay
    <2> QED BY <1>2, <2>1 DEF Shown
  <1>5. CASE Opens
    BY <1>1, <1>2, <1>5 DEF Opens, Shown
  <1>6. CASE Closes
    BY <1>1, <1>2, <1>6 DEF Closes, Shown
  <1>7. CASE PnlMoves
    BY <1>1, <1>2, <1>7 DEF PnlMoves, Better, Shown
  <1>8. CASE EntryFills \/ ManualTrade \/ ExitFills
    BY <1>1, <1>2, <1>8 DEF EntryFills, ManualTrade, ExitFills, Shown
  <1>9. CASE EntrySent \/ ExitSent \/ Crash \/ Start \/ CleanUp \/ RouteExit \/ RouteFails
             \/ FinishHeartbeat \/ UNCHANGED vars
    BY <1>3, <1>9 DEF EntrySent, ExitSent, Crash, Start, CleanUp, RouteExit, RouteFails,
                      FinishHeartbeat, vars
  <1>10. ASSUME NEW by \in Beats, HeartbeatBreaches(by) \/ HeartbeatFlattens(by)
         PROVE  UNCHANGED <<today, session, lots, pnl, realPeak>>
    BY <1>10 DEF HeartbeatBreaches, HeartbeatFlattens, Breach
  <1>11. CASE HeartbeatWatches \/ GateBlocks \/ GateBreaches \/ GateAllows
    BY <1>3, <1>11 DEF HeartbeatWatches, GateBlocks, GateBreaches, GateAllows, Answered, Breach
  <1> QED BY <1>3, <1>4, <1>5, <1>6, <1>7, <1>8, <1>9, <1>10, <1>11 DEF Next, Manager

(* ... and what a call reads is not better than it.                        *)
LEMMA ReadIsReal ==
  ASSUME RiskAssumption, PeakInv, NEW r, ReadFields(r)
  PROVE  r.day = today /\ r.peak <= realPeak /\ r.pnl <= realPeak
  <1>1. TypeOK /\ Shown
    BY DEF PeakInv
  <1>2. ~Unusable(risk, "rows") => pnl <= realPeak
    BY <1>1, Numbers DEF Unusable, Shown
  <1> QED BY <1>1, <1>2, Numbers DEF ReadFields, PeakInv

LEMMA PeakNext == ASSUME RiskAssumption, PeakInv, [Next]_vars PROVE PeakInv'
  <1>1. TypeOK /\ TypeOK' /\ Remembers /\ risk \in Risks /\ today \in Days
    BY TypeNext, Remembering DEF PeakInv, TypeOK
  <1>2. /\ today' \in Int /\ realPeak' \in Nat /\ risk' \in Risks /\ saved' \in Risks
    BY <1>1 DEF TypeOK, RiskAssumption
  <1>3. Shown'
    BY PeakOfTheDay
  <1>4. CASE UNCHANGED <<risk, saved>>
    BY <1>1, <1>2, <1>3, <1>4, PeakOfTheDay, Numbers DEF PeakInv
  <1>5. SUFFICES ASSUME Frame
                 PROVE  /\ risk'.day <= today /\ saved'.day <= today
                        /\ risk'.day = today => risk'.peak <= realPeak /\ risk'.pnl <= realPeak
                        /\ saved'.day = today => saved'.peak <= realPeak /\ saved'.pnl <= realPeak
    BY <1>1, <1>3, <1>4 DEF Remembers, Aside, Restarted, InMemory, Written, ReadOnly, Frame, PeakInv
  <1>6. CASE Aside
    BY <1>6 DEF Aside, PeakInv
  <1>7. CASE Restarted
    <2>1. Fresh(today).day = today /\ Fresh(today).peak = 0 /\ Fresh(today).pnl = 0
      BY <1>1, FreshFields
    <2> QED BY <1>1, <1>7, <2>1, Numbers DEF Restarted, Loaded, PeakInv
  <1>8. CASE InMemory
    BY <1>1, <1>8, Numbers DEF InMemory, Kept, PeakInv
  <1>9. CASE Written
    <2>1. PICK r \in Risks : (ReadFields(r) \/ r = risk) /\ Kept(risk', r)
      BY <1>9 DEF Written
    <2>2. r.day <= today /\ (r.day = today => r.peak <= realPeak /\ r.pnl <= realPeak)
      BY <1>1, <2>1, ReadIsReal, Numbers DEF PeakInv
    <2>3. /\ risk'.day = r.day /\ risk'.peak \in {r.peak, r.pnl} /\ risk'.pnl = r.pnl
          /\ saved'.day = risk'.day /\ saved'.peak = risk'.peak /\ saved'.pnl = 0
      BY <1>9, <2>1 DEF Written, Kept, FileOf
    <2> QED BY <1>1, <2>2, <2>3, Numbers
  <1>10. CASE ReadOnly
    <2>1. /\ Reset(risk, today) \in Risks /\ Reset(risk, today).day = today
          /\ Reset(risk, today).peak = 0
      BY <1>1, ResetFields
    <2>2. /\ Stored(Reset(risk, today)).day = today /\ Stored(Reset(risk, today)).pnl = 0
          /\ Stored(Reset(risk, today)).peak = 0
      BY <2>1, StoredFields
    <2>3. risk'.day = today /\ risk'.peak <= realPeak /\ risk'.pnl <= realPeak
      BY <1>10, ReadIsReal DEF ReadOnly
    <2> QED BY <1>1, <1>10, <2>2, <2>3, Numbers DEF ReadOnly, PeakInv
  <1> QED BY <1>1, <1>6, <1>7, <1>8, <1>9, <1>10 DEF Remembers

(* The best profit the limit trails is one the positions had today.        *)
THEOREM ProfitIsReal == Spec => []PeakIsReal
  <1>1. PeakInv => PeakIsReal
    BY DEF PeakInv, PeakIsReal
  <1> QED BY <1>1, RiskAssumption, PeakInit, PeakNext, PTL DEF Spec

=============================================================================
