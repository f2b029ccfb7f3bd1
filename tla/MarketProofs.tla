---------------------------- MODULE MarketProofs ----------------------------
(* Proofs about the modules that MCMarket instantiates, for any threads,    *)
(* chains, strikes, limits and bounds.                                      *)
EXTENDS MCMarket, Sequences, FiniteSetTheorems, WellFoundedInduction, TLAPS

-----------------------------------------------------------------------------
(* BrokerLimits: a caller that has counted a bad answer may still force a   *)
(* login.  Logins and such callers together are no more than the count and  *)
(* the callers a good answer can have found there, which are not all.       *)
Counted == {c \in BotThreads : asking[c] = "counted"}

LimitsInv ==
  /\ fails \in Nat /\ logins \in Nat /\ DOMAIN asking = BotThreads
  /\ asking = [c \in BotThreads |-> asking[c]]
  /\ logins + Cardinality(Counted) <= fails + Cardinality(BotThreads) - 1
  /\ logins <= MaxFails + Cardinality(BotThreads) - 1

LEMMA CountedIsFinite == IsFiniteSet(Counted) /\ Cardinality(Counted) \in Nat
                         /\ IsFiniteSet(Counted') /\ Cardinality(Counted') \in Nat
<1>1. IsFiniteSet(Counted) /\ IsFiniteSet(Counted')
  BY LimitsAssumption, FS_Subset DEF Counted
<1> QED
  BY <1>1, FS_CardinalityType

LEMMA ThreadsAreSome == Cardinality(BotThreads) \in Nat \ {0}
  BY LimitsAssumption, FS_CardinalityType, FS_EmptySet

LEMMA OneLess == \A c \in BotThreads : Cardinality(BotThreads \ {c}) = Cardinality(BotThreads) - 1
  BY LimitsAssumption, FS_RemoveElement

LEMMA InitLimits == Limits!LimitsInit => LimitsInv
<1> SUFFICES ASSUME Limits!LimitsInit PROVE LimitsInv
  OBVIOUS
<1>1. Counted = {} /\ DOMAIN asking = BotThreads /\ asking = [c \in BotThreads |-> asking[c]]
  BY DEF Limits!LimitsInit, Counted
<1>2. Cardinality(Counted) = 0
  BY <1>1, FS_EmptySet
<1> QED
  BY <1>1, <1>2, LimitsAssumption, ThreadsAreSome DEF Limits!LimitsInit, LimitsInv

(* A step of one caller from one place to another: who has counted then.    *)
LEMMA CountedMoves ==
  ASSUME LimitsInv, NEW c \in BotThreads, NEW at, Limits!Is(c, at)
  PROVE  /\ DOMAIN asking' = BotThreads /\ asking' = [d \in BotThreads |-> asking'[d]]
         /\ Counted' = IF at = "counted" THEN Counted \cup {c} ELSE Counted \ {c}
  BY DEF LimitsInv, Limits!Is, Counted

LEMMA NextLimits == LimitsInv /\ [Limits!LimitsNext]_Limits!limitVars => LimitsInv'
<1> SUFFICES ASSUME LimitsInv, [Limits!LimitsNext]_Limits!limitVars PROVE LimitsInv'
  OBVIOUS
<1> USE LimitsAssumption, CountedIsFinite, ThreadsAreSome DEF LimitsInv
<1>1. ASSUME NEW c \in BotThreads, Limits!Bad(c) PROVE LimitsInv'
  <2>1. c \notin Counted /\ Counted' = Counted \cup {c}
    BY <1>1, CountedMoves DEF Limits!Bad, Counted
  <2>2. Cardinality(Counted') = Cardinality(Counted) + 1
    BY <2>1, FS_AddElement
  <2> QED
    BY <1>1, <2>2, CountedMoves DEF Limits!Bad
<1>2. ASSUME NEW c \in BotThreads, Limits!Decide(c) PROVE LimitsInv'
  <2>1. /\ c \in Counted /\ Counted' = Counted \ {c}
        /\ DOMAIN asking' = BotThreads /\ asking' = [d \in BotThreads |-> asking'[d]]
    <3>1. CASE Limits!Is(c, "login")
      BY <1>2, <3>1, CountedMoves DEF Limits!Decide, Counted
    <3>2. CASE Limits!Is(c, "failed")
      BY <1>2, <3>2, CountedMoves DEF Limits!Decide, Counted
    <3> QED
      BY <1>2, <3>1, <3>2 DEF Limits!Decide
  <2>2. Cardinality(Counted') = Cardinality(Counted) - 1
    BY <2>1, FS_RemoveElement
  <2>3. CASE Limits!MayLogin(fails)
    BY <1>2, <2>1, <2>2, <2>3 DEF Limits!Decide, Limits!MayLogin
  <2>4. CASE ~Limits!MayLogin(fails)
    BY <1>2, <2>1, <2>2, <2>4 DEF Limits!Decide
  <2> QED
    BY <2>3, <2>4
<1>3. ASSUME NEW c \in BotThreads, Limits!Good(c) PROVE LimitsInv'
  <2>1. c \notin Counted /\ Counted' = Counted \ {c}
    <3>1. Limits!Is(c, "idle") /\ asking[c] # "counted"
      BY <1>3 DEF Limits!Good
    <3>2. Counted' = Counted \ {c}
      BY <3>1, CountedMoves
    <3> QED
      BY <3>1, <3>2 DEF Counted
  <2>2. Counted' \subseteq BotThreads \ {c}
    BY <2>1 DEF Counted
  <2>3. Cardinality(Counted') <= Cardinality(BotThreads \ {c}) /\ IsFiniteSet(BotThreads \ {c})
    BY <2>2, FS_RemoveElement, FS_Subset
  <2>4. Cardinality(BotThreads \ {c}) = Cardinality(BotThreads) - 1
    BY OneLess
  <2> QED
    BY <1>3, <2>3, <2>4, CountedMoves DEF Limits!Good
<1>4. ASSUME NEW c \in BotThreads,
             \/ Limits!Enter(c) \/ Limits!SessionHolds(c) \/ Limits!SessionRaises(c)
             \/ Limits!LoggedIn(c) \/ Limits!BadAgain(c) \/ Limits!Failed(c) \/ Limits!Raises(c)
      PROVE  LimitsInv'
  <2>1. PICK at : Limits!Is(c, at) /\ at # "counted"
    BY <1>4 DEF Limits!Enter, Limits!SessionHolds, Limits!SessionRaises, Limits!LoggedIn,
                Limits!BadAgain, Limits!Failed, Limits!Raises
  <2>2. c \notin Counted /\ Counted' = Counted
    BY <1>4, <2>1, CountedMoves DEF Counted, Limits!Enter, Limits!SessionHolds, Limits!SessionRaises,
              Limits!LoggedIn, Limits!BadAgain, Limits!Failed, Limits!Raises
  <2>3. logins' = logins /\ fails' \in {fails, fails + 1}
    BY <1>4 DEF Limits!Enter, Limits!SessionHolds, Limits!SessionRaises, Limits!LoggedIn,
                Limits!BadAgain, Limits!Failed, Limits!Raises
  <2> QED
    BY <2>1, <2>2, <2>3, CountedMoves
<1>5. CASE Limits!Later
  BY <1>5 DEF Limits!Later, Counted
<1>6. CASE UNCHANGED Limits!limitVars
  BY <1>6 DEF Limits!limitVars, Counted
<1> QED
  BY <1>1, <1>2, <1>3, <1>4, <1>5, <1>6 DEF Limits!LimitsNext

(* However the unlocked steps of the callers mix, a good answer in the      *)
(* middle of another call included: the limit bounds the logins that        *)
(* get_limits forces between two good answers, with one for each caller     *)
(* that the good answer overtook.                                           *)
THEOREM FewLogins == Limits!LimitsSpec => []LoginsAreFew
<1>1. LimitsInv => LoginsAreFew
  <2>1. Limits!Cardinality(BotThreads) = Cardinality(BotThreads)
    BY DEF Limits!Cardinality, Cardinality
  <2> QED
    BY <2>1 DEF LimitsInv, LoginsAreFew, Limits!LoginsAreFew
<1> QED
  BY InitLimits, NextLimits, <1>1, PTL DEF Limits!LimitsSpec

-----------------------------------------------------------------------------
(* BrokerSession: an order in hand has as many empty answers behind it as  *)
(* requests, until the answer that ends it, and its attempt is the number  *)
(* of the request that comes next.                                         *)
LoggingIn == {"check", "enter", "try"}
CallFields == DOMAIN Session!NoCall

CallTypes ==
  /\ call = [t \in BotThreads |-> call[t]]
  /\ pc \in [BotThreads -> {"idle", "ensure", "wait", "validate", "send", "done"} \cup LoggingIn]
  /\ \A t \in BotThreads :
       /\ DOMAIN call[t] = CallFields
       /\ call[t].attempt \in Nat /\ call[t].sent \in Nat
       /\ call[t].unclear \in Nat /\ call[t].placed \in Nat

(* Where a call is, and the attempt it is at. *)
AttemptIsNext(t) ==
  /\ pc[t] = "ensure" => call[t].attempt = call[t].sent + 1
  /\ pc[t] \in {"wait", "validate"} => call[t].why = "session"
  /\ pc[t] \in {"wait", "validate"} \cup LoggingIn =>
       call[t].attempt = call[t].sent + (IF call[t].why = "retry" THEN 0 ELSE 1)
  /\ pc[t] = "send" => call[t].attempt = call[t].sent + 1
  /\ pc[t] \notin {"idle", "done"} => call[t].attempt <= MaxRetries

AnswersAreCounted(t) ==
  /\ call[t].sent <= call[t].unclear + 1 /\ call[t].sent <= MaxRetries
  /\ call[t].placed <= call[t].unclear + (IF call[t].result = "accepted" THEN 1 ELSE 0)
  /\ pc[t] # "done" => /\ call[t].result = "none" /\ call[t].sent <= call[t].unclear
                       /\ call[t].placed <= call[t].unclear

OrderInv(t) == call[t].op = "order" => AttemptIsNext(t) /\ AnswersAreCounted(t)
SessionInv ==
  /\ CallTypes
  /\ \A t \in BotThreads : OrderInv(t) /\ (pc[t] = "idle" => call[t].op = "none")

LEMMA InitSession == Session!Init => SessionInv
  BY SessionAssumption
  DEF Session!Init, Session!NoCall, SessionInv, CallTypes, CallFields, LoggingIn, OrderInv

(* A step of one thread leaves the calls of the others alone. *)
LEMMA OneCallMoves ==
  ASSUME SessionInv, NEW t \in BotThreads, NEW where, NEW q,
         where \in {"ensure", "wait", "validate", "send", "done"} \cup LoggingIn,
         pc' = [pc EXCEPT ![t] = where], call' = [call EXCEPT ![t] = q],
         DOMAIN q = CallFields, q.attempt \in Nat, q.sent \in Nat, q.unclear \in Nat, q.placed \in Nat,
         OrderInv(t)'
  PROVE  SessionInv'
<1>1. /\ call'[t] = q /\ pc'[t] = where
      /\ \A u \in BotThreads : u # t => call'[u] = call[u] /\ pc'[u] = pc[u]
  BY DEF SessionInv, CallTypes
<1>2. CallTypes'
  BY <1>1 DEF SessionInv, CallTypes, LoggingIn, CallFields
<1>3. ASSUME NEW u \in BotThreads PROVE (OrderInv(u) /\ (pc[u] = "idle" => call[u].op = "none"))'
  <2>1. CASE u = t
    BY <1>1, <2>1 DEF LoggingIn
  <2>2. CASE u # t
    BY <1>1, <2>2 DEF SessionInv, OrderInv, AttemptIsNext, AnswersAreCounted
  <2> QED
    BY <2>1, <2>2
<1> QED
  BY <1>2, <1>3 DEF SessionInv

(* A login that ends: the attempt it was for comes next, or is the last.    *)
LEMMA LoginEnds ==
  ASSUME SessionInv, NEW t \in BotThreads, NEW ok \in BOOLEAN, pc[t] \in LoggingIn, Session!LoginReturns(t, ok)
  PROVE  SessionInv'
<1> DEFINE retry == call[t].why = "retry"
           again == retry /\ call[t].attempt >= MaxRetries
           q == [call[t] EXCEPT !.owner = FALSE,
                                !.attempt = IF retry THEN @ + 1 ELSE @,
                                !.result = CASE ~ok -> "raised" [] ok /\ again -> "unavailable" [] OTHER -> @]
           where == IF ok /\ ~again THEN "send" ELSE "done"
<1>1. pc' = [pc EXCEPT ![t] = where] /\ call' = [call EXCEPT ![t] = q]
  BY DEF Session!LoginReturns, Session!Goto, SessionInv, CallTypes
<1>2. /\ DOMAIN q = CallFields /\ q.sent = call[t].sent /\ q.unclear = call[t].unclear
      /\ q.placed = call[t].placed /\ q.op = call[t].op /\ q.why = call[t].why
      /\ q.attempt = IF retry THEN call[t].attempt + 1 ELSE call[t].attempt
      /\ where = "send" => q.result = call[t].result
      /\ where = "done" => q.result \in {"raised", "unavailable"}
  BY DEF SessionInv, CallTypes, CallFields, Session!NoCall
<1> HIDE DEF q
<1>3. /\ DOMAIN call[t] = CallFields /\ call[t].attempt \in Nat /\ call[t].sent \in Nat
      /\ call[t].unclear \in Nat /\ call[t].placed \in Nat
      /\ OrderInv(t) /\ DOMAIN call = BotThreads /\ DOMAIN pc = BotThreads
  BY DEF SessionInv, CallTypes
<1>4. call'[t] = q /\ pc'[t] = where
  BY <1>1, <1>3
<1>5. OrderInv(t)'
  BY <1>2, <1>3, <1>4, SessionAssumption DEF OrderInv, AttemptIsNext, AnswersAreCounted, LoggingIn
<1>6. q.attempt \in Nat /\ where \in {"send", "done"}
  BY <1>2, <1>3
<1> HIDE DEF where
<1> QED
  BY <1>1, <1>2, <1>3, <1>5, <1>6, OneCallMoves

LEMMA CallFacts ==
  ASSUME SessionInv, NEW t \in BotThreads
  PROVE  /\ DOMAIN call[t] = {"op", "attempt", "tries", "why", "owner", "sent", "unclear", "placed", "heldAll", "result"}
         /\ CallFields = DOMAIN call[t]
         /\ call[t].attempt \in Nat /\ call[t].sent \in Nat
         /\ call[t].unclear \in Nat /\ call[t].placed \in Nat
         /\ OrderInv(t) /\ DOMAIN call = BotThreads /\ DOMAIN pc = BotThreads
  BY DEF SessionInv, CallTypes, CallFields, Session!NoCall

LEMMA BeginKeeps ==
  ASSUME SessionInv, NEW t \in BotThreads, NEW op \in Session!Ops, Session!Begin(t, op)
  PROVE  SessionInv'
<1> DEFINE q == [Session!NoCall EXCEPT !.op = op, !.attempt = 1, !.heldAll = held]
<1>1. pc' = [pc EXCEPT ![t] = "ensure"] /\ call' = [call EXCEPT ![t] = q]
  BY DEF Session!Begin, Session!Goto
<1>2. /\ DOMAIN q = CallFields /\ q.attempt = 1 /\ q.sent = 0 /\ q.unclear = 0 /\ q.placed = 0
      /\ q.result = "none"
  BY DEF Session!NoCall, CallFields
<1> HIDE DEF q
<1>3. call'[t] = q /\ pc'[t] = "ensure"
  BY <1>1, CallFacts
<1>4. OrderInv(t)'
  BY <1>2, <1>3, SessionAssumption DEF OrderInv, AttemptIsNext, AnswersAreCounted, LoggingIn
<1>5. q.attempt \in Nat /\ q.sent \in Nat /\ q.unclear \in Nat /\ q.placed \in Nat
  BY <1>2
<1> QED
  BY <1>1, <1>2, <1>4, <1>5, OneCallMoves

LEMMA EnsureKeeps ==
  ASSUME SessionInv, NEW t \in BotThreads, Session!Ensure(t)
  PROVE  SessionInv'
<1> DEFINE q == [call[t] EXCEPT !.why = "session"]
           where == CASE ~loggedIn                         -> "check"
                      [] loggedIn /\ fresh                 -> "send"
                      [] loggedIn /\ ~fresh /\ recovering  -> "wait"
                      [] loggedIn /\ ~fresh /\ ~recovering -> "validate"
<1>1. /\ pc[t] = "ensure" /\ pc' = [pc EXCEPT ![t] = where]
      /\ call' = [call EXCEPT ![t] = q]
  BY CallFacts DEF Session!Ensure, Session!Goto
<1>2. where \in {"check", "send", "wait", "validate"}
  OBVIOUS
<1>3. /\ DOMAIN q = CallFields /\ q.attempt = call[t].attempt /\ q.sent = call[t].sent
      /\ q.unclear = call[t].unclear /\ q.placed = call[t].placed
      /\ q.result = call[t].result /\ q.op = call[t].op /\ q.why = "session"
  BY CallFacts
<1> HIDE DEF q, where
<1>4. call'[t] = q /\ pc'[t] = where
  BY <1>1, CallFacts
<1>5. OrderInv(t)'
  BY <1>1, <1>2, <1>3, <1>4, CallFacts DEF OrderInv, AttemptIsNext, AnswersAreCounted, LoggingIn
<1>6. where \in {"ensure", "wait", "validate", "send", "done"} \cup LoggingIn
  BY <1>2 DEF LoggingIn
<1> QED
  BY <1>1, <1>3, <1>5, <1>6, CallFacts, OneCallMoves

(* Waits and validations, and the steps of a login that is not over, move   *)
(* the thread and count nothing.                                            *)
LEMMA MovesKeep ==
  ASSUME SessionInv, NEW t \in BotThreads, NEW where, NEW q,
         pc[t] \in {"wait", "validate"} \cup LoggingIn, pc' = [pc EXCEPT ![t] = where], call' = [call EXCEPT ![t] = q],
         \/ where \in LoggingIn
         \/ where = "send" /\ pc[t] \in {"wait", "validate"}
         \/ where = "done",
         DOMAIN q = CallFields, q.attempt = call[t].attempt, q.sent = call[t].sent, q.op = call[t].op,
         q.unclear = call[t].unclear, q.placed = call[t].placed, q.why = call[t].why,
         q.result = call[t].result \/ (where = "done" /\ q.result = "raised")
  PROVE  SessionInv'
<1>1. call'[t] = q /\ pc'[t] = where
  BY CallFacts
<1>2. OrderInv(t)'
  BY <1>1, CallFacts DEF OrderInv, AttemptIsNext, AnswersAreCounted, LoggingIn
<1>3. where \in {"ensure", "wait", "validate", "send", "done"} \cup LoggingIn
  BY DEF LoggingIn
<1> QED
  BY <1>2, <1>3, CallFacts, OneCallMoves

LEMMA LoginStepsKeep ==
  ASSUME SessionInv, NEW t \in BotThreads,
         \/ Session!Wait(t) \/ Session!Validated(t) \/ Session!NotValidated(t)
         \/ Session!Check(t) \/ Session!Enter(t) \/ Session!LoginWorks(t) \/ Session!LoginFails(t)
  PROVE  SessionInv'
<1>1. call = [call EXCEPT ![t] = call[t]] /\ pc = [pc EXCEPT ![t] = pc[t]]
  BY DEF SessionInv, CallTypes
<1>2. CASE Session!Wait(t)
  <2>1. CASE loggedIn
    BY <1>1, <1>2, <2>1, CallFacts, MovesKeep DEF Session!Wait, Session!Goto
  <2>2. CASE ~loggedIn
    <3> DEFINE q == [call[t] EXCEPT !.result = "raised"]
    <3>1. call' = [call EXCEPT ![t] = q] /\ pc' = [pc EXCEPT ![t] = "done"] /\ pc[t] = "wait"
      BY <1>2, <2>2 DEF Session!Wait, Session!Ends, Session!Goto
    <3>2. /\ DOMAIN q = CallFields /\ q.attempt = call[t].attempt /\ q.sent = call[t].sent /\ q.op = call[t].op
          /\ q.unclear = call[t].unclear /\ q.placed = call[t].placed /\ q.why = call[t].why /\ q.result = "raised"
      BY CallFacts
    <3> HIDE DEF q
    <3> QED
      BY <3>1, <3>2, MovesKeep
  <2> QED
    BY <2>1, <2>2
<1>3. CASE Session!Validated(t)
  BY <1>1, <1>3, CallFacts, MovesKeep DEF Session!Validated, Session!Goto
<1>4. CASE Session!NotValidated(t)
  <2> DEFINE q == [call[t] EXCEPT !.owner = TRUE]
  <2>1. call' = [call EXCEPT ![t] = q] /\ pc' = [pc EXCEPT ![t] = "check"] /\ pc[t] = "validate"
    BY <1>4 DEF Session!NotValidated, Session!Goto
  <2>2. /\ DOMAIN q = CallFields /\ q.attempt = call[t].attempt /\ q.sent = call[t].sent /\ q.op = call[t].op
        /\ q.unclear = call[t].unclear /\ q.placed = call[t].placed /\ q.why = call[t].why /\ q.result = call[t].result
    BY CallFacts
  <2> HIDE DEF q
  <2> QED
    BY <2>1, <2>2, MovesKeep DEF LoggingIn
<1>5. CASE Session!Check(t)
  <2>1. CASE loggingIn
    BY <1>5, <2>1, LoginEnds DEF Session!Check, LoggingIn
  <2>2. CASE ~loggingIn
    BY <1>1, <1>5, <2>2, CallFacts, MovesKeep DEF Session!Check, Session!Goto, LoggingIn
  <2> QED
    BY <2>1, <2>2
<1>6. CASE Session!Enter(t)
  <2>1. CASE loggedIn /\ young
    BY <1>6, <2>1, LoginEnds DEF Session!Enter, LoggingIn
  <2>2. CASE ~(loggedIn /\ young)
    <3> DEFINE q == [call[t] EXCEPT !.tries = 1]
    <3>1. call' = [call EXCEPT ![t] = q] /\ pc' = [pc EXCEPT ![t] = "try"] /\ pc[t] = "enter"
      BY <1>6, <2>2 DEF Session!Enter, Session!Goto
    <3>2. /\ DOMAIN q = CallFields /\ q.attempt = call[t].attempt /\ q.sent = call[t].sent /\ q.op = call[t].op
          /\ q.unclear = call[t].unclear /\ q.placed = call[t].placed /\ q.why = call[t].why /\ q.result = call[t].result
      BY CallFacts
    <3> HIDE DEF q
    <3> QED
      BY <3>1, <3>2, MovesKeep DEF LoggingIn
  <2> QED
    BY <2>1, <2>2
<1>7. CASE Session!LoginWorks(t)
  BY <1>7, LoginEnds DEF Session!LoginWorks, LoggingIn
<1>8. CASE Session!LoginFails(t)
  <2>1. CASE Session!LastTry(call[t].tries)
    BY <1>8, <2>1, LoginEnds DEF Session!LoginFails, LoggingIn
  <2>2. CASE ~Session!LastTry(call[t].tries)
    <3> DEFINE n == (call[t].tries % MaxLogins) + 1
               q == [call[t] EXCEPT !.tries = n]
    <3>1. call' = [call EXCEPT ![t] = q] /\ pc' = [pc EXCEPT ![t] = pc[t]] /\ pc[t] = "try"
      BY <1>1, <1>8, <2>2 DEF Session!LoginFails
    <3> HIDE DEF n
    <3>2. /\ DOMAIN q = CallFields /\ q.attempt = call[t].attempt /\ q.sent = call[t].sent /\ q.op = call[t].op
          /\ q.unclear = call[t].unclear /\ q.placed = call[t].placed /\ q.why = call[t].why /\ q.result = call[t].result
      BY CallFacts
    <3> HIDE DEF q
    <3> QED
      BY <3>1, <3>2, MovesKeep DEF LoggingIn
  <2> QED
    BY <2>1, <2>2
<1> QED
  BY <1>2, <1>3, <1>4, <1>5, <1>6, <1>7, <1>8

(* A request for an order: an answer that leaves the order open is counted, *)
(* and only an empty one is followed by a login.                            *)
LEMMA SendOrderKeeps ==
  ASSUME SessionInv, NEW t \in BotThreads, Session!SendOrder(t)
  PROVE  SessionInv'
<1>1. PICK answer \in {"accepted", "rejected", "empty", "exception"}, n \in {0, 1} :
        /\ answer = "accepted" => n = 1
        /\ n = 1 => answer # "rejected"
        /\ LET sent == [call[t] EXCEPT !.sent = @ + 1, !.placed = @ + n, !.why = "retry",
                         !.unclear = IF answer \in {"empty", "exception"} THEN @ + 1 ELSE @]
           IN IF Session!SentAgain(answer)
              THEN Session!Goto(t, "check") /\ call' = [call EXCEPT ![t] = sent]
              ELSE /\ Session!Goto(t, "done")
                   /\ call' = [call EXCEPT ![t] = [sent EXCEPT !.result = answer]]
  BY DEF Session!SendOrder
<1> DEFINE sent == [call[t] EXCEPT !.sent = @ + 1, !.placed = @ + n, !.why = "retry",
                     !.unclear = IF answer \in {"empty", "exception"} THEN @ + 1 ELSE @]
           q == IF answer = "empty" THEN sent ELSE [sent EXCEPT !.result = answer]
           where == IF answer = "empty" THEN "check" ELSE "done"
<1>2. call' = [call EXCEPT ![t] = q] /\ pc' = [pc EXCEPT ![t] = where] /\ pc[t] = "send" /\ call[t].op = "order"
  BY <1>1 DEF Session!SendOrder, Session!SentAgain, Session!Goto
<1>3. /\ DOMAIN q = CallFields /\ q.attempt = call[t].attempt /\ q.sent = call[t].sent + 1 /\ q.op = call[t].op
      /\ q.placed = call[t].placed + n /\ q.why = "retry"
      /\ q.unclear = IF answer \in {"empty", "exception"} THEN call[t].unclear + 1 ELSE call[t].unclear
      /\ q.result = IF answer = "empty" THEN call[t].result ELSE answer
  BY CallFacts
<1> HIDE DEF q
<1>4. call'[t] = q /\ pc'[t] = where /\ where \in {"check", "done"}
  BY <1>2, CallFacts
<1>5. OrderInv(t)'
  BY <1>1, <1>2, <1>3, <1>4, CallFacts, SessionAssumption DEF OrderInv, AttemptIsNext, AnswersAreCounted, LoggingIn
<1>6. q.attempt \in Nat /\ q.sent \in Nat /\ q.unclear \in Nat /\ q.placed \in Nat
  BY <1>3, CallFacts
<1>7. where \in {"ensure", "wait", "validate", "send", "done"} \cup LoggingIn
  BY DEF LoggingIn
<1> HIDE DEF where
<1> QED
  BY <1>2, <1>3, <1>5, <1>6, <1>7, OneCallMoves

(* The call of t with a request more. *)
IsSent(q, t) ==
  /\ DOMAIN q = CallFields /\ q.attempt = call[t].attempt /\ q.sent = call[t].sent + 1
  /\ q.op = call[t].op /\ q.placed = call[t].placed /\ q.unclear = call[t].unclear

LEMMA OtherSendKeeps ==
  ASSUME SessionInv, NEW t \in BotThreads, NEW q, call[t].op # "order", IsSent(q, t),
         pc' = [pc EXCEPT ![t] = "done"], call' = [call EXCEPT ![t] = q]
  PROVE  SessionInv'
<1>1. OrderInv(t)' /\ q.sent \in Nat
  BY CallFacts DEF OrderInv, IsSent
<1> QED
  BY <1>1, CallFacts, OneCallMoves DEF IsSent

LEMMA OtherSendsKeep ==
  ASSUME SessionInv, NEW t \in BotThreads,
         Session!SendChange(t) \/ Session!SendRead(t) \/ Session!SendLook(t)
  PROVE  SessionInv'
<1>1. CASE Session!SendChange(t)
  <2>1. PICK answer : call' = [call EXCEPT ![t].sent = @ + 1, ![t].result = answer]
    BY <1>1, Zenon DEF Session!SendChange
  <2>2. call' = [call EXCEPT ![t] = call'[t]] /\ IsSent(call'[t], t)
    BY <2>1, CallFacts DEF IsSent
  <2> QED
    BY <1>1, <2>2, OtherSendKeeps DEF Session!SendChange, Session!Goto
<1>2. CASE Session!SendRead(t)
  <2>1. PICK answer : call' = [call EXCEPT ![t].sent = @ + 1, ![t].result = IF answer = "exception" THEN "raised" ELSE Session!Normalised(answer)]
    BY <1>2, Zenon DEF Session!SendRead
  <2>2. call' = [call EXCEPT ![t] = call'[t]] /\ IsSent(call'[t], t)
    BY <2>1, CallFacts DEF IsSent
  <2> QED
    BY <1>2, <2>2, OtherSendKeeps DEF Session!SendRead, Session!Goto
<1>3. CASE Session!SendLook(t)
  <2>1. PICK answer : call' = [call EXCEPT ![t].sent = @ + 1, ![t].result = answer]
    BY <1>3, Zenon DEF Session!SendLook
  <2>2. call' = [call EXCEPT ![t] = call'[t]] /\ IsSent(call'[t], t)
    BY <2>1, CallFacts DEF IsSent
  <2> QED
    BY <1>3, <2>2, OtherSendKeeps DEF Session!SendLook, Session!Goto
<1> QED
  BY <1>1, <1>2, <1>3

LEMMA ReturnKeeps ==
  ASSUME SessionInv, NEW t \in BotThreads, Session!Return(t)
  PROVE  SessionInv'
<1>1. pc' = [pc EXCEPT ![t] = "idle"] /\ call' = [call EXCEPT ![t] = Session!NoCall]
  BY DEF Session!Return, Session!Goto
<1>2. /\ Session!NoCall.op = "none" /\ Session!NoCall.attempt = 0 /\ Session!NoCall.sent = 0
      /\ Session!NoCall.unclear = 0 /\ Session!NoCall.placed = 0
  BY DEF Session!NoCall
<1>3. CallTypes'
  BY <1>1, <1>2 DEF SessionInv, CallTypes, CallFields
<1>4. ASSUME NEW u \in BotThreads PROVE (OrderInv(u) /\ (pc[u] = "idle" => call[u].op = "none"))'
  <2>1. CASE u = t
    BY <1>1, <1>2, <2>1, CallFacts DEF OrderInv
  <2>2. CASE u # t
    BY <1>1, <2>2, CallFacts DEF SessionInv, OrderInv, AttemptIsNext, AnswersAreCounted
  <2> QED
    BY <2>1, <2>2
<1> QED
  BY <1>3, <1>4 DEF SessionInv

LEMMA TradesKeep == ASSUME SessionInv, Session!Trades PROVE SessionInv'
<1>1. call' = [t \in BotThreads |-> [call[t] EXCEPT !.heldAll = FALSE]] /\ pc' = pc
  BY DEF Session!Trades
<1>2. ASSUME NEW t \in BotThreads
      PROVE  /\ DOMAIN call'[t] = CallFields /\ call'[t].attempt = call[t].attempt
             /\ call'[t].sent = call[t].sent /\ call'[t].op = call[t].op /\ call'[t].why = call[t].why
             /\ call'[t].placed = call[t].placed /\ call'[t].unclear = call[t].unclear
             /\ call'[t].result = call[t].result
  BY <1>1, CallFacts
<1>3. CallTypes'
  BY <1>1, <1>2 DEF SessionInv, CallTypes, CallFields
<1>4. ASSUME NEW t \in BotThreads PROVE (OrderInv(t) /\ (pc[t] = "idle" => call[t].op = "none"))'
  BY <1>1, <1>2 DEF SessionInv, OrderInv, AttemptIsNext, AnswersAreCounted
<1> QED
  BY <1>3, <1>4 DEF SessionInv

LEMMA NextSession == SessionInv /\ [Session!Next]_Session!vars => SessionInv'
<1> SUFFICES ASSUME SessionInv, [Session!Next]_Session!vars PROVE SessionInv'
  OBVIOUS
<1>1. ASSUME NEW t \in BotThreads, Session!Step(t) PROVE SessionInv'
  BY <1>1, EnsureKeeps, LoginStepsKeep, SendOrderKeeps, OtherSendsKeep, ReturnKeeps DEF Session!Step
<1>2. ASSUME NEW t \in BotThreads, NEW op \in Session!Ops, Session!Begin(t, op) PROVE SessionInv'
  BY <1>2, BeginKeeps
<1>3. CASE Session!Expires \/ Session!Ages \/ UNCHANGED Session!vars
  <2>1. call' = call /\ pc' = pc
    BY <1>3 DEF Session!Expires, Session!Ages, Session!vars
  <2> QED
    BY <2>1 DEF SessionInv, CallTypes, CallFields, OrderInv, AttemptIsNext, AnswersAreCounted
<1>4. CASE Session!Trades
  BY <1>4, TradesKeep
<1> QED
  BY <1>1, <1>2, <1>3, <1>4 DEF Session!Next

(* Whatever the other threads do to the session: an order the broker has    *)
(* answered is not sent again, and it is not sent more often than allowed.  *)
THEOREM OrdersAreSentOnce == Session!Spec => []AnsweredOrdersStay
<1>1. SessionInv => AnsweredOrdersStay
  BY DEF SessionInv, OrderInv, AnswersAreCounted, AnsweredOrdersStay, Session!AnsweredOrdersStay
<1> QED
  BY InitSession, NextSession, <1>1, PTL DEF Session!Spec

-----------------------------------------------------------------------------
(* ChainMetrics: whatever has been measured is at most the total that the  *)
(* next measurement is taken against; after a restart, which forgets the   *)
(* total, at most the header that was read last.                           *)
Measurement == [meta : Nat, rows : Nat, against : Nat]

AllMeasuredBy(n) == \A i \in 1 .. Len(measured) : measured[i].rows <= n

MetricsInv ==
  /\ snapshot \in Nat /\ meta \in Nat /\ rows \in Nat /\ against \in Nat /\ base \in Nat
  /\ measured \in Seq(Measurement)
  /\ AllMeasuredBy(snapshot) /\ (base # 0 => AllMeasuredBy(base)) /\ meta <= snapshot
  /\ mpc = "rows" => AllMeasuredBy(meta)
  /\ mpc = "insert" => AllMeasuredBy(against) /\ rows = base /\ rows <= snapshot
  /\ NothingCountedTwice

LEMMA InitMetrics == Metrics!Init => MetricsInv
  BY DEF Metrics!Init, MetricsInv, AllMeasuredBy, NothingCountedTwice, Metrics!NothingCountedTwice

LEMMA RowsKeeps == ASSUME MetricsInv, Metrics!Rows PROVE MetricsInv'
<1>1. PICK total \in {meta, snapshot} :
        rows' = total /\ against' = (IF base = 0 THEN total ELSE base) /\ base' = total
  BY DEF Metrics!Rows, Metrics!BaseNext
<1>2. /\ mpc = "rows" /\ mpc' = "insert"
      /\ UNCHANGED <<file, snapshot, age, meta, stale, measured, ticks, failures, restarts>>
  BY DEF Metrics!Rows, Metrics!disk
<1>3. AllMeasuredBy(total) /\ AllMeasuredBy(against') /\ total \in Nat /\ total <= snapshot
  BY <1>1, <1>2 DEF MetricsInv
<1> QED
  BY <1>1, <1>2, <1>3 DEF MetricsInv, AllMeasuredBy, NothingCountedTwice, Metrics!NothingCountedTwice

LEMMA InsertsKeeps == ASSUME MetricsInv, Metrics!Inserts PROVE MetricsInv'
<1> DEFINE row == [meta |-> meta, rows |-> rows, against |-> against]
<1>1. /\ mpc = "insert" /\ mpc' = "glob ticks" /\ measured' = Append(measured, row)
      /\ snapshot' = snapshot /\ base' = base /\ meta' = 0 /\ rows' = 0 /\ against' = 0
  BY DEF Metrics!Inserts, Metrics!disk
<1>2. row \in Measurement /\ row.rows = rows /\ row.against = against
  BY DEF MetricsInv, Measurement
<1> HIDE DEF row
<1>3. /\ measured' \in Seq(Measurement) /\ Len(measured') = Len(measured) + 1 /\ Len(measured) \in Nat
      /\ \A i \in 1 .. Len(measured) : measured'[i] = measured[i] /\ measured[i] \in Measurement
      /\ measured'[Len(measured) + 1] = row
  <2>1. measured \in Seq(Measurement)
    BY DEF MetricsInv
  <2>2. measured' = Append(measured, row)
    BY <1>1
  <2> QED
    BY <1>2, <2>1, <2>2
<1>4. \A i \in 1 .. Len(measured') : i \in 1 .. Len(measured) \/ i = Len(measured) + 1
  BY <1>3
<1>5. /\ AllMeasuredBy(snapshot) /\ (base # 0 => AllMeasuredBy(base)) /\ AllMeasuredBy(against)
      /\ rows <= snapshot /\ rows = base
  BY <1>1 DEF MetricsInv
<1>6. ASSUME NEW i \in 1 .. Len(measured')
      PROVE  measured'[i].rows <= snapshot /\ (base # 0 => measured'[i].rows <= base)
  <2>1. CASE i \in 1 .. Len(measured)
    BY <1>3, <1>5, <2>1 DEF AllMeasuredBy
  <2>2. CASE i = Len(measured) + 1
    BY <1>2, <1>3, <1>5, <2>2 DEF MetricsInv
  <2> QED
    BY <1>4, <2>1, <2>2
<1>7. ASSUME NEW i \in 1 .. Len(measured'), NEW j \in 1 .. Len(measured'), i < j
      PROVE  measured'[i].rows <= measured'[j].against
  <2>1. i \in 1 .. Len(measured)
    BY <1>3, <1>4, <1>7
  <2> QED
    BY <1>2, <1>3, <1>4, <1>5, <1>7, <2>1 DEF MetricsInv, AllMeasuredBy, NothingCountedTwice, Metrics!NothingCountedTwice
<1>8. NothingCountedTwice'
  BY <1>7 DEF NothingCountedTwice, Metrics!NothingCountedTwice
<1>9. 0 \in Nat /\ snapshot \in Nat /\ base \in Nat /\ 0 <= snapshot
  BY DEF MetricsInv
<1> QED
  BY <1>1, <1>3, <1>6, <1>8, <1>9 DEF MetricsInv, AllMeasuredBy

LEMMA NextMetrics == MetricsInv /\ [Metrics!Next]_Metrics!vars => MetricsInv'
<1> SUFFICES ASSUME MetricsInv, [Metrics!Next]_Metrics!vars PROVE MetricsInv'
  OBVIOUS
<1> USE DEF Metrics!disk, Metrics!read
<1>1. CASE Metrics!Writes \/ Metrics!Created
  <2>1. /\ snapshot' = snapshot + 1
        /\ UNCHANGED <<mpc, meta, rows, base, against, measured>>
    BY <1>1 DEF Metrics!Writes, Metrics!Created
  <2>2. \A i \in 1 .. Len(measured) : measured[i] \in Measurement
    BY DEF MetricsInv
  <2>3. AllMeasuredBy(snapshot + 1)
    BY <2>2 DEF MetricsInv, AllMeasuredBy, Measurement
  <2> QED
    BY <2>1, <2>3 DEF MetricsInv, AllMeasuredBy, NothingCountedTwice, Metrics!NothingCountedTwice
<1>2. CASE Metrics!Ages \/ Metrics!Unlinks \/ UNCHANGED Metrics!vars
  BY <1>2 DEF Metrics!Ages, Metrics!Unlinks, Metrics!vars, MetricsInv, AllMeasuredBy,
              NothingCountedTwice, Metrics!NothingCountedTwice
<1>3. CASE Metrics!Glob
  <2>1. mpc' \in {"glob ticks", "glob", "header", "tick header"}
    BY <1>3 DEF Metrics!Glob
  <2> QED
    BY <1>3, <2>1 DEF Metrics!Glob, MetricsInv, AllMeasuredBy, NothingCountedTwice, Metrics!NothingCountedTwice
<1>4. CASE Metrics!Header
  <2>1. /\ UNCHANGED <<snapshot, rows, base, against, measured>> /\ meta' \in {meta, snapshot}
        /\ mpc' # "insert" /\ (mpc' = "rows" => meta' = snapshot)
    BY <1>4 DEF Metrics!Header, Metrics!AfterExtraction
  <2> QED
    BY <2>1 DEF MetricsInv, AllMeasuredBy, NothingCountedTwice, Metrics!NothingCountedTwice
<1>5. CASE Metrics!TickRows \/ Metrics!Fails \/ Metrics!Restart
  <2>1. /\ UNCHANGED <<snapshot, measured>> /\ base' \in {0, base} /\ meta' = 0 /\ rows' \in {rows, 0}
        /\ against' \in {against, 0} /\ mpc' \in {"glob", "glob ticks"}
    BY <1>5 DEF Metrics!TickRows, Metrics!Fails, Metrics!Restart, Metrics!AfterExtraction
  <2>2. NothingCountedTwice'
    BY <2>1 DEF MetricsInv, NothingCountedTwice, Metrics!NothingCountedTwice
  <2>3. meta' \in Nat /\ rows' \in Nat /\ against' \in Nat /\ base' \in Nat /\ meta' <= snapshot
    <3>1. 0 \in Nat /\ rows \in Nat /\ against \in Nat /\ base \in Nat /\ snapshot \in Nat /\ 0 <= snapshot
      BY DEF MetricsInv
    <3> QED
      BY <2>1, <3>1
  <2> QED
    BY <2>1, <2>2, <2>3 DEF MetricsInv, AllMeasuredBy
<1> QED
  BY <1>1, <1>2, <1>3, <1>4, <1>5, RowsKeeps, InsertsKeeps DEF Metrics!Next

(* Over snapshots between two statements, failed inserts and a restart: the *)
(* measurements of a chain report no build-up twice.                        *)
THEOREM BuildUpsDoNotOverlap == Metrics!Spec => []NothingCountedTwice
<1>1. MetricsInv => NothingCountedTwice
  BY DEF MetricsInv
<1> QED
  BY InitMetrics, NextMetrics, <1>1, PTL DEF Metrics!Spec

-----------------------------------------------------------------------------
(* StrikeSelection: a leg that was resolved from the snapshot in the file   *)
(* has an option there than which no other is nearer to the wanted delta.   *)
Off(s, t) == Choice!OffBy(s, t, selection.value)

IsNearest(s, t) == Off(s, t) <= 3 /\ \A u \in Choice!WithDelta(t) : Off(s, t) <= Off(u, t)

DeltaInv ==
  /\ writes \in Nat /\ chain \in Chains /\ selection \in Selections
  /\ leg = [t \in Choice!Types |-> leg[t]]
  /\ \A t \in Choice!Types :
       /\ DOMAIN leg[t] = {"at", "atm", "strike", "read"}
       /\ leg[t].read \in Nat /\ leg[t].read <= writes + 1
       /\ leg[t].at = "done" /\ leg[t].read = writes + 1 /\ selection.by = "delta"
            => IsNearest(leg[t].strike, t)

(* A non-empty set of naturals, here distances, has a least member. *)
Below == {p \in Nat \X Nat : p[1] < p[2]}

LEMMA LeastExists ==
  ASSUME NEW S \in SUBSET Nat, S # {}
  PROVE  \E i \in S : \A j \in S : i <= j
<1>1. PICK i \in S : \A j \in S : <<j, i>> \notin Below
  <2>1. IsWellFoundedOn(Below, Nat)
    BY NatLessThanWellFounded, Zenon DEF OpToRel, Below
  <2> QED
    BY <2>1, WFMin, Zenon
<1>2. ASSUME NEW j \in S PROVE i <= j
  <2>1. <<j, i>> \in Nat \X Nat /\ <<j, i>>[1] = j /\ <<j, i>>[2] = i
    OBVIOUS
  <2>2. ~(j < i)
    BY <1>1, <2>1, Zenon DEF Below
  <2> QED
    BY <2>2
<1> QED
  BY <1>2

LEMMA Distances ==
  ASSUME DeltaInv, NEW t \in Choice!Types, NEW s \in Choice!WithDelta(t), selection.by = "delta"
  PROVE  Off(s, t) \in Nat
<1>1. chain.rows[s][t].delta \in Int /\ selection.value \in Int
  BY StrikesAssumption DEF DeltaInv, Choice!WithDelta, Choice!Priced, Choice!Row, Choice!Types
<1> DEFINE d == chain.rows[s][t].delta
<1> HIDE DEF d
<1>2. \A n \in Int : Choice!Magnitude(n) \in Nat
  BY DEF Choice!Magnitude
<1>3. Choice!Magnitude(d) - selection.value \in Int
  BY <1>1, <1>2 DEF d
<1> QED
  BY <1>2, <1>3 DEF Off, Choice!OffBy, Choice!Row, d

(* The search, read off its two passes. *)
LEMMA ByDeltaAnswers ==
  ASSUME DeltaInv, NEW t \in Choice!Types, selection.by = "delta"
  PROVE  /\ \A s \in Choice!ByDelta(t, selection.value) : IsNearest(s, t)
         /\ Choice!ByDelta(t, selection.value) = {} => \A s \in Choice!WithDelta(t) : Off(s, t) > 3
<1> DEFINE W(n) == {s \in Choice!WithDelta(t) : Off(s, t) <= n}
           N(n) == {s \in W(n) : \A u \in W(n) : Off(s, t) <= Off(u, t)}
           answers == Choice!ByDelta(t, selection.value)
<1>1. answers = IF W(1) # {} THEN N(1) ELSE N(3)
  BY DEF Choice!ByDelta, Choice!Search, Choice!Nearest, Off
<1>2. \A s \in Choice!WithDelta(t) : Off(s, t) \in Nat
  BY Distances
<1> HIDE DEF answers
<1>3. ASSUME NEW n \in {1, 3}, NEW s \in N(n) PROVE IsNearest(s, t)
  BY <1>2, <1>3 DEF IsNearest
<1>4. ASSUME NEW n \in {1, 3}, W(n) # {} PROVE N(n) # {}
  <2> DEFINE S == {Off(s, t) : s \in W(n)}
  <2>1. S \in SUBSET Nat /\ S # {}
    BY <1>2, <1>4
  <2>2. PICK i \in S : \A j \in S : i <= j
    BY <2>1, LeastExists, Zenon
  <2> QED
    BY <2>2
<1>5. answers = {} => W(3) = {}
  BY <1>1, <1>4
<1>6. \A s \in answers : IsNearest(s, t)
  BY <1>1, <1>3
<1> QED
  BY <1>2, <1>5, <1>6 DEF answers

LEMMA InitStrikes == Choice!StrikeInit => DeltaInv
<1> SUFFICES ASSUME Choice!StrikeInit PROVE DeltaInv
  OBVIOUS
<1>1. \A t \in Choice!Types : leg[t] = [at |-> "todo", atm |-> 0, strike |-> 0, read |-> 0]
  BY DEF Choice!StrikeInit, Choice!None
<1> QED
  BY <1>1 DEF Choice!StrikeInit, DeltaInv, Choice!None

LEMMA ResolveKeeps ==
  ASSUME DeltaInv, NEW t \in Choice!Types, Choice!Resolve(t)
  PROVE  DeltaInv'
<1>1. UNCHANGED <<chain, writes, selection>>
  BY DEF Choice!Resolve
<1>2. \A s, u : IsNearest(s, u)' <=> IsNearest(s, u)
  BY <1>1 DEF IsNearest, Off, Choice!OffBy, Choice!WithDelta, Choice!Priced, Choice!Row
<1>3. selection.by = "delta" => Choice!Answers(t) = Choice!ByDelta(t, selection.value)
  BY DEF Choice!Answers
<1>4. CASE Choice!Answers(t) = {} /\ leg' = [leg EXCEPT ![t].at = "failed"]
  BY <1>1, <1>2, <1>4 DEF DeltaInv
<1>5. CASE \E s \in Choice!Answers(t) :
             leg' = [leg EXCEPT ![t] = [@ EXCEPT !.at = "done", !.strike = s, !.read = writes + 1]]
  <2>1. PICK s \in Choice!Answers(t) :
          leg' = [leg EXCEPT ![t] = [@ EXCEPT !.at = "done", !.strike = s, !.read = writes + 1]]
    BY <1>5
  <2>2. selection.by = "delta" => IsNearest(s, t)
    BY <1>3, <2>1, ByDeltaAnswers
  <2>3. /\ leg'[t].strike = s /\ leg'[t].read = writes + 1
        /\ DOMAIN leg'[t] = {"at", "atm", "strike", "read"}
        /\ \A u \in Choice!Types : u # t => leg'[u] = leg[u]
        /\ leg' = [u \in Choice!Types |-> leg'[u]]
    BY <2>1 DEF DeltaInv
  <2> QED
    BY <1>1, <1>2, <2>2, <2>3 DEF DeltaInv
<1> QED
  BY <1>4, <1>5 DEF Choice!Resolve

LEMMA NextStrikes == DeltaInv /\ [Choice!StrikeNext]_Choice!strikeVars => DeltaInv'
<1> SUFFICES ASSUME DeltaInv, [Choice!StrikeNext]_Choice!strikeVars PROVE DeltaInv'
  OBVIOUS
<1> USE DEF IsNearest, Off, Choice!OffBy, Choice!WithDelta, Choice!Priced, Choice!Row
<1>1. CASE Choice!Snapshot
  BY <1>1 DEF Choice!Snapshot, DeltaInv
<1>2. ASSUME NEW t \in Choice!Types, Choice!Begin(t) PROVE DeltaInv'
  BY <1>2 DEF Choice!Begin, DeltaInv
<1>3. CASE UNCHANGED Choice!strikeVars
  BY <1>3 DEF Choice!strikeVars, DeltaInv
<1> QED
  BY <1>1, <1>2, <1>3, ResolveKeeps DEF Choice!StrikeNext

(* find_option_by_delta in its two passes finds the nearest option there    *)
(* is, for any chain and any wanted delta.                                  *)
THEOREM DeltaSearchIsExact == Choice!StrikeSpec => []DeltaIsNearest
<1>1. DeltaInv => DeltaIsNearest
  <2> SUFFICES ASSUME DeltaInv, selection.by = "delta", NEW t \in Choice!Types
               PROVE  LET off(s) == Choice!Magnitude(Choice!Magnitude(Choice!Row(s, t).delta) - selection.value)
                      IN /\ leg[t].at = "done" /\ leg[t].read = writes + 1 =>
                              off(leg[t].strike) <= 3 /\ \A s \in Choice!WithDelta(t) : off(leg[t].strike) <= off(s)
                         /\ Choice!Answers(t) = {} => \A s \in Choice!WithDelta(t) : off(s) > 3
    BY DEF DeltaIsNearest, Choice!DeltaIsNearest
  <2>1. Choice!Answers(t) = Choice!ByDelta(t, selection.value)
    BY DEF Choice!Answers
  <2>2. leg[t].at = "done" /\ leg[t].read = writes + 1 => IsNearest(leg[t].strike, t)
    BY DEF DeltaInv
  <2> QED
    BY <2>1, <2>2, ByDeltaAnswers DEF IsNearest, Off, Choice!OffBy
<1> QED
  BY InitStrikes, NextStrikes, <1>1, PTL DEF Choice!StrikeSpec

-----------------------------------------------------------------------------
(* OptionChains: which thread answers for which bundle.  A bundle whose     *)
(* store is about to be opened is one thread's alone: no chain, no other    *)
(* thread and no recentring has it.  A bundle that is aside in a recentring *)
(* or about to be dropped by its removal has no open store.                 *)
Handlers == Supervised!Threads
OpenStores == {b \in Supervised!Bundles : bundle[b].store \in {"open", "broken"}}
Places == {"idle", "build", "open", "register", "clean", "unlink", "pop", "aside", "start", "recentred", "restore"}
ThreadFields == {"at", "key", "attempt", "own", "old"}
SomeBundle == Supervised!Bundles \cup {0}

ChainTypes ==
  /\ chains \in [Keys -> SomeBundle] /\ displaced \subseteq Supervised!Bundles
  /\ DOMAIN bundle = Supervised!Bundles
  /\ starter = [t \in Handlers |-> starter[t]]
  /\ \A b \in Supervised!Bundles : DOMAIN bundle[b] = {"oc", "store"}
  /\ \A t \in Handlers :
       /\ DOMAIN starter[t] = ThreadFields /\ starter[t].at \in Places
       /\ starter[t].own \in SomeBundle /\ starter[t].old \in SomeBundle
       /\ starter[t].at # "idle" => starter[t].key \in Keys

(* What a thread has in hand, by where it is. *)
InHand(t) ==
  /\ starter[t].at \in {"idle", "build", "pop", "start", "recentred", "restore"} => starter[t].own = 0
  /\ starter[t].at = "idle" => starter[t].old = 0
  /\ starter[t].at \in {"open", "register", "clean", "unlink", "aside"} => starter[t].own # 0
  /\ starter[t].at = "unlink" => starter[t].own \notin OpenStores
  /\ starter[t].old \notin OpenStores

Alone(t) ==
  /\ starter[t].own \notin OpenStores /\ starter[t].own # starter[t].old
  /\ \A k \in Keys : chains[k] # starter[t].own
  /\ \A u \in Handlers \ {t} : starter[t].own \notin {starter[u].own, starter[u].old}

ChainInv ==
  /\ ChainTypes /\ NoStoreLeaked
  /\ \A t \in Handlers : InHand(t) /\ (starter[t].at = "open" => Alone(t))

Hands(t) == {starter[t].own, starter[t].old}
Listed == {chains[k] : k \in Keys}

LEMMA HandlerFacts ==
  ASSUME ChainInv, NEW t \in Handlers
  PROVE  /\ DOMAIN starter[t] = ThreadFields /\ starter[t].at \in Places
         /\ starter[t].own \in SomeBundle /\ starter[t].old \in SomeBundle
         /\ starter[t].at # "idle" => starter[t].key \in Keys
         /\ InHand(t) /\ (starter[t].at = "open" => Alone(t))
  BY DEF ChainInv, ChainTypes

LEMMA Numbers == 0 \notin Supervised!Bundles /\ "supervisor" \in Handlers /\ Users \subseteq Handlers
  BY DEF Supervised!Bundles, Handlers, Supervised!Threads, Supervised!Sup

(* What a step of one thread may do to leave the others what they have in   *)
(* hand: it takes only what is in its own, listed, or in nobody's hands,    *)
(* and opens only the store of a bundle that is its alone.                  *)
LEMMA OthersKeep ==
  ASSUME ChainInv, NEW t \in Handlers,
         \A u \in Handlers \ {t} : starter'[u] = starter[u],
         OpenStores' \subseteq OpenStores \cup (IF starter[t].at = "open" THEN {starter[t].own} ELSE {}),
         \A k \in Keys : chains'[k] \in {0} \cup Hands(t) \cup Listed,
         \A b \in Hands(t)' : \/ b \in {0} \cup Hands(t) \cup Listed
                              \/ \A u \in Handlers \ {t} : b \notin Hands(u)
  PROVE  \A u \in Handlers \ {t} : InHand(u)' /\ (starter'[u].at = "open" => Alone(u)')
<1> TAKE u \in Handlers \ {t}
<1>1. \A b \in Hands(u) : b \in OpenStores' => b \in OpenStores
  BY HandlerFacts DEF Alone, Hands
<1>2. InHand(u)'
  BY <1>1, HandlerFacts DEF InHand, Hands
<1>3. ASSUME starter[u].at = "open" PROVE Alone(u)'
  <2>1. Alone(u) /\ starter[u].own # 0
    BY <1>3, HandlerFacts DEF InHand
  <2>2. starter[u].own \notin OpenStores'
    BY <1>1, <2>1 DEF Alone, Hands
  <2>3. starter[u].own \notin {0} \cup Hands(t) \cup Listed
    BY <2>1 DEF Alone, Hands, Listed
  <2>4. starter[u].own \notin Hands(t)'
    BY <2>3 DEF Hands
  <2>5. \A v \in Handlers \ {u} : starter[u].own \notin Hands(v)'
    BY <2>1, <2>4 DEF Alone, Hands
  <2> QED
    BY <2>1, <2>2, <2>3, <2>5 DEF Alone, Hands
<1> QED
  BY <1>2, <1>3

(* A bundle with an open store is listed, in hand or displaced. *)
Kept(b) == b \in Listed \/ b \in displaced \/ \E t \in Handlers : b \in Hands(t)

LEMMA LeakIsUnkept == NoStoreLeaked <=> \A b \in OpenStores : Kept(b)
  BY DEF NoStoreLeaked, Supervised!NoStoreLeaked, OpenStores, Kept, Listed, Hands, Handlers

LEMMA InitChains == Supervised!Init => ChainInv
<1> SUFFICES ASSUME Supervised!Init PROVE ChainInv
  OBVIOUS
<1> USE DEF Supervised!Init, Supervised!Idle, Supervised!None
<1>1. /\ \A b \in Supervised!Bundles : bundle[b] = [oc |-> "none", store |-> "none"]
      /\ DOMAIN bundle = Supervised!Bundles
  OBVIOUS
<1>2. \A t \in Handlers : starter[t] = [at |-> "idle", key |-> "none", attempt |-> 0, own |-> 0, old |-> 0]
  BY DEF Handlers
<1>3. OpenStores = {}
  BY <1>1 DEF OpenStores
<1>4. ChainTypes
  BY <1>1, <1>2 DEF ChainTypes, SomeBundle, Handlers, Places, ThreadFields
<1> QED
  BY <1>2, <1>3, <1>4, LeakIsUnkept DEF ChainInv, InHand

LEMMA OneMoves ==
  ASSUME ChainInv, NEW t \in Handlers,
         starter' = [starter EXCEPT ![t] = starter'[t]], ChainTypes',
         OpenStores' \subseteq OpenStores \cup (IF starter[t].at = "open" THEN {starter[t].own} ELSE {}),
         \A k \in Keys : chains'[k] \in {0} \cup Hands(t) \cup Listed,
         \A b \in Hands(t)' : \/ b \in {0} \cup Hands(t) \cup Listed
                              \/ \A u \in Handlers \ {t} : b \notin Hands(u),
         InHand(t)', starter'[t].at = "open" => Alone(t)',
         \A b \in OpenStores' : Kept(b)'
  PROVE  ChainInv'
<1>1. \A u \in Handlers \ {t} : starter'[u] = starter[u]
  BY DEF ChainInv, ChainTypes
<1>2. \A u \in Handlers \ {t} : InHand(u)' /\ (starter'[u].at = "open" => Alone(u)')
  BY <1>1, OthersKeep
<1>3. NoStoreLeaked'
  BY DEF NoStoreLeaked, Supervised!NoStoreLeaked, OpenStores, Kept, Listed, Hands, Handlers
<1> QED
  BY <1>2, <1>3 DEF ChainInv

(* A step that moves one thread on and drops nothing that is open.          *)
LEMMA OnlyMoves ==
  ASSUME ChainInv, NEW t \in Handlers, NEW w, starter' = [starter EXCEPT ![t] = w],
         UNCHANGED <<chains, bundle, displaced>>,
         DOMAIN w = ThreadFields, w.at \in Places \ {"open"}, w.at # "idle" => w.key \in Keys,
         w.own = 0 /\ starter[t].own \notin OpenStores, w.old \in {0, starter[t].old},
         w.at \in {"idle", "build", "pop", "start", "recentred", "restore"}, w.at = "idle" => w.old = 0
  PROVE  ChainInv'
<1>1. starter'[t] = w /\ \A u \in Handlers \ {t} : starter'[u] = starter[u]
  BY DEF ChainInv, ChainTypes
<1>2. ChainTypes'
  BY <1>1, HandlerFacts DEF ChainInv, ChainTypes, SomeBundle
<1>3. OpenStores' = OpenStores /\ Listed' = Listed
  BY DEF OpenStores, Listed
<1>4. InHand(t)'
  BY <1>1, <1>3, HandlerFacts, Numbers DEF InHand, OpenStores
<1>5. \A b \in OpenStores : Kept(b)
  BY LeakIsUnkept DEF ChainInv
<1>6. \A b \in OpenStores : b \notin Hands(t)
  BY HandlerFacts DEF InHand, Hands
<1>7. \A b \in OpenStores' : Kept(b)'
  BY <1>1, <1>3, <1>5, <1>6 DEF Kept, Hands
<1>8. \A k \in Keys : chains'[k] \in Listed
  BY DEF Listed
<1> QED
  BY <1>1, <1>2, <1>3, <1>4, <1>7, <1>8, OneMoves DEF Hands

LEMMA StartKeeps ==
  ASSUME ChainInv, NEW t \in Handlers, NEW k \in Keys, starter[t].at = "idle",
         UNCHANGED <<chains, bundle, displaced>>,
         starter' = [starter EXCEPT ![t] = [Supervised!Idle EXCEPT !.at = "build", !.key = k, !.attempt = 1]]
  PROVE  ChainInv'
<1> DEFINE w == [Supervised!Idle EXCEPT !.at = "build", !.key = k, !.attempt = 1]
<1>1. DOMAIN w = ThreadFields /\ w.at = "build" /\ w.key = k /\ w.own = 0 /\ w.old = 0
  BY DEF Supervised!Idle, ThreadFields, Supervised!None
<1> HIDE DEF w
<1>2. starter[t].own \notin OpenStores
  BY HandlerFacts, Numbers DEF InHand, OpenStores
<1>3. starter' = [starter EXCEPT ![t] = w]
  BY DEF w
<1> QED
  BY <1>1, <1>2, <1>3, OnlyMoves DEF Places

(* The end of a start: the thread returns, or its recentring goes on.       *)
LEMMA StartEnding ==
  ASSUME ChainInv, NEW t \in Handlers, NEW worked \in BOOLEAN, Supervised!StartEnds(t, worked), starter[t].at # "idle"
  PROVE  \E w : /\ starter' = [starter EXCEPT ![t] = w] /\ DOMAIN w = ThreadFields /\ w.own = 0
                /\ w.old = starter[t].old /\ w.at \in {"idle", "recentred", "restore"}
                /\ w.at # "idle" => w.key \in Keys
                /\ w.at = "idle" => w.old = 0
<1>1. CASE starter[t].old # 0
  <2> DEFINE w == [starter[t] EXCEPT !.own = 0, !.at = IF worked THEN "recentred" ELSE "restore"]
  <2>1. /\ DOMAIN w = ThreadFields /\ w.own = 0 /\ w.old = starter[t].old /\ w.key = starter[t].key
        /\ w.at \in {"recentred", "restore"}
    BY HandlerFacts DEF ThreadFields
  <2>2. starter' = [starter EXCEPT ![t] = w]
    BY <1>1 DEF Supervised!StartEnds, Supervised!None
  <2> HIDE DEF w
  <2> QED
    BY <2>1, <2>2, HandlerFacts
<1>2. CASE starter[t].old = 0
  <2>1. starter' = [starter EXCEPT ![t] = Supervised!Idle]
    BY <1>2 DEF Supervised!StartEnds, Supervised!None, Supervised!Returns
  <2>2. /\ DOMAIN Supervised!Idle = ThreadFields /\ Supervised!Idle.own = 0 /\ Supervised!Idle.old = 0
        /\ Supervised!Idle.at = "idle"
    BY DEF Supervised!Idle, Supervised!None, ThreadFields
  <2> QED
    BY <1>2, <2>1, <2>2
<1> QED
  BY <1>1, <1>2

LEMMA FailedAttemptKeeps ==
  ASSUME ChainInv, NEW t \in Handlers, starter[t].at \in {"build", "open"}, Supervised!AttemptFails(t),
         UNCHANGED <<chains, bundle, displaced>>
  PROVE  ChainInv'
<1>1. starter[t].own \notin OpenStores
  BY HandlerFacts, Numbers DEF InHand, Alone, OpenStores
<1>2. CASE starter[t].attempt < MaxAttempts
  <2> DEFINE n == starter[t].attempt + 1
             w == [starter[t] EXCEPT !.at = "build", !.own = 0, !.attempt = n]
  <2>1. starter' = [starter EXCEPT ![t] = w]
    BY <1>2, HandlerFacts DEF Supervised!AttemptFails, Supervised!None, ChainInv, ChainTypes
  <2> HIDE DEF n
  <2>2. DOMAIN w = ThreadFields /\ w.at = "build" /\ w.own = 0 /\ w.old = starter[t].old /\ w.key = starter[t].key
    BY HandlerFacts DEF ThreadFields
  <2> HIDE DEF w
  <2> QED
    BY <1>1, <2>1, <2>2, HandlerFacts, OnlyMoves DEF Places
<1>3. CASE ~(starter[t].attempt < MaxAttempts)
  <2>1. Supervised!StartEnds(t, FALSE)
    BY <1>3 DEF Supervised!AttemptFails
  <2>2. PICK w : /\ starter' = [starter EXCEPT ![t] = w] /\ DOMAIN w = ThreadFields /\ w.own = 0
                 /\ w.old = starter[t].old /\ w.at \in {"idle", "recentred", "restore"}
                 /\ w.at # "idle" => w.key \in Keys
                 /\ w.at = "idle" => w.old = 0
    BY <2>1, StartEnding
  <2> QED
    BY <1>1, <2>2, OnlyMoves DEF Places
<1> QED
  BY <1>2, <1>3

LEMMA BuildKeeps == ASSUME ChainInv, NEW t \in Handlers, Supervised!Build(t) PROVE ChainInv'
<1>1. CASE Supervised!AttemptFails(t) /\ UNCHANGED bundle
  BY <1>1, FailedAttemptKeeps DEF Supervised!Build
<1>2. ASSUME NEW b \in Supervised!Bundles, Supervised!Free(b), bundle' = [bundle EXCEPT ![b] = Supervised!Built],
             starter' = [starter EXCEPT ![t] = [@ EXCEPT !.at = "open", !.own = b]]
      PROVE  ChainInv'
  <2> DEFINE w == [starter[t] EXCEPT !.at = "open", !.own = b]
  <2>1. /\ DOMAIN w = ThreadFields /\ w.at = "open" /\ w.own = b /\ w.old = starter[t].old
        /\ w.key = starter[t].key
    BY HandlerFacts DEF ThreadFields
  <2>2. starter' = [starter EXCEPT ![t] = w]
    BY <1>2
  <2> HIDE DEF w
  <2>3. starter'[t] = w /\ \A u \in Handlers \ {t} : starter'[u] = starter[u]
    BY <2>2 DEF ChainInv, ChainTypes
  <2>4. /\ UNCHANGED <<chains, displaced>> /\ starter[t].at = "build"
        /\ DOMAIN Supervised!Built = {"oc", "store"} /\ Supervised!Built.store = "none"
    BY DEF Supervised!Build, Supervised!Built
  <2>5. DOMAIN bundle = Supervised!Bundles /\ bundle'[b] = Supervised!Built
        /\ \A c \in Supervised!Bundles \ {b} : bundle'[c] = bundle[c]
    BY <1>2 DEF ChainInv, ChainTypes
  <2>6. OpenStores' = OpenStores /\ b \notin OpenStores
    BY <1>2, <2>4, <2>5 DEF OpenStores, Supervised!Free
  <2>7. /\ b \notin Listed /\ \A u \in Handlers : b \notin Hands(u)
    BY <1>2 DEF Supervised!Free, Listed, Hands, Handlers
  <2>8. ChainTypes'
    BY <1>2, <2>1, <2>2, <2>3, <2>4, <2>5, HandlerFacts DEF ChainInv, ChainTypes, SomeBundle, Places
  <2>9. InHand(t)'
    BY <2>1, <2>3, <2>6, HandlerFacts, Numbers DEF InHand
  <2>10. Alone(t)'
    BY <2>1, <2>3, <2>4, <2>6, <2>7 DEF Alone, Hands, Listed
  <2>11. \A c \in OpenStores : Kept(c) /\ c \notin Hands(t)
    BY <2>4, LeakIsUnkept, HandlerFacts, Numbers DEF ChainInv, InHand, Hands, OpenStores
  <2>12. \A c \in OpenStores' : Kept(c)'
    BY <2>3, <2>4, <2>6, <2>11 DEF Kept, Hands, Listed
  <2>13. \A k \in Keys : chains'[k] \in Listed
    BY <2>4 DEF Listed
  <2>14. \A c \in Hands(t)' : c = b \/ c \in Hands(t)
    BY <2>1, <2>3 DEF Hands
  <2>15. starter' = [starter EXCEPT ![t] = starter'[t]]
    BY <2>2, <2>3
  <2> QED
    BY <2>6, <2>7, <2>8, <2>9, <2>10, <2>12, <2>13, <2>14, <2>15, OneMoves
<1> QED
  BY <1>1, <1>2 DEF Supervised!Build

LEMMA OpenKeeps == ASSUME ChainInv, NEW t \in Handlers, Supervised!OpenStore(t) PROVE ChainInv'
<1>1. CASE Supervised!AttemptFails(t) /\ UNCHANGED bundle
  BY <1>1, FailedAttemptKeeps DEF Supervised!OpenStore
<1>2. CASE bundle' = [bundle EXCEPT ![starter[t].own].store = "open"] /\ Supervised!Goto(t, "register")
  <2> DEFINE b == starter[t].own
  <2>1. starter[t].at = "open" /\ UNCHANGED <<chains, displaced>> /\ b \in Supervised!Bundles /\ Alone(t)
    BY HandlerFacts DEF Supervised!OpenStore, InHand, SomeBundle
  <2>2. starter' = [starter EXCEPT ![t].at = "register"] /\ starter' = [starter EXCEPT ![t] = starter'[t]]
    BY <1>2, HandlerFacts DEF Supervised!Goto, ChainInv, ChainTypes
  <2>3. /\ DOMAIN starter'[t] = ThreadFields /\ starter'[t].at = "register" /\ starter'[t].own = b
        /\ starter'[t].old = starter[t].old /\ starter'[t].key = starter[t].key
        /\ \A u \in Handlers \ {t} : starter'[u] = starter[u]
    BY <2>2, HandlerFacts DEF ThreadFields, ChainInv, ChainTypes
  <2>4. /\ DOMAIN bundle' = Supervised!Bundles /\ DOMAIN bundle'[b] = {"oc", "store"} /\ bundle'[b].store = "open"
        /\ \A c \in Supervised!Bundles \ {b} : bundle'[c] = bundle[c]
    BY <1>2, <2>1 DEF ChainInv, ChainTypes
  <2> HIDE DEF b
  <2>5. OpenStores' = OpenStores \cup {b}
    BY <2>1, <2>4 DEF OpenStores
  <2>6. ChainTypes'
    BY <2>1, <2>2, <2>3, <2>4, HandlerFacts DEF ChainInv, ChainTypes, SomeBundle, Places
  <2>7. InHand(t)'
    BY <2>1, <2>3, <2>5, HandlerFacts DEF InHand, Alone, b
  <2>8. \A c \in OpenStores' : Kept(c)'
    BY <2>1, <2>3, <2>5, LeakIsUnkept DEF ChainInv, Kept, Hands, Listed, b
  <2>9. (\A k \in Keys : chains'[k] \in Listed) /\ Hands(t)' = Hands(t)
    BY <2>1, <2>3 DEF Listed, Hands, b
  <2> QED
    BY <2>1, <2>2, <2>3, <2>5, <2>6, <2>7, <2>8, <2>9, OneMoves DEF b
<1> QED
  BY <1>1, <1>2 DEF Supervised!OpenStore

(* A bundle that is closed is one less to answer for.                       *)
LEMMA ClosedBundles ==
  ASSUME ChainInv, NEW b \in Supervised!Bundles, bundle' = [bundle EXCEPT ![b] = Supervised!Closed(b)]
  PROVE  /\ DOMAIN bundle' = Supervised!Bundles /\ \A c \in Supervised!Bundles : DOMAIN bundle'[c] = {"oc", "store"}
         /\ OpenStores' = OpenStores \ {b}
<1>1. DOMAIN Supervised!Closed(b) = {"oc", "store"} /\ Supervised!Closed(b).store = "closed"
  BY DEF Supervised!Closed
<1>2. /\ DOMAIN bundle' = Supervised!Bundles /\ bundle'[b] = Supervised!Closed(b)
      /\ \A c \in Supervised!Bundles \ {b} : bundle'[c] = bundle[c]
  BY DEF ChainInv, ChainTypes
<1> QED
  BY <1>1, <1>2 DEF OpenStores, ChainInv, ChainTypes

LEMMA RegisterKeeps == ASSUME ChainInv, NEW t \in Handlers, Supervised!Register(t) PROVE ChainInv'
<1> DEFINE b == starter[t].own
           k == starter[t].key
<1>1. /\ starter[t].at = "register" /\ b \in Supervised!Bundles /\ k \in Keys /\ displaced' = displaced
      /\ starter[t].old \notin OpenStores
  BY HandlerFacts DEF Supervised!Register, InHand, SomeBundle
<1>2. Supervised!StartEnds(t, TRUE)
  BY DEF Supervised!Register
<1>3. PICK w : /\ starter' = [starter EXCEPT ![t] = w] /\ DOMAIN w = ThreadFields /\ w.own = 0
               /\ w.old = starter[t].old /\ w.at \in {"idle", "recentred", "restore"}
               /\ w.at # "idle" => w.key \in Keys
               /\ w.at = "idle" => w.old = 0
  BY <1>1, <1>2, StartEnding
<1>4. /\ starter'[t] = w /\ starter' = [starter EXCEPT ![t] = starter'[t]]
      /\ \A u \in Handlers \ {t} : starter'[u] = starter[u]
  BY <1>3 DEF ChainInv, ChainTypes
<1>5. \A c \in OpenStores : Kept(c)
  BY LeakIsUnkept DEF ChainInv
<1>6. CASE chains[k] # 0
  <2>1. bundle' = [bundle EXCEPT ![b] = Supervised!Closed(b)] /\ chains' = chains
    BY <1>6 DEF Supervised!Register, Supervised!Second, Supervised!None
  <2>2. OpenStores' = OpenStores \ {b}
    BY <1>1, <2>1, ClosedBundles
  <2>3. ChainTypes'
    BY <1>1, <1>3, <1>4, <2>1, ClosedBundles, HandlerFacts DEF ChainInv, ChainTypes, SomeBundle, Places
  <2>4. InHand(t)'
    BY <1>1, <1>3, <1>4, <2>2 DEF InHand
  <2>5. \A c \in OpenStores' : Kept(c)'
    BY <1>1, <1>3, <1>4, <1>5, <2>1, <2>2 DEF Kept, Hands, Listed
  <2>6. (\A j \in Keys : chains'[j] \in Listed) /\ \A c \in Hands(t)' : c \in {0} \cup Hands(t)
    BY <1>3, <1>4, <2>1 DEF Listed, Hands
  <2> QED
    BY <1>1, <1>3, <1>4, <2>2, <2>3, <2>4, <2>5, <2>6, OneMoves
<1>7. CASE chains[k] = 0
  <2>1. bundle' = bundle /\ chains' = [chains EXCEPT ![k] = b]
    BY <1>7 DEF Supervised!Register, Supervised!None
  <2>2. OpenStores' = OpenStores
    BY <2>1 DEF OpenStores
  <2>3. ChainTypes'
    BY <1>1, <1>3, <1>4, <2>1, HandlerFacts DEF ChainInv, ChainTypes, SomeBundle, Places
  <2>4. InHand(t)'
    BY <1>1, <1>3, <1>4, <2>2 DEF InHand
  <2>5. /\ \A j \in Keys : chains'[j] = IF j = k THEN b ELSE chains[j]
        /\ chains'[k] = b
    BY <1>1, <2>1 DEF ChainInv, ChainTypes
  <2>6. Listed \ {0} \subseteq Listed' /\ b \in Listed'
    BY <1>1, <1>7, <2>5 DEF Listed
  <2>7. 0 \notin OpenStores
    BY Numbers DEF OpenStores
  <2>8. \A c \in OpenStores' : Kept(c)'
    BY <1>1, <1>3, <1>4, <1>5, <2>2, <2>6, <2>7 DEF Kept, Hands
  <2>9. (\A j \in Keys : chains'[j] \in Hands(t) \cup Listed) /\ \A c \in Hands(t)' : c \in {0} \cup Hands(t)
    BY <1>3, <1>4, <2>5 DEF Listed, Hands
  <2> QED
    BY <1>1, <1>3, <1>4, <2>2, <2>3, <2>4, <2>8, <2>9, OneMoves
<1> QED
  BY <1>6, <1>7

LEMMA RemovePopsKeeps ==
  ASSUME ChainInv, NEW t \in Handlers, NEW k \in Keys, Supervised!RemovePops(t, k)
  PROVE  ChainInv'
<1> DEFINE w == [Supervised!Idle EXCEPT !.at = "clean", !.key = k, !.own = chains[k]]
<1>1. /\ starter[t].at = "idle" /\ chains[k] # 0 /\ chains' = [chains EXCEPT ![k] = 0]
      /\ UNCHANGED <<bundle, displaced>> /\ starter' = [starter EXCEPT ![t] = w]
  BY DEF Supervised!RemovePops, Supervised!Asks, Supervised!None
<1>2. DOMAIN w = ThreadFields /\ w.at = "clean" /\ w.key = k /\ w.own = chains[k] /\ w.old = 0
  BY DEF Supervised!Idle, Supervised!None, ThreadFields
<1> HIDE DEF w
<1>3. /\ starter'[t] = w /\ starter' = [starter EXCEPT ![t] = starter'[t]]
      /\ \A u \in Handlers \ {t} : starter'[u] = starter[u]
  BY <1>1 DEF ChainInv, ChainTypes
<1>4. /\ \A j \in Keys : chains'[j] = IF j = k THEN 0 ELSE chains[j]
      /\ chains[k] \in Supervised!Bundles /\ 0 \in SomeBundle
  BY <1>1 DEF ChainInv, ChainTypes, SomeBundle
<1>5. ChainTypes'
  BY <1>1, <1>2, <1>3, <1>4, HandlerFacts DEF ChainInv, ChainTypes, SomeBundle, Places
<1>6. OpenStores' = OpenStores /\ 0 \notin OpenStores
  BY <1>1, Numbers DEF OpenStores
<1>7. InHand(t)'
  BY <1>1, <1>2, <1>3, <1>6 DEF InHand
<1>8. /\ Listed \subseteq Listed' \cup Hands(t)' /\ Hands(t) = {0}
      /\ Hands(t)' \subseteq {0} \cup Listed /\ \A j \in Keys : chains'[j] \in {0} \cup Listed
  BY <1>1, <1>2, <1>3, <1>4, HandlerFacts DEF Listed, Hands, InHand
<1>9. \A c \in OpenStores : Kept(c)
  BY LeakIsUnkept DEF ChainInv
<1>10. \A c \in OpenStores' : Kept(c)'
  BY <1>1, <1>3, <1>6, <1>8, <1>9 DEF Kept, Hands
<1> QED
  BY <1>1, <1>2, <1>3, <1>5, <1>6, <1>7, <1>8, <1>10, OneMoves

LEMMA RemoveCleansKeeps == ASSUME ChainInv, NEW t \in Handlers, Supervised!RemoveCleans(t) PROVE ChainInv'
<1> DEFINE b == starter[t].own
<1>1. /\ starter[t].at = "clean" /\ UNCHANGED <<chains, displaced>> /\ b \in Supervised!Bundles
      /\ bundle' = [bundle EXCEPT ![b] = Supervised!Closed(b)] /\ starter' = [starter EXCEPT ![t].at = "unlink"]
  BY HandlerFacts DEF Supervised!RemoveCleans, Supervised!Goto, InHand, SomeBundle
<1>2. /\ DOMAIN starter'[t] = ThreadFields /\ starter'[t].at = "unlink" /\ starter'[t].own = b
      /\ starter'[t].old = starter[t].old /\ starter'[t].key = starter[t].key
      /\ starter' = [starter EXCEPT ![t] = starter'[t]]
      /\ \A u \in Handlers \ {t} : starter'[u] = starter[u]
  BY <1>1, HandlerFacts DEF ThreadFields, ChainInv, ChainTypes
<1>3. OpenStores' = OpenStores \ {b}
  BY <1>1, ClosedBundles
<1>4. ChainTypes'
  BY <1>1, <1>2, ClosedBundles, HandlerFacts DEF ChainInv, ChainTypes, SomeBundle, Places
<1>5. InHand(t)'
  BY <1>1, <1>2, <1>3, HandlerFacts, Numbers DEF InHand
<1>6. \A c \in OpenStores' : Kept(c)'
  BY <1>1, <1>2, <1>3, LeakIsUnkept DEF ChainInv, Kept, Hands, Listed
<1>7. (\A j \in Keys : chains'[j] \in Listed) /\ Hands(t)' = Hands(t)
  BY <1>1, <1>2 DEF Listed, Hands
<1> QED
  BY <1>1, <1>2, <1>3, <1>4, <1>5, <1>6, <1>7, OneMoves

LEMMA ReturnedKeeps ==
  ASSUME ChainInv, NEW t \in Handlers, starter[t].own \notin OpenStores, Supervised!Returns(t),
         UNCHANGED <<chains, bundle, displaced>>
  PROVE  ChainInv'
<1>1. /\ DOMAIN Supervised!Idle = ThreadFields /\ Supervised!Idle.at = "idle"
      /\ Supervised!Idle.own = 0 /\ Supervised!Idle.old = 0
  BY DEF Supervised!Idle, Supervised!None, ThreadFields
<1> QED
  BY <1>1, OnlyMoves DEF Supervised!Returns, Places

LEMMA RecentresKeeps == ASSUME ChainInv, Supervised!Recentres PROVE ChainInv'
<1> DEFINE t == "supervisor"
<1>1. PICK k \in Keys : starter' = [starter EXCEPT ![t] = [Supervised!Idle EXCEPT !.at = "pop", !.key = k]]
  BY DEF Supervised!Recentres, Supervised!Active, Supervised!Sup
<1> DEFINE w == [Supervised!Idle EXCEPT !.at = "pop", !.key = k]
<1>2. /\ t \in Handlers /\ starter[t].at = "idle" /\ UNCHANGED <<chains, bundle, displaced>>
      /\ 0 \notin OpenStores
  BY Numbers DEF Supervised!Recentres, Supervised!InLoop, Supervised!Sup, OpenStores
<1>3. DOMAIN w = ThreadFields /\ w.at = "pop" /\ w.key = k /\ w.own = 0 /\ w.old = 0
  BY DEF Supervised!Idle, Supervised!None, ThreadFields
<1>4. starter' = [starter EXCEPT ![t] = w]
  BY <1>1
<1> HIDE DEF w, t
<1>5. starter[t].own \notin OpenStores
  BY <1>2, HandlerFacts DEF InHand
<1> QED
  BY <1>2, <1>3, <1>4, <1>5, OnlyMoves DEF Places

LEMMA RecentrePopsKeeps == ASSUME ChainInv, Supervised!RecentrePops PROVE ChainInv'
<1> DEFINE t == "supervisor"
           k == starter[t].key
           b == chains[k]
           where == IF b = 0 THEN "start" ELSE "aside"
<1>1. /\ t \in Handlers /\ starter[t].at = "pop" /\ UNCHANGED <<bundle, displaced>>
      /\ chains' = [chains EXCEPT ![k] = 0] /\ starter' = [starter EXCEPT ![t].own = b, ![t].at = where]
  BY Numbers DEF Supervised!RecentrePops, Supervised!Sup, Supervised!None
<1> HIDE DEF t, where
<1>2. /\ DOMAIN starter'[t] = ThreadFields /\ starter'[t].at = where /\ starter'[t].own = b
      /\ starter'[t].old = starter[t].old /\ starter'[t].key = k /\ k \in Keys /\ starter[t].own = 0
      /\ starter' = [starter EXCEPT ![t] = starter'[t]]
      /\ \A u \in Handlers \ {t} : starter'[u] = starter[u]
  BY <1>1, HandlerFacts DEF ThreadFields, InHand, ChainInv, ChainTypes
<1>3. /\ \A j \in Keys : chains'[j] = IF j = k THEN 0 ELSE chains[j]
      /\ b \in SomeBundle /\ 0 \in SomeBundle
  BY <1>1, <1>2 DEF ChainInv, ChainTypes, SomeBundle
<1>4. where \in {"start", "aside"} /\ (where = "start" <=> b = 0)
  BY DEF where
<1>5. ChainTypes'
  BY <1>1, <1>2, <1>3, <1>4, HandlerFacts DEF ChainInv, ChainTypes, Places
<1>6. OpenStores' = OpenStores /\ 0 \notin OpenStores
  BY <1>1, Numbers DEF OpenStores
<1>7. InHand(t)'
  BY <1>1, <1>2, <1>4, <1>6, HandlerFacts DEF InHand
<1>8. /\ Listed \subseteq Listed' \cup Hands(t)' /\ Hands(t) \subseteq {0} \cup Hands(t)'
      /\ Hands(t)' \subseteq Hands(t) \cup Listed /\ \A j \in Keys : chains'[j] \in {0} \cup Listed
  BY <1>2, <1>3 DEF Listed, Hands
<1>9. ASSUME NEW c \in OpenStores PROVE Kept(c)'
  <2>1. Kept(c) /\ c # 0
    BY <1>6, LeakIsUnkept DEF ChainInv
  <2>2. CASE c \in Listed \cup Hands(t)
    <3>1. c \in Listed' \cup Hands(t)'
      BY <1>8, <2>1, <2>2
    <3> QED
      BY <1>1, <3>1 DEF Kept
  <2>3. CASE c \notin Listed \cup Hands(t)
    BY <1>1, <1>2, <2>1, <2>3 DEF Kept, Hands
  <2> QED
    BY <2>2, <2>3
<1>10. \A c \in OpenStores' : Kept(c)'
  BY <1>6, <1>9
<1> QED
  BY <1>1, <1>2, <1>4, <1>5, <1>6, <1>7, <1>8, <1>10, OneMoves

LEMMA RecentreCleansKeeps == ASSUME ChainInv, Supervised!RecentreCleans PROVE ChainInv'
<1> DEFINE t == "supervisor"
           b == starter[t].own
<1>1. /\ t \in Handlers /\ starter[t].at = "aside" /\ UNCHANGED <<chains, displaced>>
      /\ bundle' = [bundle EXCEPT ![b] = Supervised!Closed(b)]
      /\ starter' = [starter EXCEPT ![t].own = 0, ![t].old = b, ![t].at = "start"]
  BY Numbers DEF Supervised!RecentreCleans, Supervised!Sup, Supervised!None
<1> HIDE DEF t
<1>2. /\ DOMAIN starter'[t] = ThreadFields /\ starter'[t].at = "start" /\ starter'[t].own = 0
      /\ starter'[t].old = b /\ starter'[t].key = starter[t].key /\ b \in Supervised!Bundles
      /\ starter' = [starter EXCEPT ![t] = starter'[t]] /\ starter[t].old \notin OpenStores
      /\ \A u \in Handlers \ {t} : starter'[u] = starter[u]
  BY <1>1, HandlerFacts DEF ThreadFields, InHand, SomeBundle, ChainInv, ChainTypes
<1>3. OpenStores' = OpenStores \ {b} /\ 0 \notin OpenStores
  BY <1>1, <1>2, ClosedBundles, Numbers DEF OpenStores
<1>4. ChainTypes'
  BY <1>1, <1>2, ClosedBundles, HandlerFacts DEF ChainInv, ChainTypes, SomeBundle, Places
<1>5. InHand(t)'
  BY <1>2, <1>3 DEF InHand
<1>6. /\ \A j \in Keys : chains'[j] \in Listed
      /\ Hands(t) = {b, starter[t].old} /\ Hands(t)' = {0, b} /\ Listed' = Listed
  BY <1>1, <1>2 DEF Listed, Hands
<1>7. ASSUME NEW c \in OpenStores \ {b} PROVE Kept(c)'
  <2>1. Kept(c) /\ c \notin Hands(t)
    BY <1>2, <1>6, LeakIsUnkept DEF ChainInv
  <2> QED
    BY <1>1, <1>2, <1>6, <2>1 DEF Kept, Hands
<1>8. \A c \in OpenStores' : Kept(c)'
  BY <1>3, <1>7
<1> QED
  BY <1>1, <1>2, <1>3, <1>4, <1>5, <1>6, <1>8, OneMoves

LEMMA RecentreStartsKeeps == ASSUME ChainInv, Supervised!RecentreStarts PROVE ChainInv'
<1> DEFINE t == "supervisor"
           where == CASE Supervised!MayStart(starter[t].key) -> "build"
                      [] chains[starter[t].key] # 0 -> "recentred"
                      [] OTHER -> "restore"
<1>1. /\ t \in Handlers /\ starter[t].at = "start" /\ UNCHANGED <<chains, bundle, displaced>>
      /\ starter' = [starter EXCEPT ![t].attempt = 1, ![t].at = where]
  BY Numbers DEF Supervised!RecentreStarts, Supervised!Sup, Supervised!None
<1>2. where \in {"build", "recentred", "restore"}
  OBVIOUS
<1> HIDE DEF where, t
<1>3. /\ DOMAIN starter'[t] = ThreadFields /\ starter'[t].at = where /\ starter'[t].key = starter[t].key
      /\ starter'[t].own = 0 /\ starter'[t].old = starter[t].old /\ starter[t].key \in Keys /\ starter[t].own = 0
      /\ starter' = [starter EXCEPT ![t] = starter'[t]]
  BY <1>1, HandlerFacts DEF ThreadFields, InHand, ChainInv, ChainTypes
<1>4. 0 \notin OpenStores
  BY Numbers DEF OpenStores
<1> QED
  BY <1>1, <1>2, <1>3, <1>4, OnlyMoves DEF Places

LEMMA RecentreEndsKeeps == ASSUME ChainInv, Supervised!RecentreEnds PROVE ChainInv'
<1> DEFINE t == "supervisor"
           k == starter[t].key
           b == starter[t].old
<1>1. /\ t \in Handlers /\ starter[t].at \in {"recentred", "restore"} /\ bundle' = bundle /\ Supervised!Returns(t)
      /\ \/ UNCHANGED <<chains, displaced>>
         \/ /\ displaced' = displaced \cup ({chains[k]} \ {0})
            /\ chains' = [chains EXCEPT ![k] = b]
  BY Numbers DEF Supervised!RecentreEnds, Supervised!Sup, Supervised!None
<1> HIDE DEF t
<1>2. starter[t].own = 0 /\ 0 \notin OpenStores /\ b \in SomeBundle /\ b \notin OpenStores /\ k \in Keys
  BY <1>1, HandlerFacts, Numbers DEF InHand, OpenStores
<1>3. CASE UNCHANGED <<chains, displaced>>
  BY <1>1, <1>2, <1>3, ReturnedKeeps
<1>4. CASE displaced' = displaced \cup ({chains[k]} \ {0}) /\ chains' = [chains EXCEPT ![k] = b]
  <2>1. starter' = [starter EXCEPT ![t] = Supervised!Idle]
    BY <1>1 DEF Supervised!Returns
  <2>2. /\ DOMAIN Supervised!Idle = ThreadFields /\ Supervised!Idle.at = "idle"
        /\ Supervised!Idle.own = 0 /\ Supervised!Idle.old = 0
    BY DEF Supervised!Idle, Supervised!None, ThreadFields
  <2>3. /\ starter'[t] = Supervised!Idle /\ starter' = [starter EXCEPT ![t] = starter'[t]]
        /\ \A u \in Handlers \ {t} : starter'[u] = starter[u]
    BY <1>1, <2>1 DEF ChainInv, ChainTypes
  <2>4. /\ \A j \in Keys : chains'[j] = IF j = k THEN b ELSE chains[j]
        /\ chains[k] \in SomeBundle /\ 0 \in SomeBundle
    BY <1>2, <1>4 DEF ChainInv, ChainTypes, SomeBundle
  <2>5. OpenStores' = OpenStores
    BY <1>1 DEF OpenStores
  <2>6. ChainTypes'
    BY <1>1, <1>2, <1>4, <2>2, <2>3, <2>4, HandlerFacts DEF ChainInv, ChainTypes, SomeBundle, Places
  <2>7. InHand(t)'
    BY <1>2, <2>2, <2>3, <2>5 DEF InHand
  <2>8. Listed \ {0} \subseteq Listed' \cup displaced' /\ displaced \subseteq displaced'
    BY <1>4, <2>4 DEF Listed
  <2>9. \A c \in OpenStores : Kept(c) /\ c # 0 /\ c \notin Hands(t)
    BY <1>2, LeakIsUnkept DEF ChainInv, Hands
  <2>10. \A c \in OpenStores' : Kept(c)'
    BY <1>1, <2>3, <2>5, <2>8, <2>9 DEF Kept, Hands
  <2>11. (\A j \in Keys : chains'[j] \in Hands(t) \cup Listed) /\ \A c \in Hands(t)' : c = 0
    BY <2>2, <2>3, <2>4 DEF Listed, Hands
  <2> QED
    BY <1>1, <2>2, <2>3, <2>5, <2>6, <2>7, <2>10, <2>11, OneMoves
<1> QED
  BY <1>1, <1>3, <1>4

LEMMA BreaksKeeps ==
  ASSUME ChainInv, NEW b \in Supervised!Bundles, Supervised!StoreBreaks(b)
  PROVE  ChainInv'
<1>1. /\ bundle[b].store = "open" /\ bundle' = [bundle EXCEPT ![b].store = "broken"]
      /\ UNCHANGED <<chains, starter, displaced>>
  BY DEF Supervised!StoreBreaks
<1>2. /\ DOMAIN bundle' = Supervised!Bundles /\ DOMAIN bundle'[b] = {"oc", "store"} /\ bundle'[b].store = "broken"
      /\ \A c \in Supervised!Bundles \ {b} : bundle'[c] = bundle[c]
  BY <1>1 DEF ChainInv, ChainTypes
<1>3. OpenStores' = OpenStores
  BY <1>1, <1>2 DEF OpenStores
<1>4. ChainTypes'
  BY <1>1, <1>2 DEF ChainInv, ChainTypes
<1>5. NoStoreLeaked'
  BY <1>1, <1>3 DEF ChainInv, NoStoreLeaked, Supervised!NoStoreLeaked, OpenStores
<1> QED
  BY <1>1, <1>3, <1>4, <1>5 DEF ChainInv, InHand, Alone

(* What the loop retries are keys. *)
LoopInv == loop.phase = "retry" => loop.todo \subseteq Keys

LEMMA NextLoop == LoopInv /\ [Supervised!Next]_Supervised!vars => LoopInv'
<1> SUFFICES ASSUME LoopInv, [Supervised!Next]_Supervised!vars PROVE LoopInv'
  OBVIOUS
<1> USE DEF LoopInv
<1>1. ASSUME NEW t \in Handlers, Supervised!Starting(t) PROVE LoopInv'
  BY <1>1 DEF Supervised!Starting, Supervised!Build, Supervised!OpenStore, Supervised!Register,
              Supervised!RemoveCleans, Supervised!RemoveUnlinks
<1>2. ASSUME NEW t \in Users, NEW k \in Keys, Supervised!EnsureChain(t, k) \/ Supervised!RemovePops(t, k)
      PROVE  LoopInv'
  BY <1>2 DEF Supervised!EnsureChain, Supervised!RemovePops
<1>3. ASSUME NEW phase \in {"write", "recentre", "recentred", "snapshots"}, NEW todo, Supervised!Phase(phase, todo)
      PROVE  LoopInv'
  BY <1>3 DEF Supervised!Phase
<1>4. CASE Supervised!LoopLists \/ Supervised!WriteSnapshot \/ Supervised!LoopWritten
           \/ Supervised!Recentres \/ Supervised!LoopEnds
  BY <1>3, <1>4 DEF Supervised!LoopLists, Supervised!WriteSnapshot, Supervised!LoopWritten,
                    Supervised!Recentres, Supervised!LoopEnds
<1>5. CASE Supervised!RecentrePops \/ Supervised!RecentreCleans \/ Supervised!RecentreStarts \/ Supervised!RecentreEnds
  BY <1>5 DEF Supervised!RecentrePops, Supervised!RecentreCleans, Supervised!RecentreStarts, Supervised!RecentreEnds
<1>6. CASE Supervised!LoopRecentred
  BY <1>6 DEF Supervised!LoopRecentred, Supervised!Phase
<1>7. CASE Supervised!LoopRetries
  BY <1>7 DEF Supervised!LoopRetries, Supervised!Phase, Supervised!InLoop
<1>8. ASSUME NEW k \in Keys, Supervised!BackoffEnds(k) PROVE LoopInv'
  BY <1>8 DEF Supervised!BackoffEnds
<1>9. ASSUME NEW b \in Supervised!Bundles, Supervised!StoreBreaks(b) PROVE LoopInv'
  BY <1>9 DEF Supervised!StoreBreaks
<1>10. CASE UNCHANGED Supervised!vars
  BY <1>10 DEF Supervised!vars
<1> QED
  BY <1>1, <1>2, <1>4, <1>5, <1>6, <1>7, <1>8, <1>9, <1>10 DEF Supervised!Next, Supervised!Loop, Handlers

LEMMA NextChains == ChainInv /\ LoopInv /\ [Supervised!Next]_Supervised!vars => ChainInv'
<1> SUFFICES ASSUME ChainInv, LoopInv, [Supervised!Next]_Supervised!vars PROVE ChainInv'
  OBVIOUS
<1>1. ASSUME UNCHANGED <<chains, bundle, starter, displaced>> PROVE ChainInv'
  BY <1>1 DEF ChainInv, ChainTypes, NoStoreLeaked, Supervised!NoStoreLeaked, InHand, Alone, OpenStores
<1>2. ASSUME NEW t \in Handlers, Supervised!Starting(t) PROVE ChainInv'
  <2>1. CASE Supervised!RemoveUnlinks(t)
    <3>1. starter[t].own \notin OpenStores
      BY <2>1, HandlerFacts DEF Supervised!RemoveUnlinks, InHand
    <3> QED
      BY <2>1, <3>1, ReturnedKeeps DEF Supervised!RemoveUnlinks
  <2> QED
    BY <1>2, <2>1, BuildKeeps, OpenKeeps, RegisterKeeps, RemoveCleansKeeps DEF Supervised!Starting
<1>3. ASSUME NEW t \in Users, NEW k \in Keys, Supervised!EnsureChain(t, k) \/ Supervised!RemovePops(t, k)
      PROVE  ChainInv'
  BY <1>3, StartKeeps, RemovePopsKeeps, Numbers DEF Supervised!EnsureChain, Supervised!Asks
<1>4. CASE Supervised!LoopRetries
  <2>1. PICK k \in Keys : starter' = IF Supervised!MayStart(k) /\ Supervised!Retried(k)
                    THEN [starter EXCEPT !["supervisor"] = [Supervised!Idle EXCEPT !.at = "build", !.key = k,
                                                    !.attempt = 1]]
                    ELSE starter
    BY <1>4 DEF Supervised!LoopRetries, Supervised!InLoop, LoopInv, Supervised!Sup
  <2> QED
    BY <1>1, <1>4, <2>1, StartKeeps, Numbers DEF Supervised!LoopRetries, Supervised!InLoop, Supervised!Sup
<1>5. CASE Supervised!Loop
  BY <1>1, <1>4, <1>5, RecentresKeeps, RecentrePopsKeeps, RecentreCleansKeeps, RecentreStartsKeeps, RecentreEndsKeeps
  DEF Supervised!Loop, Supervised!LoopLists, Supervised!WriteSnapshot, Supervised!LoopWritten,
      Supervised!LoopRecentred, Supervised!LoopEnds
<1>6. ASSUME NEW k \in Keys, Supervised!BackoffEnds(k) PROVE ChainInv'
  BY <1>1, <1>6 DEF Supervised!BackoffEnds
<1>7. CASE UNCHANGED Supervised!vars
  BY <1>1, <1>7 DEF Supervised!vars
<1> QED
  BY <1>2, <1>3, <1>5, <1>6, <1>7, BreaksKeeps DEF Supervised!Next, Handlers

(* Starts that race, stores that do not open, removals and recentrings in   *)
(* any order, of any chains by any threads: no open store is lost, but for  *)
(* those of chains that a failed recentring has displaced.                  *)
THEOREM StoresAreHeld == Supervised!Spec => []NoStoreLeaked
<1>1. ChainInv => NoStoreLeaked
  BY DEF ChainInv
<1>2. Supervised!Init => LoopInv
  BY DEF Supervised!Init, LoopInv
<1> QED
  BY InitChains, NextChains, NextLoop, <1>1, <1>2, PTL DEF Supervised!Spec
=============================================================================
