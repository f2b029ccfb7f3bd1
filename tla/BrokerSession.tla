----------------------------- MODULE BrokerSession -----------------------------
(* ShoonyaClient: the session every broker call of the bot depends on, its *)
(* validation, the recovery by a new login, and the retry of an order      *)
(* whose answer was empty.                                                 *)
(*                                                                         *)
(* The watcher, the risk manager, the webhook threads and the dashboard    *)
(* share one client.  Its flags are read and written without a lock: the   *)
(* look at them, the entry into a login and each request to the broker are *)
(* steps of their own.                                                     *)
(*                                                                         *)
(* Simplifications: the ages of the session are the two bits that the code *)
(* computes from them, which time may clear at any moment; pauses are left *)
(* out; reads of the same form are one operation.                          *)
EXTENDS Integers, FiniteSets

CONSTANTS
  Threads,     \* threads of the bot
  MaxRetries,  \* ORDER_MAX_RETRY_ATTEMPTS
  MaxLogins,   \* attempts of one login
  MaxCalls,    \* bound on the calls made
  MaxExpiries  \* bound on the ends of the session at the broker, and of its ages

(* order: place_order; change: modify_order, cancel_order; read:           *)
(* get_positions, get_order_book; look: get_holdings, searchscrip,         *)
(* get_quotes, get_ltp, get_time_price_series, get_option_chain.           *)
Ops == {"order", "change", "read", "look"}

VARIABLES
  loggedIn,    \* _logged_in
  fresh,       \* validated and used within the last five minutes
  young,       \* last_login_time is less than two hours ago
  loggingIn,   \* _login_in_progress
  recovering,  \* _session_recovery_in_progress
  valid,       \* the broker accepts the session
  held,        \* the account has open positions
  pc,          \* per thread: where it is
  call,        \* per thread: the call it makes
  bound        \* counters for the bounds

vars == <<loggedIn, fresh, young, loggingIn, recovering, valid, held, pc, call, bound>>

NoCall == [op |-> "none", attempt |-> 0, tries |-> 0, why |-> "none", owner |-> FALSE,
           sent |-> 0, unclear |-> 0, placed |-> 0, heldAll |-> TRUE, result |-> "none"]

Init ==
  /\ loggedIn = TRUE /\ fresh = TRUE /\ young = TRUE
  /\ loggingIn = FALSE /\ recovering = FALSE
  /\ valid = TRUE /\ held \in BOOLEAN
  /\ pc = [t \in Threads |-> "idle"]
  /\ call = [t \in Threads |-> NoCall]
  /\ bound = [calls |-> 0, expiries |-> 0]

flags == <<loggedIn, fresh, young, loggingIn, recovering>>
broker == <<valid, held>>

Goto(t, where) == pc' = [pc EXCEPT ![t] = where]

Ends(t, result) ==
  /\ Goto(t, "done")
  /\ call' = [call EXCEPT ![t].result = result]

-----------------------------------------------------------------------------
(* A call begins with ensure_session; bot.force_login, which would end the *)
(* session first, is called by nothing.                                    *)
Begin(t, op) ==
  /\ pc[t] = "idle" /\ bound.calls < MaxCalls
  /\ bound' = [bound EXCEPT !.calls = @ + 1]
  /\ Goto(t, "ensure")
  /\ call' = [call EXCEPT ![t] = [NoCall EXCEPT !.op = op, !.attempt = 1, !.heldAll = held]]
  /\ UNCHANGED <<flags, broker>>

-----------------------------------------------------------------------------
(* ensure_session: the flags decide. *)
Ensure(t) ==
  /\ pc[t] = "ensure"
  /\ call' = [call EXCEPT ![t].why = "session"]
  /\ Goto(t, CASE ~loggedIn                         -> "check"
               [] loggedIn /\ fresh                 -> "send"
               [] loggedIn /\ ~fresh /\ recovering  -> "wait"
               [] loggedIn /\ ~fresh /\ ~recovering -> "validate")
  /\ UNCHANGED <<flags, broker, bound>>

(* Another thread recovers: ten seconds at most. *)
Wait(t) ==
  /\ pc[t] = "wait"
  /\ IF loggedIn THEN Goto(t, "send") /\ UNCHANGED call ELSE Ends(t, "raised")
  /\ UNCHANGED <<flags, broker, bound>>

(* An answer counts as valid unless it says that the session has expired:  *)
(* no answer and an error of another kind do.                              *)
Validated(t) ==
  /\ pc[t] = "validate"
  /\ fresh' = TRUE /\ Goto(t, "send")
  /\ UNCHANGED <<loggedIn, young, loggingIn, recovering, broker, call, bound>>

(* Expired, or an exception on the way. *)
NotValidated(t) ==
  /\ pc[t] = "validate"
  /\ loggedIn' = FALSE /\ recovering' = TRUE
  /\ Goto(t, "check")
  /\ call' = [call EXCEPT ![t].owner = TRUE]
  /\ UNCHANGED <<fresh, young, loggingIn, broker, bound>>

-----------------------------------------------------------------------------

(* The flag of a recovery is cleared by the thread that has set it. *)
RecoveringAfter(t, ok) == IF call[t].owner THEN FALSE ELSE recovering

(* What a finished login is followed by: the call, for an order another    *)
(* attempt at it while there is one, an exception when it failed.          *)
LoginReturns(t, ok) ==
  /\ recovering' = RecoveringAfter(t, ok)
  /\ LET again == call[t].why = "retry" /\ call[t].attempt >= MaxRetries
     IN /\ Goto(t, IF ok /\ ~again THEN "send" ELSE "done")
        /\ call' = [call EXCEPT
             ![t].owner = FALSE,
             ![t].attempt = IF call[t].why = "retry" THEN @ + 1 ELSE @,
             ![t].result = CASE ~ok -> "raised" [] ok /\ again -> "unavailable"
                             [] OTHER -> @]

(* login: the flag is looked at before the lock is taken. *)
Check(t) ==
  /\ pc[t] = "check"
  /\ IF loggingIn THEN LoginReturns(t, FALSE)
     ELSE Goto(t, "enter") /\ UNCHANGED <<call, recovering>>
  /\ UNCHANGED <<loggedIn, fresh, young, loggingIn, broker, bound>>

Enter(t) ==
  /\ pc[t] = "enter"
  /\ IF loggedIn /\ young
     THEN LoginReturns(t, TRUE) /\ UNCHANGED loggingIn
     ELSE /\ loggingIn' = TRUE /\ Goto(t, "try")
          /\ call' = [call EXCEPT ![t].tries = 1]
          /\ UNCHANGED recovering
  /\ UNCHANGED <<loggedIn, fresh, young, broker, bound>>

LoginWorks(t) ==
  /\ pc[t] = "try"
  /\ loggedIn' = TRUE /\ fresh' = TRUE /\ young' = TRUE /\ valid' = TRUE
  /\ loggingIn' = FALSE /\ LoginReturns(t, TRUE)
  /\ UNCHANGED <<held, bound>>

LastTry(n) == n >= MaxLogins

(* finally: the flag of the login is cleared. *)
AfterFailure(flag) == FALSE

LoginFails(t) ==
  /\ pc[t] = "try"
  /\ IF LastTry(call[t].tries)
     THEN LoginReturns(t, FALSE) /\ loggingIn' = AfterFailure(loggingIn)
     ELSE /\ call' = [call EXCEPT ![t].tries = (@ % MaxLogins) + 1]
          /\ UNCHANGED <<pc, loggingIn, recovering>>
  /\ UNCHANGED <<loggedIn, fresh, young, broker, bound>>

-----------------------------------------------------------------------------
(* The call itself.  What a session the broker has ended is answered is an *)
(* error.                                                                  *)
(* Mutation: an order that was refused is sent again too. *)
SentAgainAlways(answer) == answer \in {"empty", "rejected"}

(* Only an empty answer is followed by another attempt. *)
SentAgain(answer) == answer = "empty"

SendOrder(t) ==
  /\ pc[t] = "send" /\ call[t].op = "order"
  /\ \E answer \in {"accepted", "rejected", "empty", "exception"} : \E n \in {0, 1} :
       /\ answer = "accepted" => n = 1 /\ valid
       /\ n = 1 => valid /\ answer # "rejected"
       /\ LET sent == [call[t] EXCEPT !.sent = @ + 1, !.placed = @ + n, !.why = "retry",
                         !.unclear = IF answer \in {"empty", "exception"} THEN @ + 1 ELSE @]
          IN IF SentAgain(answer)
             THEN /\ loggedIn' = FALSE /\ Goto(t, "check")
                  /\ call' = [call EXCEPT ![t] = sent]
             ELSE /\ Goto(t, "done") /\ UNCHANGED loggedIn
                  /\ call' = [call EXCEPT ![t] = [sent EXCEPT !.result = answer]]
  /\ UNCHANGED <<fresh, young, loggingIn, recovering, broker, bound>>

SendChange(t) ==
  /\ pc[t] = "send" /\ call[t].op = "change"
  /\ \E answer \in {"answered", "failed"} :
       /\ Goto(t, "done")
       /\ call' = [call EXCEPT ![t].sent = @ + 1, ![t].result = answer]
  /\ UNCHANGED <<flags, broker, bound>>

(* What a list of positions or orders becomes: an error, no answer and an  *)
(* answer of another form are an empty list.                               *)
Normalised(answer) == IF answer = "list" THEN IF held THEN "held" ELSE "flat" ELSE "flat"

SendRead(t) ==
  /\ pc[t] = "send" /\ call[t].op = "read"
  /\ \E answer \in {"list", "error", "none", "exception"} :
       /\ answer = "list" => valid
       /\ Goto(t, "done")
       /\ call' = [call EXCEPT ![t].sent = @ + 1,
                     ![t].result = IF answer = "exception" THEN "raised" ELSE Normalised(answer)]
  /\ UNCHANGED <<flags, broker, bound>>

SendLook(t) ==
  /\ pc[t] = "send" /\ call[t].op = "look"
  /\ \E answer \in {"data", "nothing"} :
       /\ Goto(t, "done")
       /\ call' = [call EXCEPT ![t].sent = @ + 1, ![t].result = answer]
  /\ UNCHANGED <<flags, broker, bound>>

Return(t) ==
  /\ pc[t] = "done" /\ Goto(t, "idle")
  /\ call' = [call EXCEPT ![t] = NoCall]
  /\ UNCHANGED <<flags, broker, bound>>

-----------------------------------------------------------------------------
(* The broker and time. *)
Expires ==
  /\ valid /\ bound.expiries < MaxExpiries
  /\ valid' = FALSE /\ bound' = [bound EXCEPT !.expiries = @ + 1]
  /\ UNCHANGED <<flags, held, pc, call>>

Ages ==
  /\ bound.expiries < MaxExpiries /\ fresh
  /\ fresh' = FALSE /\ young' \in {young, FALSE}
  /\ bound' = [bound EXCEPT !.expiries = @ + 1]
  /\ UNCHANGED <<loggedIn, loggingIn, recovering, broker, pc, call>>

Trades ==
  /\ bound.expiries < MaxExpiries
  /\ held' = ~held
  /\ call' = [t \in Threads |-> [call[t] EXCEPT !.heldAll = FALSE]]
  /\ bound' = [bound EXCEPT !.expiries = @ + 1]
  /\ UNCHANGED <<flags, valid, pc>>

Step(t) ==
  \/ Ensure(t) \/ Wait(t) \/ Validated(t) \/ NotValidated(t)
  \/ Check(t) \/ Enter(t) \/ LoginWorks(t) \/ LoginFails(t)
  \/ SendOrder(t) \/ SendChange(t) \/ SendRead(t) \/ SendLook(t) \/ Return(t)

Next ==
  \/ \E t \in Threads : Step(t) \/ \E op \in Ops : Begin(t, op)
  \/ Expires \/ Ages \/ Trades

Spec == Init /\ [][Next]_vars

(* Each thread runs: it waits for no other. *)
FairSpec == Spec /\ \A t \in Threads : WF_vars(Step(t))

-----------------------------------------------------------------------------
(* The flag of a login is set only while a thread is logging in, the flag  *)
(* of a recovery only while one recovers: a login that fails leaves        *)
(* nothing behind that would have every later one refused until a restart. *)
FlagsAreReleased ==
  /\ loggingIn => \E t \in Threads : pc[t] = "try"
  /\ recovering => \E t \in Threads : call[t].owner

(* An order the broker has answered is not sent again: the broker has at   *)
(* most one order more than there were answers that left it open.          *)
AnsweredOrdersStay ==
  \A t \in Threads :
    call[t].op = "order" =>
      /\ call[t].placed <= call[t].unclear + (IF call[t].result = "accepted" THEN 1 ELSE 0)
      /\ call[t].sent <= call[t].unclear + 1 /\ call[t].sent <= MaxRetries

(* Every call comes back, whatever the broker answers and however many     *)
(* threads recover at once.                                                *)
CallEnds(t) == (pc[t] # "idle") ~> (pc[t] = "idle")
EveryCallEnds == \A t \in Threads : CallEnds(t)

(* What get_positions says of itself: an empty list means that the broker  *)
(* has confirmed it.                                                       *)
EmptyMeansFlat ==
  \A t \in Threads : ~(call[t].op = "read" /\ call[t].result = "flat" /\ call[t].heldAll)
=============================================================================
