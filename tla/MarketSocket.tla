------------------------------ MODULE MarketSocket ------------------------------
(* The socket the ticks come through: ShoonyaClient's start_websocket with *)
(* its reconnection, the subscriptions of live_feed, and the restart of    *)
(* the feed by the option chain supervisor.                                *)
(*                                                                         *)
(* Two books list the subscribed tokens: the client's, which the worker of *)
(* a reconnection sends again, and live_feed's, against which a request is *)
(* compared first.  The broker forgets its own with every connection.      *)
(* External: the library opens a lost socket again by itself, and a token  *)
(* sent while the socket is down waits for it with the lock held.          *)
(* Left out: the delays, the session (a request for it works or raises).   *)
EXTENDS Integers, FiniteSets

CONSTANTS
  Wanted,        \* [Subscribers -> SUBSET tokens]: the tokens each thread asks for
  Supervisor,    \* the subscriber that restarts the feed
  Workers,       \* threads of reconnections
  MaxAttempts,   \* WS_MAX_RECONNECT_ATTEMPTS
  MaxLosses,     \* bound on the losses of the connection
  MaxRecoveries  \* bound on the restarts by the supervisor

Subscribers == DOMAIN Wanted

VARIABLES
  socket,    \* "off", "down", "up"
  handler,   \* what is called when it closes: "none", "enhanced", "plain"
  ws,        \* _ws_running, _ws_auto_reconnect, _ws_reconnect_in_progress, attempts
  mine,      \* the client's _subscribed_tokens
  feed,      \* live_feed.subscribed_tokens
  atBroker,  \* what the broker sends ticks of
  lock,      \* the holder of _api_lock
  worker,    \* per worker of a reconnection: where it is
  sub,       \* per subscriber: where it is, and the tokens it sends
  restored,  \* a worker has sent the tokens and the connection still stands
  recovered, \* the supervisor has restarted the feed, and the same
  bound

vars == <<socket, handler, ws, mine, feed, atBroker, lock, worker, sub, restored, recovered,
          bound>>
books == <<mine, feed>>

Init ==
  /\ socket = "off" /\ handler = "none"
  /\ ws = [running |-> FALSE, auto |-> TRUE, busy |-> FALSE, attempts |-> 0]
  /\ mine = {} /\ feed = {} /\ atBroker = {} /\ lock = "free"
  /\ worker = [w \in Workers |-> "none"]
  /\ sub = [s \in Subscribers |-> [at |-> "idle", tokens |-> {}]]
  /\ restored = FALSE /\ recovered = FALSE
  /\ bound = [losses |-> 0, recoveries |-> 0]

-----------------------------------------------------------------------------
(* A new connection: the broker has no subscription of it. *)
Connects(onClose) ==
  /\ socket' = "down" /\ handler' = onClose /\ atBroker' = {}
  /\ restored' = FALSE /\ recovered' = FALSE

(* start_live_feed: start_websocket of the client. *)
Starts ==
  /\ lock = "free"
  /\ ws' = [ws EXCEPT !.running = TRUE, !.attempts = 0]
  /\ Connects("enhanced")

(* Startup: three attempts, one of which has a session. *)
StartFeed ==
  /\ socket = "off" /\ Starts
  /\ UNCHANGED <<books, lock, worker, sub, bound>>

LibraryOpens ==
  /\ socket = "down" /\ socket' = "up"
  /\ UNCHANGED <<handler, ws, books, atBroker, lock, worker, sub, restored, recovered, bound>>

(* The enhanced handler starts a worker, unless one is busy or the feed    *)
(* was stopped; it starts counting anew instead of giving up.              *)
Answered == handler = "enhanced" /\ ws.running /\ ws.auto /\ ~ws.busy

Lost ==
  /\ socket = "up" /\ bound.losses < MaxLosses
  /\ bound' = [bound EXCEPT !.losses = @ + 1]
  /\ socket' = "down" /\ atBroker' = {} /\ restored' = FALSE /\ recovered' = FALSE
  /\ IF Answered
     THEN /\ ws' = [ws EXCEPT !.attempts = IF @ >= MaxAttempts THEN 0 ELSE @]
          /\ \E w \in Workers :
               worker[w] = "none" /\ worker' = [worker EXCEPT ![w] = "started"]
     ELSE UNCHANGED <<ws, worker>>
  /\ UNCHANGED <<handler, books, lock, sub>>

-----------------------------------------------------------------------------
(* The worker of a reconnection. *)
Moves(w, from, to) == worker[w] = from /\ worker' = [worker EXCEPT ![w] = to]

WorkerBegins(w) ==
  /\ Moves(w, "started", "delay")
  /\ ws' = [ws EXCEPT !.busy = TRUE]
  /\ UNCHANGED <<socket, handler, books, atBroker, lock, sub, restored, recovered, bound>>

WorkerDrops(w) ==
  /\ lock = "free" /\ Moves(w, "delay", "session")
  /\ ws' = [ws EXCEPT !.attempts = @ + 1]
  /\ UNCHANGED <<socket, handler, books, atBroker, lock, sub, restored, recovered, bound>>

(* finally: whatever happened, the reconnection is no longer in progress. *)
BusyAfter(worked) == FALSE

WorkerEnds(w, worked) ==
  /\ worker' = [worker EXCEPT ![w] = "none"]
  /\ ws' = [ws EXCEPT !.busy = BusyAfter(worked), !.attempts = IF worked THEN 0 ELSE @]

WorkerSession(w) ==
  /\ worker[w] = "session"
  /\ \/ Moves(w, "session", "restart") /\ UNCHANGED ws
     \/ WorkerEnds(w, FALSE)
  /\ UNCHANGED <<socket, handler, books, atBroker, lock, sub, restored, recovered, bound>>

(* The socket is started again, with the handler that only logs. *)
WorkerRestarts(w) ==
  /\ lock = "free" /\ Moves(w, "restart", "tokens")
  /\ Connects("plain")
  /\ UNCHANGED <<ws, books, lock, sub, bound>>

(* Mutation: the list of live_feed is sent again. *)
SentAgainFeed == feed

SentAgain == mine

WorkerTakes(w) ==
  /\ worker[w] = "tokens"
  /\ IF SentAgain = {} THEN WorkerEnds(w, TRUE) /\ UNCHANGED lock
     ELSE lock = "free" /\ lock' = w /\ Moves(w, "tokens", "sending") /\ UNCHANGED ws
  /\ UNCHANGED <<socket, handler, books, atBroker, sub, restored, recovered, bound>>

WorkerSends(w) ==
  /\ worker[w] = "sending" /\ socket = "up" /\ lock' = "free"
  /\ \/ /\ atBroker' = atBroker \cup SentAgain /\ restored' = TRUE
        /\ WorkerEnds(w, TRUE)
     \/ WorkerEnds(w, FALSE) /\ UNCHANGED <<atBroker, restored>>
  /\ UNCHANGED <<socket, handler, books, sub, recovered, bound>>

-----------------------------------------------------------------------------
(* subscribe_livedata, of the index tokens at startup and later ones, of a *)
(* chain that starts, and of all chains after a recovery.                  *)
At(s, where, tokens) == sub' = [sub EXCEPT ![s] = [at |-> where, tokens |-> tokens]]

Ends(s) ==
  /\ At(s, "idle", {})
  /\ recovered' = (recovered \/ s = Supervisor)

SubscriberLooks(s) ==
  /\ sub[s].at = IF s = Supervisor THEN "resubscribe" ELSE "idle"
  /\ socket # "off" /\ Wanted[s] # {}
  /\ LET new == Wanted[s] \ feed
     IN IF new = {} THEN s = Supervisor /\ Ends(s)
        ELSE /\ \E where \in {"take", "idle"} :
                  At(s, where, IF where = "take" THEN new ELSE {})
             /\ UNCHANGED recovered
  /\ UNCHANGED <<socket, handler, ws, books, atBroker, lock, worker, restored, bound>>

SubscriberTakes(s) ==
  /\ sub[s].at = "take" /\ lock = "free" /\ lock' = s
  /\ At(s, "sending", sub[s].tokens)
  /\ UNCHANGED <<socket, handler, ws, books, atBroker, worker, restored, recovered, bound>>

SubscriberSends(s) ==
  /\ sub[s].at = "sending" /\ socket = "up" /\ lock' = "free"
  /\ \/ /\ atBroker' = atBroker \cup sub[s].tokens
        /\ mine' = mine \cup sub[s].tokens
        /\ At(s, "note", sub[s].tokens)
     \/ At(s, "idle", {}) /\ UNCHANGED <<atBroker, mine>>
  /\ UNCHANGED <<socket, handler, ws, feed, worker, restored, recovered, bound>>

SubscriberNotes(s) ==
  /\ sub[s].at = "note"
  /\ feed' = feed \cup sub[s].tokens /\ Ends(s)
  /\ UNCHANGED <<socket, handler, ws, mine, atBroker, lock, worker, restored, bound>>

(* No snapshot for thirty seconds: restart_feed, which stops the feed (and *)
(* with it every later reconnection) and starts it again.                  *)
RecoveryStops ==
  /\ socket # "off" /\ sub[Supervisor].at = "idle" /\ bound.recoveries < MaxRecoveries
  /\ bound' = [bound EXCEPT !.recoveries = @ + 1]
  /\ ws' = [ws EXCEPT !.running = FALSE, !.auto = FALSE, !.busy = FALSE]
  /\ At(Supervisor, "stopped", {})
  /\ UNCHANGED <<socket, handler, books, atBroker, lock, worker, restored, recovered>>

RecoveryStarts ==
  /\ sub[Supervisor].at = "stopped"
  /\ \/ Starts /\ At(Supervisor, "resubscribe", {})
     \/ /\ At(Supervisor, "idle", {})
        /\ UNCHANGED <<socket, handler, ws, atBroker, restored, recovered>>
  /\ UNCHANGED <<books, lock, worker, bound>>

-----------------------------------------------------------------------------
WorkerStep(w) ==
  \/ WorkerBegins(w) \/ WorkerDrops(w) \/ WorkerSession(w) \/ WorkerRestarts(w)
  \/ WorkerTakes(w) \/ WorkerSends(w)

SubscriberStep(s) ==
  \/ SubscriberLooks(s) \/ SubscriberTakes(s) \/ SubscriberSends(s) \/ SubscriberNotes(s)

Next ==
  \/ StartFeed \/ LibraryOpens \/ Lost \/ RecoveryStops \/ RecoveryStarts
  \/ \E w \in Workers : WorkerStep(w)
  \/ \E s \in Subscribers : SubscriberStep(s)

Spec == Init /\ [][Next]_vars

(* The library opens what was lost, what waits for it is sent, and a       *)
(* worker gets a lock that is free again and again.                        *)
FairSpec ==
  /\ Spec
  /\ WF_vars(LibraryOpens \/ \E s \in Subscribers : SubscriberSends(s))
  /\ \A w \in Workers : SF_vars(WorkerStep(w))

-----------------------------------------------------------------------------
(* After a reconnection the broker sends every token the client knows of,  *)
(* those included that were subscribed while it ran.                       *)
RestoredFeedDelivers == restored => mine \subseteq atBroker

(* live_feed never lists a token that the client would not send again: one *)
(* that only live_feed knew of could not be subscribed to any more.        *)
BooksAgree == feed \subseteq mine

(* A reconnection ends, and its flag with it: one left behind would have   *)
(* every later loss ignored.                                               *)
ReconnectsEnd == ws.busy ~> ~ws.busy

(* _resubscribe_all_chains: after a recovery all option tokens of every    *)
(* active chain are subscribed to again.                                   *)
RecoveredFeedDelivers == recovered => (feed \cap Wanted[Supervisor]) \subseteq atBroker
=============================================================================
