------------------------------ MODULE BrokerLimits ------------------------------
(* ShoonyaClient.get_limits: the account limits, cached, with a forced     *)
(* login after a bad answer and a rest after several of them.              *)
(*                                                                         *)
(* The risk manager and the dashboard call it from their own threads; what *)
(* it keeps (count, rest, cache) is read and written without a lock, so a  *)
(* call is several steps.                                                  *)
EXTENDS Integers, FiniteSets

CONSTANTS
  Callers,    \* the threads that ask for limits
  MaxFails,   \* LIMITS_MAX_CONSECUTIVE_FAILS
  TTL,        \* LIMITS_CACHE_TTL_SECONDS
  Rest,       \* LIMITS_FAIL_COOLDOWN_SECONDS
  MaxNow,     \* bound on the time
  MaxAsks     \* bound on the calls of a thread

VARIABLES
  clock,      \* time.time()
  fails,      \* _limits_fail_count
  rest,       \* _limits_cooldown_until
  limits,     \* _limits_cache: whether there is one, and its time
  call,       \* per thread: where its call is, and how it ended
  asks,       \* calls a thread has made
  logins,     \* history: forced logins since the last good answer
  resting,    \* history: requests sent in the rest that is on
  tries       \* history: bad answers since the last good one or the last rest

limitVars == <<clock, fails, rest, limits, call, asks, logins, resting, tries>>

LimitsInit ==
  /\ clock = 1 /\ fails = 0 /\ rest = 0 /\ limits = [has |-> FALSE, at |-> 0]
  /\ call = [c \in Callers |-> "idle"] /\ asks = [c \in Callers |-> 0]
  /\ logins = 0 /\ resting = 0 /\ tries = 0

Is(c, at) == call' = [call EXCEPT ![c] = at]

(* A rest: what is cached is returned, or the call raises.  Then a cache   *)
(* that is young enough.                                                   *)
Resting == clock < rest
Fresh == limits.has /\ clock - limits.at < TTL

Enter(c) ==
  /\ call[c] = "idle" /\ asks[c] < MaxAsks /\ asks' = [asks EXCEPT ![c] = @ + 1]
  /\ Is(c, IF Resting \/ Fresh THEN "idle" ELSE "session")
  /\ UNCHANGED <<clock, fails, rest, limits, logins, resting, tries>>

(* ensure_session, which may raise; then the request. *)
SessionHolds(c) ==
  /\ call[c] = "session" /\ Is(c, "asking") /\ resting' = IF Resting THEN resting + 1 ELSE 0
  /\ UNCHANGED <<clock, fails, rest, limits, asks, logins, tries>>

SessionRaises(c) ==
  /\ call[c] = "session" /\ Is(c, "idle")
  /\ UNCHANGED <<clock, fails, rest, limits, asks, logins, resting, tries>>

(* A good answer, of the first request or of the one after the login. *)
Good(c) ==
  /\ call[c] \in {"asking", "again"} /\ Is(c, "idle")
  /\ fails' = 0 /\ rest' = 0 /\ limits' = [has |-> TRUE, at |-> clock] /\ logins' = 0 /\ resting' = 0 /\ tries' = 0
  /\ UNCHANGED <<clock, asks>>

(* Mutation: a login for every bad answer. *)
MayLoginAlways(n) == TRUE

(* Whether the session is renewed by force when n bad answers were counted. *)
MayLogin(n) == n <= MaxFails

(* The answer is not valid: it counts.                                     *)
Bad(c) ==
  /\ call[c] = "asking" /\ Is(c, "counted") /\ fails' = fails + 1 /\ tries' = tries + 1
  /\ UNCHANGED <<clock, rest, limits, asks, logins, resting>>

(* The count is read again, whatever the others made of it meanwhile: up   *)
(* to MaxFails of them force a login and a second request.                 *)
Decide(c) ==
  /\ call[c] = "counted"
  /\ \/ MayLogin(fails) /\ logins' = logins + 1 /\ Is(c, "login")
     \/ ~MayLogin(fails) /\ logins' = logins /\ Is(c, "failed")
  /\ UNCHANGED <<clock, fails, rest, limits, asks, resting, tries>>

(* The login works and the request is sent again, or it does not. *)
LoggedIn(c) ==
  /\ call[c] = "login"
  /\ \/ Is(c, "again") /\ resting' = IF Resting THEN resting + 1 ELSE 0
     \/ Is(c, "failed") /\ UNCHANGED resting
  /\ UNCHANGED <<clock, fails, rest, limits, asks, logins, tries>>

BadAgain(c) ==
  /\ call[c] = "again" /\ Is(c, "failed")
  /\ UNCHANGED <<clock, fails, rest, limits, asks, logins, resting, tries>>

(* Until when no request is sent, after n failures. *)
RestAfter(n) == IF n >= MaxFails THEN clock + Rest ELSE rest

(* The history of a rest that begins. *)
NoteRest(n) ==
  /\ tries' = IF rest' > clock THEN 0 ELSE n
  /\ resting' = IF rest' # rest /\ ~Resting THEN 0 ELSE resting

(* The end of a bad call: perhaps a rest, then the cache of whatever age,  *)
(* or it raises.                                                           *)
Failed(c) ==
  /\ call[c] = "failed" /\ Is(c, "idle") /\ rest' = RestAfter(fails) /\ NoteRest(tries)
  /\ UNCHANGED <<clock, fails, limits, asks, logins>>

(* The request itself raises. *)
Raises(c) ==
  /\ call[c] = "asking" /\ Is(c, "idle") /\ fails' = fails + 1 /\ rest' = RestAfter(fails + 1)
  /\ NoteRest(tries + 1)
  /\ UNCHANGED <<clock, limits, asks, logins>>

Later ==
  /\ clock < MaxNow /\ clock' = clock + 1
  /\ UNCHANGED <<fails, rest, limits, call, asks, logins, resting, tries>>

LimitsNext ==
  \/ Later
  \/ \E c \in Callers :
       \/ Enter(c) \/ SessionHolds(c) \/ SessionRaises(c) \/ Good(c) \/ Bad(c)
       \/ Decide(c) \/ LoggedIn(c) \/ BadAgain(c) \/ Failed(c) \/ Raises(c)

LimitsSpec == LimitsInit /\ [][LimitsNext]_limitVars

-----------------------------------------------------------------------------
(* get_limits hammers neither the broker nor its login: however many calls *)
(* of however many threads fail, at most MaxFails logins are forced until  *)
(* the next good answer, and one for each other thread which that answer   *)
(* found between its count and its decision: it reads a count of zero.     *)
LoginsAreFew == logins <= MaxFails + Cardinality(Callers) - 1

(* While a rest is on, only calls that were under way when it began still  *)
(* reach the broker.                                                       *)
RestIsKept == Resting => resting <= Cardinality(Callers) - 1

(* However many rests have ended: the broker never gives more bad answers  *)
(* in a row than the limit, and those of calls under way, before there is  *)
(* a rest again.                                                           *)
FailuresRest == tries < MaxFails + Cardinality(Callers)
=============================================================================
