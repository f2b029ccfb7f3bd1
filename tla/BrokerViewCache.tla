---------------------------- MODULE BrokerViewCache ----------------------------
(* BrokerView: one of its four caches (positions, orders, holdings,        *)
(* limits: the same code on other fields).  Threads read it, force a       *)
(* refresh or invalidate it; a lock is held over the call to the broker,   *)
(* while time passes and the broker's truth changes.                       *)
EXTENDS Integers

CONSTANTS
  Threads,     \* threads of the dashboard, the alerts and the executors
  TTL,         \* cache_ttl
  MaxTime,     \* bound on the time
  None         \* no value: nobody has the lock, nothing is cached

VARIABLES
  now,         \* the clock; the broker's truth at time t is t itself
  holder,      \* the thread that has the lock and calls the broker, or None
  started,     \* the time that thread read before its call
  cached,      \* the value in the cache, or None
  stamp,       \* the time stored with it, 0 after an invalidation
  answered,    \* history: the last answer [value, how, forced]
  changed      \* history: the time of the last order, after which the cache was invalidated

vars == <<now, holder, started, cached, stamp, answered, changed>>

NoAnswer == [value |-> 0, how |-> "none", at |-> 0, age |-> 0]

Init ==
  /\ now = TTL + 1 /\ holder = None /\ started = 0
  /\ cached = None /\ stamp = 0
  /\ answered = NoAnswer /\ changed = 0

Answer(value, how, at) ==
  answered' = [value |-> value, how |-> how, at |-> at, age |-> at - value]

Tick ==
  /\ now < MaxTime /\ now' = now + 1
  /\ UNCHANGED <<holder, started, cached, stamp, answered, changed>>

Valid == cached # None /\ now - stamp < TTL

Hit ==
  /\ holder = None /\ Valid
  /\ Answer(cached, "hit", now)
  /\ UNCHANGED <<now, holder, started, cached, stamp, changed>>

(* The call is made when the entry is too old, or when the caller says     *)
(* force_refresh.                                                          *)
CallBroker(t) ==
  /\ holder = None
  /\ holder' = t /\ started' = now
  /\ UNCHANGED <<now, cached, stamp, answered, changed>>

(* The time stored is the one read before the call. *)
Stamp == started

(* The broker's answer is its truth at some time of the call. *)
Fetched ==
  /\ holder # None
  /\ \E value \in started .. now :
       /\ cached' = value /\ stamp' = Stamp
       /\ Answer(value, "fetched", now)
  /\ holder' = None
  /\ UNCHANGED <<now, started, changed>>

(* The call fails: what is cached is returned, however old and whether     *)
(* invalidated or not; without it the exception goes to the caller.        *)
Fails ==
  /\ holder # None /\ holder' = None
  /\ IF cached = None THEN answered' = NoAnswer ELSE Answer(cached, "stale", now)
  /\ UNCHANGED <<now, started, cached, stamp, changed>>

(* Mutation: nothing is invalidated. *)
KeptStamp == stamp

InvalidStamp == 0

(* An order changes the positions at the broker, then its thread           *)
(* invalidates the cache as soon as it gets the lock.                      *)
Invalidate ==
  /\ holder = None
  /\ changed' = now /\ stamp' = InvalidStamp
  /\ UNCHANGED <<now, holder, started, cached, answered>>

Next ==
  \/ Tick \/ Hit
  \/ \E t \in Threads : CallBroker(t)
  \/ Fetched \/ Fails \/ Invalidate

Spec == Init /\ [][Next]_vars

-----------------------------------------------------------------------------
(* A value served from the cache is younger than the time to live, even if *)
(* the call that fetched it was a slow one.                                *)
HitsAreYoung == answered.how = "hit" => answered.age < TTL

(* A value served from the cache is not one from before the last order:    *)
(* only the fallback of a failing call can show that.                      *)
HitsSeeTheOrder == answered.how = "hit" /\ answered.at > changed => answered.value >= changed
=============================================================================
