------------------------------ MODULE CopyTrading ------------------------------
(* Copy trading: the webhook of a master takes an alert and then posts it  *)
(* to its followers in parallel, past those whose circuit breaker is open; *)
(* a follower that gets it processes it as its own.                        *)
(*                                                                         *)
(* Requests of the webhook overlap.  A delivery is the follower's work and *)
(* the master's reading of the answer, either of which may be missing.     *)
EXTENDS Integers, FiniteSets

CONSTANTS
  Alerts,      \* alerts sent to the master
  Followers,   \* the clients in its list of followers
  Role,        \* each follower's role: "follower" or "standalone"
  Threshold,   \* FAILURE_THRESHOLD
  BaseBackoff, MaxBackoff,   \* BASE_BACKOFF_SECONDS and MAX_BACKOFF_SECONDS
  MaxTime      \* bound on the time

VARIABLES
  time,        \* time.monotonic()
  result,      \* the master's own result of each alert, "none" before
  post,        \* per alert and follower, how far its delivery is
  breaker,     \* per follower [failures, until, backoff]
  taken,       \* history: [follower, alert, result], what the followers processed
  since        \* history: per follower the deliveries missed since the last good one

vars == <<time, result, post, breaker, taken, since>>

Closed == [failures |-> 0, until |-> 0, backoff |-> BaseBackoff]

Init ==
  /\ time = 0
  /\ result = [a \in Alerts |-> "none"]
  /\ post = [a \in Alerts |-> [f \in Followers |-> "none"]]
  /\ breaker = [f \in Followers |-> Closed]
  /\ taken = {} /\ since = [f \in Followers |-> 0]

Tick ==
  /\ time < MaxTime /\ time' = time + 1
  /\ UNCHANGED <<result, post, breaker, taken, since>>

Available(f) == breaker[f].failures < Threshold \/ time >= breaker[f].until

(* Mutation: a blocked alert is copied too. *)
CopiedIfBlocked(r) == r \notin {"error", "FAILED"}

(* Results that are passed on to the followers. *)
Copied(r) == r \notin {"error", "blocked", "FAILED"}

(* The webhook: the master processes the alert, then chooses whom to send  *)
(* it to; the others are skipped for good.                                 *)
Webhook(a) ==
  /\ result[a] = "none"
  /\ \E r \in {"error", "blocked", "FAILED", "COMPLETED"} :
       /\ result' = [result EXCEPT ![a] = r]
       /\ post' = [post EXCEPT ![a] =
            [f \in Followers |-> IF ~Copied(r) THEN "none"
                                 ELSE IF Available(f) THEN "sent" ELSE "skipped"]]
  /\ UNCHANGED <<time, breaker, taken, since>>

(* The follower takes the request.  One that is not configured as a        *)
(* follower says 200 and does nothing; an error of its own is a 500.       *)
Arrives(a, f) ==
  /\ post[a][f] \in {"sent", "given_up"}
  /\ \E r \in {"error", "done"} :
       /\ taken' = IF Role[f] = "follower"
                   THEN taken \cup {[follower |-> f, alert |-> a, result |-> r]} ELSE taken
       /\ post' = [post EXCEPT ![a][f] =
            IF @ = "given_up" THEN "failed"
            ELSE IF Role[f] = "follower" /\ r = "error" THEN "refused" ELSE "answered"]
  /\ UNCHANGED <<time, result, breaker, since>>

Delivered(f) == [breaker EXCEPT ![f] = Closed]

(* record_failure *)
Missed(f) ==
  LET b == breaker[f]
      later == IF b.backoff * 2 > MaxBackoff THEN MaxBackoff ELSE b.backoff * 2
  IN [breaker EXCEPT ![f] =
        IF b.failures + 1 < Threshold THEN [b EXCEPT !.failures = @ + 1]
        ELSE [failures |-> b.failures + 1, until |-> time + b.backoff, backoff |-> later]]

(* The master reads the answer of the follower. *)
Answered(a, f) ==
  /\ post[a][f] \in {"answered", "refused"}
  /\ post' = [post EXCEPT ![a][f] = IF @ = "answered" THEN "delivered" ELSE "failed"]
  /\ breaker' = IF post[a][f] = "answered" THEN Delivered(f) ELSE Missed(f)
  /\ since' = [since EXCEPT ![f] = IF post[a][f] = "answered" THEN 0 ELSE @ + 1]
  /\ UNCHANGED <<time, result, taken>>

(* No connection, or no answer in TIMEOUT_SECONDS: the request may still   *)
(* arrive, or may have arrived already.                                    *)
TimesOut(a, f) ==
  /\ post[a][f] \in {"sent", "answered", "refused"}
  /\ post' = [post EXCEPT ![a][f] = IF @ = "sent" THEN "given_up" ELSE "failed"]
  /\ breaker' = Missed(f)
  /\ since' = [since EXCEPT ![f] = @ + 1]
  /\ UNCHANGED <<time, result, taken>>

Next ==
  \/ Tick
  \/ \E a \in Alerts : Webhook(a)
  \/ \E a \in Alerts, f \in Followers : Arrives(a, f) \/ Answered(a, f) \/ TimesOut(a, f)

Spec == Init /\ [][Next]_vars

-----------------------------------------------------------------------------
(* A follower processes an alert once at most, and none that the master's  *)
(* own processing blocked or failed: a delivery is not repeated, not even  *)
(* when its answer was late.                                               *)
CopiedOnce ==
  \A t \in taken :
    /\ result[t.alert] = "COMPLETED"
    /\ \A u \in taken : u.alert = t.alert /\ u.follower = t.follower => u = t

(* A follower is passed over only after Threshold missed deliveries with   *)
(* no good one between them, and its breaker never stays open for longer   *)
(* than MaxBackoff after the last of them.                                 *)
SkippedForMisses ==
  [][\A f \in Followers :
       /\ \A a \in Alerts :
            post'[a][f] = "skipped" /\ post[a][f] # "skipped" => since[f] >= Threshold
       /\ breaker'[f].until <= time' + MaxBackoff]_vars
=============================================================================
