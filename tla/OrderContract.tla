---------------------------- MODULE OrderContract ----------------------------
(* What a strategy may rely on when it hands a command to the system, and  *)
(* nothing of how it is done: the broker acknowledges one order for it at  *)
(* most, settles it once, and the strategy hears of the fill at most once  *)
(* and never before it happened.  Crashes, retries, cancels and statuses   *)
(* do not appear: whatever they do, they change nothing a strategy sees.   *)
EXTENDS Naturals

CONSTANTS
  Orders,    \* command ids
  BrokerIds  \* numbers the broker gives

VARIABLES
  accepted,  \* the numbers acknowledged for each command
  outcome,   \* how the acknowledged order ended
  told       \* how often the strategy heard of the fill

vars == <<accepted, outcome, told>>

Init ==
  /\ accepted = [o \in Orders |-> {}]
  /\ outcome = [o \in Orders |-> "none"]
  /\ told = [o \in Orders |-> 0]

Accept(o, id) ==
  /\ accepted[o] = {}
  /\ accepted' = [accepted EXCEPT ![o] = {id}]
  /\ UNCHANGED <<outcome, told>>

Settle(o, end) ==
  /\ accepted[o] # {} /\ outcome[o] = "none"
  /\ outcome' = [outcome EXCEPT ![o] = end]
  /\ UNCHANGED <<accepted, told>>

Tell(o) ==
  /\ outcome[o] = "filled" /\ told[o] = 0
  /\ told' = [told EXCEPT ![o] = 1]
  /\ UNCHANGED <<accepted, outcome>>

Next ==
  \E o \in Orders :
    \/ \E id \in BrokerIds : Accept(o, id)
    \/ Settle(o, "filled") \/ Settle(o, "closed")
    \/ Tell(o)

Spec == Init /\ [][Next]_vars
=============================================================================
