------------------------------ MODULE ClientFleet ------------------------------
(* The master manager: the registry of the client bots, the administrator  *)
(* who blocks, stops and reconfigures them, the clients that register when *)
(* they start, and the health poller that blocks those it misses.          *)
(*                                                                         *)
(* Every call of the registry holds its lock and ends with an atomic write *)
(* of the file, so a call is one step; a cycle of the poller is a step per *)
(* client and call, on the copy of the records it took at its beginning.   *)
EXTENDS Integers, FiniteSets

CONSTANTS
  Clients,     \* the client bots
  ConfRole,    \* the copy trading role in each client's own configuration
  Misses,      \* auto_block_misses
  MaxAdmin,    \* bound on the administrator's calls
  MaxStarts    \* bound on the starts of the clients

NoRecord == [kept |-> FALSE, enabled |-> FALSE, blocked |-> FALSE, role |-> "standalone"]

VARIABLES
  record,      \* the registry: per client its record, or NoRecord
  up,          \* the client's process runs
  snapshot,    \* the poller's copy of the records
  todo,        \* clients of the cycle still to be polled
  polled,      \* the client whose result is being recorded, and at which call
  misses,      \* _miss_counter
  row,         \* history: failing polls in a row
  traded,      \* history: clients that took an alert while they were blocked
  admin, starts  \* counters for the bounds

vars == <<record, up, snapshot, todo, polled, misses, row, traded, admin, starts>>
poller == <<snapshot, todo, polled, misses, row>>

Nobody == [who |-> "nobody", at |-> "none"]

Init ==
  /\ record = [c \in Clients |-> NoRecord] /\ up = [c \in Clients |-> FALSE]
  /\ snapshot = record /\ todo = {} /\ polled = Nobody
  /\ misses = [c \in Clients |-> 0] /\ row = misses
  /\ traded = {} /\ admin = 0 /\ starts = 0

-----------------------------------------------------------------------------

(* register: of a record that exists, service_enabled and trading_blocked  *)
(* are kept; the copy trading role is the one the client sends.            *)
Registered(c) ==
  IF record[c].kept THEN [record[c] EXCEPT !.role = ConfRole[c]]
  ELSE [kept |-> TRUE, enabled |-> TRUE, blocked |-> FALSE, role |-> ConfRole[c]]

(* A client's process starts, and tells the master if it can be reached.   *)
ClientStarts(c) ==
  /\ ~up[c] /\ starts < MaxStarts
  /\ up' = [up EXCEPT ![c] = TRUE] /\ starts' = starts + 1
  /\ record' \in {record, [record EXCEPT ![c] = Registered(c)]}
  /\ UNCHANGED <<poller, traded, admin>>

ClientDies(c) ==
  /\ up[c] /\ up' = [up EXCEPT ![c] = FALSE]
  /\ UNCHANGED <<record, poller, traded, admin, starts>>

(* A client's webhook takes an alert: nothing in it asks the master.       *)
ClientTrades(c) ==
  /\ up[c] /\ record[c].blocked
  /\ traded' = traded \cup {c}
  /\ UNCHANGED <<record, up, poller, admin, starts>>

(* The administrator's calls on a record that exists. *)
Admin(c, change) ==
  /\ admin < MaxAdmin /\ admin' = admin + 1
  /\ record[c].kept
  /\ record' = [record EXCEPT ![c] = change]
  /\ UNCHANGED <<up, poller, traded, starts>>

Block(c) == Admin(c, [record[c] EXCEPT !.blocked = TRUE])
Unblock(c) == record[c].blocked /\ Admin(c, [record[c] EXCEPT !.blocked = FALSE])
SwitchService(c) == Admin(c, [record[c] EXCEPT !.enabled = ~ @])
SetRole(c) == \E r \in {"master", "follower", "standalone"} : Admin(c, [record[c] EXCEPT !.role = r])
Delete(c) == Admin(c, NoRecord)

-----------------------------------------------------------------------------
(* A cycle begins with a copy of all records; clients whose service is     *)
(* disabled are passed over.                                               *)
CycleStarts ==
  /\ todo = {} /\ polled = Nobody
  /\ snapshot' = record
  /\ todo' = {c \in Clients : record[c].kept /\ record[c].enabled}
  /\ UNCHANGED <<record, up, polled, misses, row, traded, admin, starts>>

(* Mutation: an answer leaves the counter as it is. *)
MissesKept(c, ok) == IF ok THEN misses[c] ELSE misses[c] + 1

MissesAfter(c, ok) == IF ok THEN 0 ELSE misses[c] + 1

(* The request: a client that is down does not answer, one that runs may   *)
(* answer late, or with an error when it is not logged in.                 *)
Poll(c) ==
  /\ polled = Nobody /\ c \in todo
  /\ \E ok \in IF up[c] THEN BOOLEAN ELSE {FALSE} :
       /\ misses[c] <= Misses
       /\ misses' = [misses EXCEPT ![c] = MissesAfter(c, ok)]
       /\ row' = [row EXCEPT ![c] = IF ok THEN 0 ELSE @ + 1]
  /\ polled' = [who |-> c, at |-> "heartbeat"]
  /\ todo' = todo \ {c}
  /\ UNCHANGED <<record, up, snapshot, traded, admin, starts>>

(* record_heartbeat raises for a client deleted since; otherwise a client  *)
(* missed too often, and not blocked in the copy, is up for blocking.      *)
Heartbeat ==
  /\ polled.at = "heartbeat"
  /\ polled' = IF /\ record[polled.who].kept
                  /\ misses[polled.who] >= Misses
                  /\ ~snapshot[polled.who].blocked
               THEN [polled EXCEPT !.at = "block"] ELSE Nobody
  /\ UNCHANGED <<record, up, snapshot, todo, misses, row, traded, admin, starts>>

(* block_trading, which raises for a client deleted since. *)
AutoBlock ==
  /\ polled.at = "block" /\ polled' = Nobody
  /\ record' = IF record[polled.who].kept THEN [record EXCEPT ![polled.who].blocked = TRUE]
               ELSE record
  /\ UNCHANGED <<up, snapshot, todo, misses, row, traded, admin, starts>>

Next ==
  \/ \E c \in Clients :
       \/ ClientStarts(c) \/ ClientDies(c) \/ ClientTrades(c)
       \/ Block(c) \/ Unblock(c) \/ SwitchService(c) \/ SetRole(c) \/ Delete(c)
       \/ Poll(c)
  \/ CycleStarts \/ Heartbeat \/ AutoBlock

Spec == Init /\ [][Next]_vars

-----------------------------------------------------------------------------
(* A block ends by the administrator's hand only: a client that starts     *)
(* again and registers is as blocked as it was, and so is one that answers *)
(* the poller again.                                                       *)
BlockOutlivesRestart ==
  [][\A c \in Clients :
       record[c].blocked /\ ~record'[c].blocked => admin' # admin]_vars

(* The poller blocks a client only while it has missed the last polls in a *)
(* row, although the copy it decides by may be old.                        *)
BlockedForMisses ==
  [][\A c \in Clients :
       ~record[c].blocked /\ record'[c].blocked /\ admin' = admin => row[c] >= Misses]_vars

(* What the permission endpoint is for ("polled by bots every N seconds"): *)
(* a blocked client takes no alerts.                                       *)
BlockedDoNotTrade == traded = {}
=============================================================================
