--------------------------- MODULE PlatformProofs ---------------------------
(* Proofs about the services around the execution core, each for any       *)
(* values of its constants: the instances of MCPlatform, one by one.       *)
EXTENDS MCPlatform, FiniteSetTheorems, WellFoundedInduction, TLAPS

-----------------------------------------------------------------------------
(* View: one cache of the broker's view. *)

ViewTypes ==
  /\ now \in Nat /\ started \in Nat /\ stamp \in Nat /\ changed \in Nat
  /\ cached \in Nat \union {None}
  /\ answered.value \in Nat /\ answered.at \in Nat

(* A call under way began after the last order, since an order invalidates *)
(* only with the lock; so did the one whose answer is stamped.             *)
ViewInv ==
  /\ ViewTypes
  /\ TTL < now /\ started <= now /\ changed <= now /\ answered.at <= now
  /\ holder # None => changed <= started
  /\ stamp # 0 /\ cached # None => changed <= stamp /\ stamp <= cached
  /\ HitsSeeTheOrder

LEMMA InitViewInv == View!Init => ViewInv
  BY ViewAssumption DEF View!Init, ViewInv, ViewTypes, View!NoAnswer, HitsSeeTheOrder, View!HitsSeeTheOrder

LEMMA AnswerFields ==
  ASSUME NEW value, NEW how, NEW when, View!Answer(value, how, when)
  PROVE  answered'.value = value /\ answered'.how = how /\ answered'.at = when
  BY DEF View!Answer

(* What an invalidation stamps is too old for any hit. *)
LEMMA HitIsStamped ==
  ASSUME ViewInv, View!Valid
  PROVE  stamp # 0 /\ cached \in Nat /\ changed <= cached
  BY ViewAssumption DEF ViewInv, ViewTypes, View!Valid

LEMMA NextViewInv ==
  ASSUME ViewInv, [View!Next]_View!vars
  PROVE  ViewInv'
<1> USE ViewAssumption DEF ViewInv, ViewTypes, HitsSeeTheOrder, View!HitsSeeTheOrder
<1>1. ASSUME View!Tick PROVE ViewInv'
  BY <1>1 DEF View!Tick
<1>2. ASSUME View!Hit PROVE ViewInv'
  <2>1. answered'.value = cached /\ answered'.how = "hit" /\ answered'.at = now
    BY <1>2, AnswerFields DEF View!Hit
  <2>2. cached \in Nat /\ changed <= cached
    BY <1>2, HitIsStamped DEF View!Hit
  <2> QED
    BY <1>2, <2>1, <2>2 DEF View!Hit
<1>3. ASSUME NEW t \in Threads, View!CallBroker(t) PROVE ViewInv'
  BY <1>3 DEF View!CallBroker
<1>4. ASSUME View!Fetched PROVE ViewInv'
  <2>1. PICK value \in started .. now :
          /\ cached' = value /\ stamp' = started
          /\ answered'.value = value /\ answered'.how = "fetched" /\ answered'.at = now
    BY <1>4, AnswerFields DEF View!Fetched, View!Stamp
  <2>2. changed <= started /\ started <= value /\ value \in Nat
    BY <1>4, <2>1 DEF View!Fetched
  <2> QED
    BY <1>4, <2>1, <2>2 DEF View!Fetched
<1>5. ASSUME View!Fails PROVE ViewInv'
  <2>1. answered'.value \in Nat /\ answered'.how # "hit" /\ answered'.at \in Nat /\ answered'.at <= now
    BY <1>5, AnswerFields DEF View!Fails, View!NoAnswer
  <2> QED
    BY <1>5, <2>1 DEF View!Fails
<1>6. ASSUME View!Invalidate PROVE ViewInv'
  BY <1>6 DEF View!Invalidate, View!InvalidStamp
<1>7. ASSUME UNCHANGED View!vars PROVE ViewInv'
  BY <1>7 DEF View!vars
<1> QED
  BY <1>1, <1>2, <1>3, <1>4, <1>5, <1>6, <1>7 DEF View!Next

(* With any number of threads that read, refresh and invalidate, and calls *)
(* of any length, a value served from the cache is not one from before the *)
(* last order.                                                             *)
THEOREM HitsFollowOrders == View!Spec => []HitsSeeTheOrder
<1>1. ViewInv => HitsSeeTheOrder
  BY DEF ViewInv, HitsSeeTheOrder, View!HitsSeeTheOrder
<1> QED
  BY <1>1, InitViewInv, NextViewInv, PTL DEF View!Spec

-----------------------------------------------------------------------------
(* Copies: alerts of the master to its followers. *)

Results == {"none", "error", "blocked", "FAILED", "COMPLETED"}
Stages == {"none", "skipped", "sent", "given_up", "answered", "refused", "failed", "delivered"}

CopyTypes ==
  /\ result \in [Alerts -> Results]
  /\ post \in [Alerts -> [Followers -> Stages]]
  /\ taken \subseteq [follower : Followers, alert : Alerts, result : {"error", "done"}]

(* What was sent is of a completed alert, and a delivery the follower has  *)
(* taken can not arrive again: it is neither on its way nor given up.      *)
CopyInv ==
  /\ CopyTypes
  /\ \A a \in Alerts : \A f \in Followers : post[a][f] # "none" => result[a] = "COMPLETED"
  /\ \A t \in taken : post[t.alert][t.follower] \in {"answered", "refused", "failed", "delivered"}
  /\ \A t, u \in taken : u.alert = t.alert /\ u.follower = t.follower => u = t

LEMMA InitCopyInv == Copies!Init => CopyInv
  BY DEF Copies!Init, CopyInv, CopyTypes, Results, Stages

(* A step that moves one delivery, and takes nothing. *)
LEMMA DeliveryMoves ==
  ASSUME CopyInv, NEW a \in Alerts, NEW f \in Followers, NEW new \in {"failed", "delivered"},
         post[a][f] # "none", post' = [post EXCEPT ![a][f] = new], result' = result, taken' = taken
  PROVE  CopyInv'
<1>1. post' \in [Alerts -> [Followers -> Stages]] /\ post'[a][f] = new
      /\ \A b \in Alerts : \A g \in Followers : (b # a \/ g # f) => post'[b][g] = post[b][g]
  BY DEF CopyInv, CopyTypes, Stages
<1>2. \A b \in Alerts : \A g \in Followers : post'[b][g] # "none" => result'[b] = "COMPLETED"
  BY <1>1 DEF CopyInv
<1>3. \A t \in taken' : post'[t.alert][t.follower] \in {"answered", "refused", "failed", "delivered"}
  BY <1>1 DEF CopyInv, CopyTypes
<1> QED
  BY <1>1, <1>2, <1>3 DEF CopyInv, CopyTypes

LEMMA NextCopyInv ==
  ASSUME CopyInv, [Copies!Next]_Copies!vars
  PROVE  CopyInv'
<1>1. ASSUME Copies!Tick \/ UNCHANGED Copies!vars PROVE CopyInv'
  BY <1>1 DEF CopyInv, CopyTypes, Copies!Tick, Copies!vars
<1>2. ASSUME NEW a \in Alerts, Copies!Webhook(a) PROVE CopyInv'
  <2>1. PICK r \in Results :
          /\ result[a] = "none" /\ result' = [result EXCEPT ![a] = r] /\ taken' = taken
          /\ post' = [post EXCEPT ![a] =
               [f \in Followers |-> IF ~Copies!Copied(r) THEN "none"
                                    ELSE IF Copies!Available(f) THEN "sent" ELSE "skipped"]]
          /\ Copies!Copied(r) => r = "COMPLETED"
    BY <1>2 DEF Copies!Webhook, Copies!Copied, Results
  <2>2. result' \in [Alerts -> Results] /\ post' \in [Alerts -> [Followers -> Stages]]
    BY <2>1 DEF CopyInv, CopyTypes, Stages
  <2>3. \A t \in taken : t.alert # a
    BY <2>1 DEF CopyInv, CopyTypes
  <2>4. \A b \in Alerts : \A f \in Followers : post'[b][f] # "none" => result'[b] = "COMPLETED"
    BY <2>1 DEF CopyInv, CopyTypes
  <2>5. \A t \in taken : post'[t.alert] = post[t.alert]
    BY <2>1, <2>3 DEF CopyInv, CopyTypes
  <2> QED
    BY <2>1, <2>2, <2>4, <2>5 DEF CopyInv, CopyTypes
<1>3. ASSUME NEW a \in Alerts, NEW f \in Followers, Copies!Arrives(a, f) PROVE CopyInv'
  <2>1. PICK r \in {"error", "done"}, new \in {"failed", "refused", "answered"} :
          /\ post[a][f] \in {"sent", "given_up"} /\ post' = [post EXCEPT ![a][f] = new]
          /\ taken' \in {taken, taken \union {[follower |-> f, alert |-> a, result |-> r]}}
          /\ result' = result
    BY <1>3 DEF Copies!Arrives
  <2> DEFINE t == [follower |-> f, alert |-> a, result |-> r]
  <2>2. \A u \in taken : u.alert # a \/ u.follower # f
    BY <2>1 DEF CopyInv
  <2>3. post' \in [Alerts -> [Followers -> Stages]] /\ post'[a][f] = new
        /\ \A b \in Alerts : \A g \in Followers : (b # a \/ g # f) => post'[b][g] = post[b][g]
    BY <2>1 DEF CopyInv, CopyTypes, Stages
  <2>4. \A u \in taken' : u \in taken \/ u = t
    BY <2>1
  <2>5. CopyTypes'
    BY <2>1, <2>3 DEF CopyInv, CopyTypes
  <2>6. \A b \in Alerts : \A g \in Followers : post'[b][g] # "none" => result'[b] = "COMPLETED"
    BY <2>1, <2>3 DEF CopyInv
  <2>7. \A u \in taken' : post'[u.alert][u.follower] \in {"answered", "refused", "failed", "delivered"}
    BY <2>2, <2>3, <2>4 DEF CopyInv, CopyTypes
  <2>8. \A u, v \in taken' : u.alert = v.alert /\ u.follower = v.follower => u = v
    BY <2>2, <2>4 DEF CopyInv
  <2> QED
    BY <2>5, <2>6, <2>7, <2>8 DEF CopyInv
<1>4. ASSUME NEW a \in Alerts, NEW f \in Followers, Copies!Answered(a, f) PROVE CopyInv'
  BY <1>4, DeliveryMoves DEF Copies!Answered, Stages
<1>5. ASSUME NEW a \in Alerts, NEW f \in Followers, Copies!TimesOut(a, f) PROVE CopyInv'
  <2>1. CASE post[a][f] = "sent"
    BY <1>5, <2>1 DEF Copies!TimesOut, CopyInv, CopyTypes, Stages
  <2>2. CASE post[a][f] # "sent"
    BY <1>5, <2>2, DeliveryMoves DEF Copies!TimesOut, Stages
  <2> QED
    BY <2>1, <2>2
<1> QED
  BY <1>1, <1>2, <1>3, <1>4, <1>5 DEF Copies!Next

(* For any number of alerts, followers and late answers: a follower takes  *)
(* an alert once at most, and only one the master has completed.           *)
THEOREM AlertsAreCopiedOnce == Copies!Spec => []CopiedOnce
<1>1. CopyInv => CopiedOnce
  BY DEF CopyInv, CopyTypes, CopiedOnce, Copies!CopiedOnce
<1> QED
  BY <1>1, InitCopyInv, NextCopyInv, PTL DEF Copies!Spec

-----------------------------------------------------------------------------
(* Fleet: the registry of the clients and the poller that blocks them. *)

FleetRecords ==
  [kept : BOOLEAN, enabled : BOOLEAN, blocked : BOOLEAN, role : {"master", "follower", "standalone"}]

FleetTypes ==
  /\ record \in [Clients -> FleetRecords] /\ admin \in Nat
  /\ misses \in [Clients -> Nat]
  /\ polled \in [who : Clients, at : {"heartbeat", "block"}] \union {Fleet!Nobody}

(* What the poller counts is what has happened, and between its decision   *)
(* and the block it brings no poll can change the count.                   *)
FleetInv ==
  /\ FleetTypes
  /\ row = misses
  /\ polled.at = "block" => misses[polled.who] >= Misses

LEMMA InitFleetInv == Fleet!Init => FleetInv
  BY DEF Fleet!Init, Fleet!NoRecord, Fleet!Nobody, FleetInv, FleetTypes, FleetRecords

LEMMA NextFleetInv ==
  ASSUME FleetInv, [Fleet!Next]_Fleet!vars
  PROVE  FleetInv'
<1> USE FleetAssumption DEF FleetInv, FleetTypes, FleetRecords, Fleet!Nobody
<1>1. ASSUME UNCHANGED Fleet!vars PROVE FleetInv'
  BY <1>1 DEF Fleet!vars
<1>2. ASSUME NEW c \in Clients, Fleet!ClientStarts(c) PROVE FleetInv'
  <2>1. Fleet!Registered(c) \in FleetRecords
    BY DEF Fleet!Registered
  <2> QED
    BY <1>2, <2>1 DEF Fleet!ClientStarts, Fleet!poller
<1>3. ASSUME NEW c \in Clients, Fleet!ClientDies(c) \/ Fleet!ClientTrades(c) PROVE FleetInv'
  BY <1>3 DEF Fleet!ClientDies, Fleet!ClientTrades, Fleet!poller
<1>4. ASSUME NEW c \in Clients,
             Fleet!Block(c) \/ Fleet!Unblock(c) \/ Fleet!SwitchService(c) \/ Fleet!SetRole(c) \/ Fleet!Delete(c)
      PROVE FleetInv'
  <2>1. PICK change \in FleetRecords : Fleet!Admin(c, change)
    BY <1>4 DEF Fleet!Block, Fleet!Unblock, Fleet!SwitchService, Fleet!SetRole, Fleet!Delete, Fleet!NoRecord
  <2> QED
    BY <2>1 DEF Fleet!Admin, Fleet!poller
<1>5. ASSUME NEW c \in Clients, Fleet!Poll(c) PROVE FleetInv'
  BY <1>5 DEF Fleet!Poll, Fleet!MissesAfter
<1>6. ASSUME Fleet!CycleStarts PROVE FleetInv'
  BY <1>6 DEF Fleet!CycleStarts
<1>7. ASSUME Fleet!Heartbeat PROVE FleetInv'
  BY <1>7 DEF Fleet!Heartbeat
<1>8. ASSUME Fleet!AutoBlock PROVE FleetInv'
  BY <1>8 DEF Fleet!AutoBlock
<1> QED
  BY <1>1, <1>2, <1>3, <1>4, <1>5, <1>6, <1>7, <1>8 DEF Fleet!Next

(* Nobody but the administrator and the poller's last step blocks.         *)
LEMMA NextBlocks ==
  ASSUME FleetInv, [Fleet!Next]_Fleet!vars, NEW c \in Clients,
         ~record[c].blocked, record'[c].blocked, admin' = admin
  PROVE  row[c] >= Misses
  <1> USE FleetAssumption DEF FleetInv, FleetTypes, FleetRecords, Fleet!Nobody
  <1>1. ASSUME NEW d \in Clients, Fleet!ClientStarts(d) PROVE FALSE
    BY <1>1 DEF Fleet!ClientStarts, Fleet!Registered
  <1>2. CASE Fleet!AutoBlock
    BY <1>2 DEF Fleet!AutoBlock
  <1>3. ASSUME NEW d \in Clients, NEW change, Fleet!Admin(d, change) PROVE FALSE
    BY <1>3 DEF Fleet!Admin
  <1> QED
    BY <1>1, <1>2, <1>3 DEF Fleet!Next, Fleet!vars, Fleet!ClientDies, Fleet!ClientTrades, Fleet!Block,
      Fleet!Unblock, Fleet!SwitchService, Fleet!SetRole, Fleet!Delete, Fleet!Poll, Fleet!CycleStarts, Fleet!Heartbeat

(* For any clients, any number of misses and any calls of the              *)
(* administrator: the poller blocks a client only for the misses in a row. *)
THEOREM PollerBlocksForMisses == Fleet!Spec => BlockedForMisses
<1>1. FleetInv /\ [Fleet!Next]_Fleet!vars =>
        [\A c \in Clients :
           ~record[c].blocked /\ record'[c].blocked /\ admin' = admin => row[c] >= Misses]_Fleet!vars
  BY NextBlocks
<1> QED
  BY <1>1, InitFleetInv, NextFleetInv, PTL DEF Fleet!Spec, BlockedForMisses, Fleet!BlockedForMisses

-----------------------------------------------------------------------------
(* ControlIntents: the table of requests and its two consumers. *)

(* A set of numbers has a first one: the row a consumer's query returns.   *)
Below == {p \in Nat \X Nat : p[1] < p[2]}

LEMMA BelowWellFounded == IsWellFoundedOn(Below, Nat)
  BY NatLessThanWellFounded, Zenon DEF OpToRel, Below

LEMMA FirstExists ==
  ASSUME NEW ids \in SUBSET Nat, ids # {}
  PROVE  FirstOf(ids) \in ids
<1>1. PICK i \in ids : \A j \in ids : <<j, i>> \notin Below
  BY BelowWellFounded, WFMin, Zenon
<1>2. ASSUME NEW j \in ids PROVE i <= j
  <2>1. <<j, i>> \in Nat \X Nat /\ <<j, i>>[1] = j /\ <<j, i>>[2] = i
    OBVIOUS
  <2>2. ~(j < i)
    BY <1>1, <2>1, Zenon DEF Below
  <2> QED
    BY <2>2
<1> QED
  BY <1>2 DEF FirstOf

(* The set of a rule's symbols as the list the row carries. *)
LEMMA SetAsSequence ==
  ASSUME NEW S, IsFiniteSet(S)
  PROVE  SetToSeq(S) \in Seq(S)
<1>1. PICK n \in Nat : ExistsBijection(1 .. n, S)
  BY FS_NatBijection, Zenon
<1>2. n = Cardinality(S)
  BY <1>1, FS_CountingElements, Zenon
<1>3. PICK f \in Bijection(1 .. n, S) : TRUE
  BY <1>1, Zenon DEF ExistsBijection
<1>4. f \in [1 .. n -> S] /\ IsInjective(f)
  BY <1>3, Zenon DEF Bijection, Injection
<1>5. SetToSeq(S) \in [1 .. n -> S]
  BY <1>2, <1>4, Zenon DEF SetToSeq
<1> QED
  BY <1>5

IntentRows ==
  [type : Types, legs : Seq(Legs), key : OrderIds \union {""},
   rule : RuleChoice \union {NoRule}, status : Statuses]

(* Lists of any content: what a consumer has in hand is left open.         *)
IsList(l) == \E S : l \in Seq(S)

LEMMA AppendToList ==
  ASSUME NEW l, IsList(l), NEW e
  PROVE  /\ IsList(Append(l, e)) /\ Len(Append(l, e)) = Len(l) + 1
         /\ Append(l, e)[Len(l) + 1] = e
         /\ \A k \in 1 .. Len(l) : Append(l, e)[k] = l[k]
         /\ Len(l) \in Nat
<1>1. PICK S : l \in Seq(S)
  BY DEF IsList
<1>2. Append(l, e) \in Seq(S \union {e})
  BY <1>1
<1> QED
  BY <1>1, <1>2 DEF IsList

LegAnswers == {"ACCEPTED", "REJECTED", "FAILED"}

(* What a consumer has in hand: nothing is to be done or settled without a *)
(* row.                                                                    *)
IsWork(w) ==
  /\ DOMAIN w = {"row", "left", "answers", "outcome"}
  /\ w.row \in Nat /\ w.answers \in Seq(LegAnswers)
  /\ w.outcome \in (Statuses \ {"PENDING"}) \union {"none"}
  /\ w.left # <<>> \/ w.outcome # "none" => w.row # 0

WorkTypes ==
  /\ work = [c \in Consumers |-> work[c]]
  /\ \A c \in Consumers : IsWork(work[c])

LEMMA IdleIsWork == IsWork(Idle) /\ Idle.row = 0
<1>1. /\ DOMAIN Idle = {"row", "left", "answers", "outcome"}
      /\ Idle.row = 0 /\ Idle.left = <<>> /\ Idle.answers = <<>> /\ Idle.outcome = "none"
  BY DEF Idle
<1>2. <<>> \in Seq(LegAnswers) /\ 0 \in Nat
  OBVIOUS
<1> QED
  BY <1>1, <1>2, Zenon DEF IsWork

(* A row that is not waiting any more is one of the table. *)
Taken(i) == i \in 1 .. Len(rows) /\ rows[i].status # "PENDING"

(* A row in hand is nobody else's, and no row comes back to be claimed; of *)
(* a row in hand as many legs are done as there are answers.               *)
IntentInv ==
  /\ rows \in Seq(IntentRows) /\ WorkTypes /\ IsList(done)
  /\ \A c \in Consumers : work[c].row # 0 => Taken(work[c].row)
  /\ \A c, d \in Consumers : c # d /\ work[c].row # 0 => work[c].row # work[d].row
  /\ \A k \in 1 .. Len(done) :
       /\ Taken(done[k].row) /\ done[k].nth \in Nat
       /\ \A c \in Consumers : done[k].row = work[c].row => done[k].nth <= Len(work[c].answers)
  /\ NothingTwice

LEMMA InitIntentInv == Init => IntentInv
<1> SUFFICES ASSUME Init PROVE IntentInv
  OBVIOUS
<1>1. (\A c \in Consumers : work[c] = Idle) /\ work = [c \in Consumers |-> work[c]]
  BY DEF Init
<1>2. rows = <<>> /\ done = <<>>
  BY DEF Init
<1>3. WorkTypes
  BY <1>1, IdleIsWork, Zenon DEF WorkTypes
<1> QED
  BY <1>1, <1>2, <1>3, IdleIsWork DEF IntentInv, IsList, NothingTwice

(* What a consumer has in hand is replaced. *)
LEMMA WorkChanges ==
  ASSUME WorkTypes, NEW c \in Consumers, NEW w, IsWork(w), work' = [work EXCEPT ![c] = w]
  PROVE  /\ WorkTypes' /\ work'[c] = w
         /\ \A d \in Consumers : d # c => work'[d] = work[d]
<1>1. /\ work'[c] = w
      /\ \A d \in Consumers : d # c => work'[d] = work[d]
      /\ work' = [d \in Consumers |-> work'[d]]
  BY DEF WorkTypes
<1>2. \A d \in Consumers : IsWork(work[d])'
  BY <1>1 DEF WorkTypes, IsWork
<1> QED
  BY <1>1, <1>2 DEF WorkTypes

(* A step that only adds rows, or settles some. *)
LEMMA RowsKeep ==
  ASSUME IntentInv, rows' \in Seq(IntentRows), \A i : Taken(i) => Taken(i)',
         work' = work, done' = done
  PROVE  IntentInv'
<1>1. NothingTwice' /\ WorkTypes' /\ IsList(done)'
  BY DEF IntentInv, NothingTwice, WorkTypes, IsList
<1> QED
  BY <1>1 DEF IntentInv

(* A new request is one row more, waiting.                                 *)
LEMMA InsertKeeps ==
  ASSUME IntentInv, NEW r \in IntentRows, rows' = Append(rows, r), work' = work, done' = done
  PROVE  IntentInv'
<1>1. rows' \in Seq(IntentRows) /\ Len(rows') = Len(rows) + 1 /\ Len(rows) \in Nat
      /\ \A i \in 1 .. Len(rows) : rows'[i] = rows[i]
  BY DEF IntentInv
<1>2. \A i : Taken(i) => Taken(i)'
  BY <1>1 DEF Taken
<1> QED
  BY <1>1, <1>2, RowsKeep

(* The status of a row changes, to one that is not waiting.                *)
LEMMA StatusChanges ==
  ASSUME IntentInv, NEW i \in 1 .. Len(rows), NEW st \in Statuses \ {"PENDING"},
         rows' = [rows EXCEPT ![i].status = st]
  PROVE  /\ rows' \in Seq(IntentRows) /\ Taken(i)'
         /\ \A j : Taken(j) => Taken(j)'
<1> DEFINE new == [rows[i] EXCEPT !.status = st]
<1>1. new \in IntentRows /\ new.status = st
  <2>1. rows[i] \in IntentRows
    BY DEF IntentInv
  <2> QED
    BY <2>1 DEF IntentRows
<1>2. rows' = [rows EXCEPT ![i] = new]
  OBVIOUS
<1> HIDE DEF new
<1>3. rows' \in Seq(IntentRows) /\ Len(rows') = Len(rows) /\ rows'[i] = new
      /\ \A j \in 1 .. Len(rows) : j # i => rows'[j] = rows[j]
  BY <1>1, <1>2 DEF IntentInv
<1> QED
  BY <1>1, <1>3 DEF Taken

LEMMA ClaimKeeps ==
  ASSUME IntentInv, NEW c \in Consumers, Claim(c)
  PROVE  IntentInv'
<1>13. PICK i : i = FirstOf(Claimable(c))
  OBVIOUS
<1>1. Claimable(c) \subseteq 1 .. Len(rows) /\ i \in Claimable(c)
  <2>1. Claimable(c) \subseteq 1 .. Len(rows) /\ Claimable(c) \in SUBSET Nat
    BY DEF Claimable, IntentInv
  <2> QED
    BY <1>13, <2>1, FirstExists DEF Claim
<1>2. i \in 1 .. Len(rows) /\ i # 0 /\ i \in Nat /\ rows[i].status = "PENDING"
  BY <1>1 DEF Claimable, IntentInv
<1> DEFINE left == IF c = "generic" /\ rows[i].type = "STRATEGY" THEN <<>> ELSE Plan(rows[i])
           outcome == IF left = <<>> THEN Unexecuted(c, rows[i]) ELSE "none"
<1>3. /\ work' = [work EXCEPT ![c] = [row |-> i, left |-> left, answers |-> <<>>, outcome |-> outcome]]
      /\ rows' = [rows EXCEPT ![i].status = "PROCESSING"] /\ done' = done
  BY <1>13 DEF Claim
<1>4. outcome \in (Statuses \ {"PENDING"}) \union {"none"}
  BY DEF Unexecuted, Statuses
<1> HIDE DEF left, outcome
<1>5. rows' \in Seq(IntentRows) /\ Taken(i)' /\ \A j : Taken(j) => Taken(j)'
  BY <1>2, <1>3, StatusChanges DEF Statuses
<1>6. /\ WorkTypes' /\ work'[c].row = i /\ work'[c].answers = <<>>
      /\ \A d \in Consumers : d # c => work'[d] = work[d]
  <2> DEFINE w == [row |-> i, left |-> left, answers |-> <<>>, outcome |-> outcome]
  <2>1. /\ DOMAIN w = {"row", "left", "answers", "outcome"} /\ <<>> \in Seq(LegAnswers)
        /\ w.row = i /\ w.left = left /\ w.answers = <<>> /\ w.outcome = outcome
    OBVIOUS
  <2> HIDE DEF w
  <2>2. IsWork(w)
    BY <1>2, <1>4, <2>1, Zenon DEF IsWork
  <2>3. work' = [work EXCEPT ![c] = w] /\ WorkTypes
    BY <1>3 DEF w, IntentInv
  <2> QED
    BY <2>1, <2>2, <2>3, WorkChanges
<1>7. \A d \in Consumers : work[d].row # i
  BY <1>2 DEF IntentInv, Taken
<1>8. \A k \in 1 .. Len(done) : done[k].row # i
  BY <1>2 DEF IntentInv, Taken
<1>9. NothingTwice' /\ IsList(done)'
  BY <1>3 DEF IntentInv, NothingTwice, IsList
<1>10. \A d \in Consumers : work'[d].row # 0 => Taken(work[d].row)'
  BY <1>5, <1>6 DEF IntentInv
<1>11. \A d, b \in Consumers : d # b /\ work'[d].row # 0 => work'[d].row # work'[b].row
  BY <1>6, <1>7 DEF IntentInv
<1>12. \A k \in 1 .. Len(done') :
         /\ Taken(done[k].row)' /\ done'[k].nth \in Nat
         /\ \A d \in Consumers : done'[k].row = work'[d].row => done'[k].nth <= Len(work'[d].answers)
  BY <1>3, <1>5, <1>6, <1>8 DEF IntentInv
<1> QED
  BY <1>5, <1>6, <1>9, <1>10, <1>11, <1>12 DEF IntentInv

(* Of a row more answers are got, and what is done is done once more.      *)
LEMMA ExecuteKeeps ==
  ASSUME IntentInv, NEW c \in Consumers, Execute(c)
  PROVE  IntentInv'
<1>14. PICK i : i = work[c].row
  OBVIOUS
<1>1. PICK answer \in LegAnswers :
        LET got == Append(work[c].answers, answer)
            more == Tail(work[c].left)
        IN /\ done' = Append(done, [row |-> i, leg |-> Head(work[c].left), by |-> c,
                                    nth |-> Len(got), answer |-> answer])
           /\ work' = [work EXCEPT ![c] = [work[c] EXCEPT !.left = more, !.answers = got,
                          !.outcome = IF more = <<>> THEN Outcome(rows[i], got) ELSE "none"]]
  <2>1. \A r, leg : Answers(r, leg) \subseteq LegAnswers
    BY DEF Answers, LegAnswers
  <2> QED
    BY <1>14, <2>1, Zenon DEF Execute
<1> DEFINE got == Append(work[c].answers, answer)
           more == Tail(work[c].left)
           outcome == IF more = <<>> THEN Outcome(rows[i], got) ELSE "none"
           e == [row |-> i, leg |-> Head(work[c].left), by |-> c, nth |-> Len(got), answer |-> answer]
<1>2. i # 0 /\ i \in Nat /\ Taken(i) /\ Taken(i)' /\ rows' = rows
  BY <1>14 DEF Execute, IntentInv, WorkTypes, IsWork, Taken
<1>3. /\ got \in Seq(LegAnswers) /\ got[1] \in LegAnswers
      /\ Len(got) = Len(work[c].answers) + 1 /\ Len(work[c].answers) \in Nat
  BY DEF IntentInv, WorkTypes, IsWork
<1>4. outcome \in (Statuses \ {"PENDING"}) \union {"none"}
  BY <1>3 DEF Outcome, Statuses, LegAnswers
<1>5. /\ WorkTypes' /\ work'[c].row = i /\ work'[c].answers = got
      /\ \A d \in Consumers : d # c => work'[d] = work[d]
  <2> DEFINE w == [work[c] EXCEPT !.left = more, !.answers = got, !.outcome = outcome]
  <2> HIDE DEF got, more, outcome
  <2>1. /\ DOMAIN w = {"row", "left", "answers", "outcome"}
        /\ w.row = i /\ w.left = more /\ w.answers = got /\ w.outcome = outcome
    BY <1>14 DEF IntentInv, WorkTypes, IsWork
  <2>2. work' = [work EXCEPT ![c] = w] /\ WorkTypes
    BY <1>1 DEF IntentInv, got, more, outcome
  <2> HIDE DEF w
  <2>3. IsWork(w)
    BY <1>2, <1>3, <1>4, <2>1 DEF IsWork
  <2> QED
    BY <2>1, <2>2, <2>3, WorkChanges
<1> HIDE DEF got, more, outcome
<1>13. done' = Append(done, e) /\ e.row = i /\ e.nth = Len(got)
  BY <1>1 DEF got
<1> HIDE DEF e
<1>6. /\ IsList(done') /\ Len(done') = Len(done) + 1 /\ Len(done) \in Nat /\ done'[Len(done) + 1] = e
      /\ \A k \in 1 .. Len(done) : done'[k] = done[k]
  BY <1>13, AppendToList DEF IntentInv
<1>7. \A k \in 1 .. Len(done) : done[k].row = i => done[k].nth <= Len(work[c].answers)
  BY <1>14 DEF IntentInv
<1>8. \A d \in Consumers : d # c => work[d].row # i
  BY <1>2, <1>14 DEF IntentInv
<1>9. ASSUME NEW k \in 1 .. Len(done')
      PROVE  /\ Taken(done[k].row)' /\ done'[k].nth \in Nat
             /\ \A d \in Consumers : done'[k].row = work'[d].row => done'[k].nth <= Len(work'[d].answers)
  <2>1. CASE k \in 1 .. Len(done)
    <3>1. Taken(done[k].row) /\ done[k].nth \in Nat
          /\ \A d \in Consumers : done[k].row = work[d].row => done[k].nth <= Len(work[d].answers)
      BY <2>1 DEF IntentInv
    <3>2. done'[k] = done[k]
      BY <1>6, <2>1
    <3>3. Taken(done[k].row)'
      BY <1>2, <3>1, <3>2 DEF Taken
    <3>4. ASSUME NEW d \in Consumers, done'[k].row = work'[d].row PROVE done'[k].nth <= Len(work'[d].answers)
      BY <1>3, <1>5, <1>14, <3>1, <3>2, <3>4
    <3> QED
      BY <3>1, <3>2, <3>3, <3>4
  <2>2. CASE k = Len(done) + 1
    <3>1. done'[k] = e
      BY <1>6, <2>2
    <3>2. ASSUME NEW d \in Consumers, done'[k].row = work'[d].row PROVE d = c
      BY <1>5, <1>8, <1>13, <3>1, <3>2
    <3> QED
      BY <1>2, <1>3, <1>5, <1>13, <3>1, <3>2
  <2> QED
    BY <1>6, <2>1, <2>2
<1>10. NothingTwice'
  <2>1. \A k \in 1 .. Len(done) : done[k].row = i => done[k].nth # e.nth
    BY <1>3, <1>7, <1>13 DEF IntentInv
  <2>2. DOMAIN done' = 1 .. Len(done) + 1 /\ DOMAIN done = 1 .. Len(done)
    BY <1>6 DEF IsList, IntentInv
  <2>3. \A k \in 1 .. Len(done) : done[k].row # i \/ done[k].nth # e.nth
    BY <2>1
  <2>4. SUFFICES ASSUME NEW j \in 1 .. Len(done) + 1, NEW k \in 1 .. Len(done) + 1, j # k
                 PROVE  done'[j].row # done'[k].row \/ done'[j].nth # done'[k].nth
    <3>1. \A a, b, x, y : a # x \/ b # y => <<a, b>> # <<x, y>>
      OBVIOUS
    <3> QED
      BY <2>2, <2>4, <3>1 DEF NothingTwice
  <2>5. CASE j \in 1 .. Len(done) /\ k \in 1 .. Len(done)
    <3>1. <<done[j].row, done[j].nth>> # <<done[k].row, done[k].nth>>
      BY <2>2, <2>4, <2>5 DEF IntentInv, NothingTwice
    <3> QED
      BY <1>6, <2>5, <3>1
  <2>6. CASE j = Len(done) + 1 \/ k = Len(done) + 1
    BY <1>6, <1>13, <2>3, <2>4, <2>6
  <2> QED
    BY <1>6, <2>5, <2>6
<1>11. \A d \in Consumers : work'[d].row # 0 => Taken(work[d].row)'
  BY <1>2, <1>5 DEF IntentInv, Taken
<1>12. \A d, b \in Consumers : d # b /\ work'[d].row # 0 => work'[d].row # work'[b].row
  BY <1>2, <1>5, <1>8 DEF IntentInv
<1> QED
  BY <1>2, <1>5, <1>6, <1>9, <1>10, <1>11, <1>12 DEF IntentInv

(* A consumer lets go of its row, or only of its outcome. *)
LEMMA LettingGoKeeps ==
  ASSUME IntentInv, NEW c \in Consumers, work[c].outcome # "none",
         \/ work' = [work EXCEPT ![c] = Idle]
         \/ work' = [work EXCEPT ![c].outcome = "FAILED"],
         rows' \in Seq(IntentRows), \A i : Taken(i) => Taken(i)', done' = done
  PROVE  IntentInv'
<1>1. PICK w : /\ IsWork(w) /\ work' = [work EXCEPT ![c] = w]
               /\ w.row # 0 => w.row = work[c].row /\ w.answers = work[c].answers
  <2>1. CASE work' = [work EXCEPT ![c] = Idle]
    BY <2>1, IdleIsWork
  <2>2. CASE work' = [work EXCEPT ![c].outcome = "FAILED"]
    <3> DEFINE w == [work[c] EXCEPT !.outcome = "FAILED"]
    <3>1. work' = [work EXCEPT ![c] = w]
      BY <2>2
    <3>2. /\ DOMAIN w = DOMAIN work[c] /\ w.row = work[c].row /\ w.left = work[c].left
          /\ w.answers = work[c].answers /\ w.outcome = "FAILED" /\ IsWork(work[c])
      BY DEF IntentInv, WorkTypes, IsWork
    <3>3. IsWork(w)
      BY <3>2, Zenon DEF IsWork, Statuses
    <3> QED
      BY <3>1, <3>2, <3>3
  <2> QED
    BY <2>1, <2>2
<1>3. /\ WorkTypes' /\ work'[c] = w
      /\ \A d \in Consumers : d # c => work'[d] = work[d]
  BY <1>1, WorkChanges DEF IntentInv
<1>4. NothingTwice' /\ IsList(done)'
  BY DEF IntentInv, NothingTwice, IsList
<1>5. \A k \in 1 .. Len(done) : done[k].row # 0
  BY DEF IntentInv, Taken
<1> QED
  BY <1>1, <1>3, <1>4, <1>5 DEF IntentInv

LEMMA RuleRowKeeps ==
  ASSUME IntentInv, NEW type \in Types, NEW legsOf \in Seq(Legs), NEW key \in OrderIds \union {""},
         NEW rule \in RuleChoice \union {NoRule}, InsertRule(type, legsOf, key, rule)
  PROVE  IntentInv'
<1> DEFINE r == [type |-> type, legs |-> legsOf, key |-> key, rule |-> rule, status |-> "PENDING"]
<1>1. r \in IntentRows
  BY DEF IntentRows, Statuses
<1>2. rows' = Append(rows, r) /\ work' = work /\ done' = done
  BY DEF InsertRule
<1> HIDE DEF r
<1> QED
  BY <1>1, <1>2, InsertKeeps

LEMMA IntentRowKeeps ==
  ASSUME IntentInv, NEW type \in Types, NEW legsOf \in Seq(Legs), NEW key \in OrderIds \union {""},
         InsertIntent(type, legsOf, key)
  PROVE  IntentInv'
  BY RuleRowKeeps DEF InsertIntent

(* What the dashboard inserts. *)
Dashboard ==
  \/ SubmitGeneric \/ SubmitStrategy \/ ForceExit \/ SubmitBasket \/ SubmitAdvanced
  \/ RecoverResume \/ CreateRule
  \/ CancelSystemOrder \/ ModifySystemOrder \/ CancelAllSystem
  \/ CancelBrokerOrder \/ ModifyBrokerOrder \/ CancelAllBroker

LEMMA DashboardKeeps ==
  ASSUME IntentInv, Dashboard
  PROVE  IntentInv'
<1>1. /\ \A leg \in Asked \union Symbols \union {"FORCE_EXIT", "change"} : <<leg>> \in Seq(Legs)
      /\ \A l \in Baskets : l \in Seq(Legs)
  BY IntentsAssumption DEF Legs
<1>2. CASE SubmitGeneric \/ SubmitStrategy \/ ForceExit
  BY <1>1, <1>2, IntentRowKeeps DEF SubmitGeneric, SubmitStrategy, ForceExit, Types
<1>3. CASE SubmitBasket \/ SubmitAdvanced \/ RecoverResume
  BY <1>1, <1>3, IntentRowKeeps DEF SubmitBasket, SubmitAdvanced, RecoverResume, Types
<1>4. CASE CreateRule
  <2>1. PICK rule \in RuleChoice, syms \in SUBSET Symbols :
          InsertRule("ORPHAN_POSITION_RULE", SetToSeq(syms), "", rule)
    BY <1>4 DEF CreateRule
  <2>2. SetToSeq(syms) \in Seq(syms) /\ syms \subseteq Legs
    BY SymbolsAssumption, FS_Subset, SetAsSequence DEF Legs
  <2>3. SetToSeq(syms) \in Seq(Legs)
    BY <2>2
  <2> QED
    BY <2>1, <2>3, RuleRowKeeps DEF Types
<1>5. CASE CancelSystemOrder \/ ModifySystemOrder \/ CancelAllSystem
  BY <1>1, <1>5, IntentRowKeeps DEF CancelSystemOrder, ModifySystemOrder, CancelAllSystem, Types
<1>6. CASE CancelBrokerOrder \/ ModifyBrokerOrder \/ CancelAllBroker
  BY <1>1, <1>6, IntentRowKeeps DEF CancelBrokerOrder, ModifyBrokerOrder, CancelAllBroker, Types
<1> QED
  BY <1>2, <1>3, <1>4, <1>5, <1>6 DEF Dashboard

LEMMA NextIntentInv ==
  ASSUME IntentInv, [Next]_vars
  PROVE  IntentInv'
<1>1. CASE Dashboard
  BY <1>1, DashboardKeeps
<1>2. ASSUME NEW i \in DOMAIN rows, DeleteRule(i) PROVE IntentInv'
  <2>1. i \in 1 .. Len(rows)
    BY DEF IntentInv
  <2>2. rows' = [rows EXCEPT ![i].status = "DELETED"] /\ work' = work /\ done' = done
    BY <1>2 DEF DeleteRule
  <2> QED
    BY <2>1, <2>2, StatusChanges, RowsKeep DEF Statuses
<1>3. ASSUME NEW c \in Consumers, Claim(c) PROVE IntentInv'
  BY <1>3, ClaimKeeps
<1>4. ASSUME NEW c \in Consumers, Execute(c) PROVE IntentInv'
  BY <1>4, ExecuteKeeps
<1>5. ASSUME NEW c \in Consumers, Settle(c) PROVE IntentInv'
  <2>1. /\ work[c].outcome # "none" /\ work' = [work EXCEPT ![c] = Idle] /\ done' = done
        /\ rows' = [rows EXCEPT ![work[c].row].status = work[c].outcome]
    BY <1>5 DEF Settle
  <2>2. work[c].row \in 1 .. Len(rows) /\ work[c].outcome \in Statuses \ {"PENDING"}
    BY <2>1 DEF IntentInv, WorkTypes, IsWork, Taken
  <2>3. rows' \in Seq(IntentRows) /\ \A i : Taken(i) => Taken(i)'
    BY <2>1, <2>2, StatusChanges
  <2> QED
    BY <2>1, <2>3, LettingGoKeeps
<1>6. ASSUME NEW c \in Consumers, Busy(c) PROVE IntentInv'
  <2>1. rows' \in Seq(IntentRows) /\ (\A i : Taken(i) => Taken(i)')
    BY <1>6 DEF Busy, IntentInv, Taken
  <2> QED
    BY <1>6, <2>1, LettingGoKeeps DEF Busy
<1>7. CASE Crash
  <2>1. /\ work' = [c \in Consumers |-> Idle] /\ \A c \in Consumers : work'[c] = Idle
        /\ rows' = rows /\ done' = done
    BY <1>7 DEF Crash
  <2>2. WorkTypes'
    BY <2>1, IdleIsWork, Zenon DEF WorkTypes, IsWork
  <2>3. \A k \in 1 .. Len(done) : done[k].row # 0
    BY DEF IntentInv, Taken
  <2>4. NothingTwice' /\ IsList(done)' /\ (\A i : Taken(i) => Taken(i)')
    BY <2>1 DEF IntentInv, NothingTwice, IsList, Taken
  <2> QED
    BY <2>1, <2>2, <2>3, <2>4, IdleIsWork DEF IntentInv
<1>8. CASE UNCHANGED <<rows, work, done>>
  <2>1. rows' \in Seq(IntentRows) /\ (\A i : Taken(i) => Taken(i)')
    BY <1>8 DEF IntentInv, Taken
  <2> QED
    BY <1>8, <2>1, RowsKeep
<1> QED
  BY <1>1, <1>2, <1>3, <1>4, <1>5, <1>6, <1>7, <1>8
  DEF Next, Dashboard, vars, LoadRules, Monitor, ExitFills, ManualTrade, Restart

(* For any number of requests, baskets of any length, and any interleaving *)
(* of the two consumers with the dashboard, failing writes and the end of  *)
(* the process: no leg of a request is executed twice.                     *)
THEOREM RequestsRunOnce == Spec => []NothingTwice
<1>1. IntentInv => NothingTwice
  BY DEF IntentInv
<1> QED
  BY <1>1, InitIntentInv, NextIntentInv, PTL DEF Spec

-----------------------------------------------------------------------------
(* Socket: the feed and its subscriptions. *)

(* With any number of threads that subscribe and reconnect, of losses and  *)
(* of restarts: after a reconnection the broker sends every token the      *)
(* client knows of.                                                        *)
THEOREM RestoredFeedIsWhole == Socket!Spec => []RestoredFeedDelivers
<1> USE DEF RestoredFeedDelivers, Socket!RestoredFeedDelivers
<1>1. Socket!Init => RestoredFeedDelivers
  BY DEF Socket!Init
<1>2. RestoredFeedDelivers /\ [Socket!Next]_Socket!vars => RestoredFeedDelivers'
  <2> SUFFICES ASSUME RestoredFeedDelivers, [Socket!Next]_Socket!vars PROVE RestoredFeedDelivers'
    OBVIOUS
  <2>1. CASE Socket!StartFeed \/ Socket!LibraryOpens \/ Socket!Lost \/ Socket!RecoveryStops \/ Socket!RecoveryStarts
    BY <2>1 DEF Socket!StartFeed, Socket!Starts, Socket!Connects, Socket!LibraryOpens, Socket!Lost,
      Socket!RecoveryStops, Socket!RecoveryStarts, Socket!books
  <2>2. ASSUME NEW w \in Workers, Socket!WorkerStep(w) PROVE RestoredFeedDelivers'
    BY <2>2 DEF Socket!WorkerStep, Socket!WorkerBegins, Socket!WorkerDrops, Socket!WorkerSession,
      Socket!WorkerRestarts, Socket!WorkerTakes, Socket!WorkerSends, Socket!Connects, Socket!SentAgain, Socket!books
  <2>3. ASSUME NEW s, Socket!SubscriberStep(s) PROVE RestoredFeedDelivers'
    BY <2>3 DEF Socket!SubscriberStep, Socket!SubscriberLooks, Socket!SubscriberTakes,
      Socket!SubscriberSends, Socket!SubscriberNotes, Socket!books
  <2>4. CASE UNCHANGED Socket!vars
    BY <2>4 DEF Socket!vars
  <2> QED
    BY <2>1, <2>2, <2>3, <2>4 DEF Socket!Next
<1> QED
  BY <1>1, <1>2, PTL DEF Socket!Spec

-----------------------------------------------------------------------------
(* Config: the saved configurations and the requests that write them. *)

SavedConfigs ==
  [kind : {"config"}, body : Bodies, mode : Config!Modes, status : {"IDLE", "RUNNING", "STOPPED"}]

Contents == SavedConfigs \union {Config!Absent, Config!Torn}

(* A request under way writes a configuration to its own temporary file    *)
(* while it meets no other, and only a rename goes on to unlink a file.    *)
IsRequest(q) ==
  /\ DOMAIN q = {"op", "at", "slug", "data", "from", "fd", "alone"} /\ q.alone \in BOOLEAN
  /\ q.alone => q.fd = "temp"
  /\ q.at # "idle" => q.slug \in Slugs /\ q.data \in SavedConfigs /\ q.from \in Slugs \union {NoName}
  /\ q.at = "unlink" => q.op = "rename"
  /\ q.at # "idle" /\ q.op = "rename" => q.from \in Slugs \ {q.slug}

(* A request as it was, but for what its temporary file is by now. *)
Alike(q, p) ==
  /\ q.op = p.op /\ q.at = p.at /\ q.slug = p.slug /\ q.data = p.data /\ q.from = p.from
  /\ q.alone = p.alone

(* Files that are about to go, and files that several requests are about.  *)
Doomed == {req[r].from : r \in {q \in Requests : req[q].at = "unlink"}}

Contested ==
  {s \in Slugs : \E r \in Requests : req[r].at # "idle" /\ ~req[r].alone /\ s \in {req[r].slug, req[r].from}}

ConfigFiles == file \in [Slugs -> Contents] /\ temp \in [Slugs -> Contents]

ConfigRequests ==
  /\ req = [r \in Requests |-> req[r]]
  /\ \A r \in Requests : IsRequest(req[r])
  /\ \A r, q \in Requests : r # q /\ req[r].at # "idle" /\ req[q].at # "idle" /\ req[r].alone =>
       \A s \in {req[r].slug, req[r].from} : s \in {req[q].slug, req[q].from} => s = NoName

(* What a request that meets no other has written, and a rename leaves.    *)
ConfigWrites ==
  \A r \in Requests : req[r].alone =>
    /\ req[r].at = "fill" => temp[req[r].slug] = Config!Torn
    /\ req[r].at = "replace" => temp[req[r].slug] = req[r].data
    /\ req[r].at # "idle" /\ req[r].op = "rename" => file[req[r].from] \in {Config!Absent, req[r].data}

(* What was saved is in a file that no rename is about to unlink and no    *)
(* two requests are about.                                                 *)
Kept(b) == \E s \in Slugs : s \notin Doomed /\ s \notin Contested /\ Config!Saved(s) /\ file[s].body = b

ConfigInv == ConfigFiles /\ ConfigRequests /\ ConfigWrites /\ \A b \in saved : Kept(b)

LEMMA InitConfigInv == Config!ConfigInit => ConfigInv
<1> SUFFICES ASSUME Config!ConfigInit PROVE ConfigInv
  OBVIOUS
<1>1. ConfigFiles
  BY DEF Config!ConfigInit, ConfigFiles, Contents, SavedConfigs, Config!Modes
<1>2. /\ req = [r \in Requests |-> Config!NoReq]
      /\ IsRequest(Config!NoReq) /\ Config!NoReq.at = "idle"
  BY DEF Config!ConfigInit, IsRequest, Config!NoReq
<1>3. ConfigRequests /\ ConfigWrites /\ Doomed = {} /\ Contested = {}
  BY <1>2 DEF ConfigRequests, ConfigWrites, Doomed, Contested
<1> QED
  BY <1>1, <1>3 DEF Config!ConfigInit, ConfigInv, Kept, Config!Saved

(* A saved file is a whole one. *)
LEMMA SavedIsWhole ==
  ASSUME ConfigInv, NEW s \in Slugs
  PROVE  Config!Saved(s) <=> file[s] \in SavedConfigs
  BY DEF ConfigInv, ConfigFiles, Contents, Config!Saved, SavedConfigs, Config!Absent, Config!Torn

(* A request under way goes on, or ends; it changes no file but its own,   *)
(* and what others have open at most.                                      *)
LEMMA RequestMoves ==
  ASSUME ConfigInv, NEW r \in Requests, req[r].at # "idle", NEW q, IsRequest(q),
         q.at # "idle" => q.slug = req[r].slug /\ q.from = req[r].from /\ q.alone = req[r].alone,
         req' = [p \in Requests |-> req'[p]], req'[r] = q,
         \A p \in Requests : p # r => IsRequest(req'[p]) /\ Alike(req'[p], req[p]),
         ConfigFiles',
         \A t \in Slugs : t \notin {req[r].slug, req[r].from} => file'[t] = file[t] /\ temp'[t] = temp[t],
         q.alone /\ q.at = "fill" => temp'[q.slug] = Config!Torn,
         q.alone /\ q.at = "replace" => temp'[q.slug] = q.data,
         q.alone /\ q.at # "idle" /\ q.op = "rename" => file'[q.from] \in {Config!Absent, q.data},
         \A b \in saved' :
           \/ Kept(b)'
           \/ b \in saved /\ \A t \in Slugs :
                t \notin Doomed /\ t \notin Contested /\ Config!Saved(t) /\ file[t].body = b =>
                  Config!Saved(t)' /\ file'[t].body = b /\ (q.at = "unlink" => t # q.from)
  PROVE  ConfigInv'
<1>1. ConfigRequests'
  BY DEF ConfigInv, ConfigRequests, Alike
<1>2. ConfigWrites'
  <2> SUFFICES ASSUME NEW p \in Requests, req'[p].alone
               PROVE  /\ req'[p].at = "fill" => temp'[req'[p].slug] = Config!Torn
                      /\ req'[p].at = "replace" => temp'[req'[p].slug] = req'[p].data
                      /\ req'[p].at # "idle" /\ req'[p].op = "rename" =>
                           file'[req'[p].from] \in {Config!Absent, req'[p].data}
    BY DEF ConfigWrites
  <2>1. CASE p = r
    BY <2>1
  <2>2. CASE p # r
    <3>1. Alike(req'[p], req[p]) /\ req[p].alone /\ IsRequest(req[p])
      BY <2>2 DEF Alike, ConfigInv, ConfigRequests
    <3>2. req[p].at # "idle" => \A s \in {req[p].slug, req[p].from} :
            s # NoName => s \notin {req[r].slug, req[r].from}
      BY <2>2, <3>1 DEF ConfigInv, ConfigRequests
    <3>3. req[p].at # "idle" => req[p].slug # NoName /\ (req[p].op = "rename" => req[p].from # NoName)
      BY <3>1, ConfigAssumption DEF IsRequest
    <3> QED
      BY <3>1, <3>2, <3>3 DEF Alike, ConfigInv, ConfigWrites, IsRequest
  <2> QED
    BY <2>1, <2>2
<1>3. \A t \in Contested' : t \in Contested
  BY DEF Contested, Alike
<1>4. \A t \in Doomed' : t \in Doomed \/ (q.at = "unlink" /\ t = q.from)
  BY DEF Doomed, Alike
<1>5. \A b \in saved' : Kept(b)'
  <2> SUFFICES ASSUME NEW b \in saved', ~Kept(b)' PROVE FALSE
    OBVIOUS
  <2>1. PICK t \in Slugs : t \notin Doomed /\ t \notin Contested /\ Config!Saved(t) /\ file[t].body = b
    BY DEF ConfigInv, Kept
  <2>2. Config!Saved(t)' /\ file'[t].body = b /\ (q.at = "unlink" => t # q.from)
    BY <2>1
  <2> QED
    BY <1>3, <1>4, <2>1, <2>2 DEF Kept
<1> QED
  BY <1>1, <1>2, <1>5 DEF ConfigInv

(* A request that begins: the files it shares with others are contested    *)
(* from now on, and what they hold is no longer counted as saved.          *)
LEMMA BeginKeeps ==
  ASSUME ConfigInv, NEW r \in Requests, NEW q, IsRequest(q), q.at = "open", q.alone,
         q.op = "rename" => file[q.from] \in {Config!Absent, q.data},
         Config!Begin(r, q), file' = file, temp' = temp
  PROVE  ConfigInv'
<1> DEFINE met == Config!Meeting(r, Config!Files(q))
<1>1. /\ req[r].at = "idle"
      /\ req' = [p \in Requests |-> IF p = r THEN [q EXCEPT !.alone = (met = {})]
                                   ELSE [req[p] EXCEPT !.alone = @ /\ p \notin met]]
      /\ saved' = saved \ Config!BodiesIn(Config!Crowded(r, Config!Files(q)))
  BY DEF Config!Begin
<1>2. \A p \in Requests : IsRequest(req[p])
  BY DEF ConfigInv, ConfigRequests
<1>3. /\ IsRequest(req'[r]) /\ req'[r].at = "open" /\ (req'[r].alone <=> met = {})
      /\ req'[r].op = q.op /\ req'[r].slug = q.slug /\ req'[r].from = q.from /\ req'[r].data = q.data
  BY <1>1 DEF IsRequest
<1>4. ASSUME NEW p \in Requests, p # r
      PROVE  /\ IsRequest(req'[p]) /\ (req'[p].alone <=> (req[p].alone /\ p \notin met))
             /\ req'[p].op = req[p].op /\ req'[p].at = req[p].at /\ req'[p].slug = req[p].slug
             /\ req'[p].from = req[p].from /\ req'[p].data = req[p].data
  <2>1. req'[p] = [req[p] EXCEPT !.alone = @ /\ p \notin met]
    BY <1>1, <1>4
  <2> QED
    BY <1>2, <2>1 DEF IsRequest
<1>5. ASSUME NEW p \in Requests, p # r, req[p].at # "idle"
      PROVE  p \in met <=> \E s \in {q.slug, q.from} : s # NoName /\ s \in {req[p].slug, req[p].from}
  BY <1>5 DEF Config!Meeting, Config!Files
<1>6. met \subseteq Requests \ {r} /\ \A p \in met : req[p].at # "idle"
  BY DEF Config!Meeting
<1>7. \A s \in Slugs : s \in Config!Crowded(r, Config!Files(q)) <=>
        \E p \in met : s \in {q.slug, q.from, req[p].slug, req[p].from}
  BY ConfigAssumption DEF Config!Crowded, Config!Files
<1> HIDE DEF met
<1>8. ConfigRequests'
  <2>1. req' = [p \in Requests |-> req'[p]] /\ \A p \in Requests : IsRequest(req'[p])
    BY <1>1, <1>3, <1>4
  <2>2. ASSUME NEW p \in Requests, NEW u \in Requests, p # u, req'[p].at # "idle", req'[u].at # "idle",
               req'[p].alone, NEW s \in {req'[p].slug, req'[p].from}, s \in {req'[u].slug, req'[u].from}
        PROVE  s = NoName
    <3>1. CASE p = r
      BY <1>3, <1>4, <1>5, <2>2, <3>1
    <3>2. CASE u = r
      BY <1>3, <1>4, <1>5, <2>2, <3>2
    <3>3. CASE p # r /\ u # r
      BY <1>4, <2>2, <3>3 DEF ConfigInv, ConfigRequests
    <3> QED
      BY <3>1, <3>2, <3>3
  <2> QED
    BY <2>1, <2>2 DEF ConfigRequests
<1>9. ConfigWrites'
  BY <1>3, <1>4 DEF ConfigInv, ConfigWrites
<1>10. ConfigFiles'
  BY DEF ConfigInv, ConfigFiles
<1>11. Doomed' = Doomed
  <2>1. \A p \in Requests : req'[p].at = "unlink" <=> req[p].at = "unlink" /\ p # r
    BY <1>1, <1>3, <1>4
  <2>2. \A p \in Requests : req[p].at = "unlink" /\ p # r => req'[p].from = req[p].from
    BY <1>4
  <2>3. \A x : x \in Doomed' <=> \E p \in Requests : req'[p].at = "unlink" /\ x = req'[p].from
    BY DEF Doomed
  <2>4. \A x : x \in Doomed <=> \E p \in Requests : req[p].at = "unlink" /\ x = req[p].from
    BY DEF Doomed
  <2>5. \A x : x \in Doomed' <=> x \in Doomed
    BY <1>1, <2>1, <2>2, <2>3, <2>4
  <2> QED
    BY <2>5
<1>12. \A s \in Contested' : s \in Contested \/ s \in Config!Crowded(r, Config!Files(q))
  <2> SUFFICES ASSUME NEW s \in Contested', s \notin Contested
               PROVE  s \in Config!Crowded(r, Config!Files(q))
    OBVIOUS
  <2>1. PICK p \in Requests : req'[p].at # "idle" /\ ~req'[p].alone /\ s \in {req'[p].slug, req'[p].from}
    BY DEF Contested
  <2>2. s \in Slugs
    BY DEF Contested
  <2>3. CASE p = r
    BY <1>3, <1>7, <2>1, <2>2, <2>3
  <2>4. CASE p # r
    BY <1>4, <1>7, <2>1, <2>2, <2>4 DEF Contested
  <2> QED
    BY <2>3, <2>4
<1>13. ASSUME NEW b \in saved' PROVE Kept(b)'
  <2>1. PICK t \in Slugs : t \notin Doomed /\ t \notin Contested /\ Config!Saved(t) /\ file[t].body = b
    BY <1>1, <1>13 DEF ConfigInv, Kept
  <2>2. t \notin Config!Crowded(r, Config!Files(q))
    BY <1>1, <1>13, <2>1 DEF Config!BodiesIn
  <2> QED
    BY <1>11, <1>12, <2>1, <2>2 DEF Kept, Config!Saved
<1> QED
  BY <1>8, <1>9, <1>10, <1>13 DEF ConfigInv

LEMMA AcceptKeeps ==
  ASSUME ConfigInv, NEW r \in Requests, NEW op, NEW s \in Slugs, NEW data \in SavedConfigs,
         NEW from \in Slugs \union {NoName},
         Config!Begin(r, Config!Request(op, s, data, from)), file' = file, temp' = temp,
         op = "rename" => from \in Slugs \ {s} /\ file[from] = data
  PROVE  ConfigInv'
<1> DEFINE q == Config!Request(op, s, data, from)
<1>1. IsRequest(q) /\ q.at = "open" /\ q.alone /\ q.op = op /\ q.from = from /\ q.data = data
  BY DEF Config!Request, Config!NoReq, IsRequest
<1> HIDE DEF q
<1>2. Config!Begin(r, q)
  BY DEF q
<1> QED
  BY <1>1, <1>2, BeginKeeps

(* A file goes, and others lose what they have open. *)
LEMMA OrphansAreAlike ==
  ASSUME NEW reqs, reqs = [p \in Requests |-> reqs[p]], NEW s, NEW p \in Requests, IsRequest(reqs[p])
  PROVE  /\ Alike(Config!Orphaned(reqs, s)[p], reqs[p]) /\ IsRequest(Config!Orphaned(reqs, s)[p])
         /\ Config!Orphaned(reqs, s) = [u \in Requests |-> Config!Orphaned(reqs, s)[u]]
<1>1. Config!Orphaned(reqs, s)[p] \in {reqs[p], [reqs[p] EXCEPT !.fd = "gone"]}
      /\ (reqs[p].alone => Config!Orphaned(reqs, s)[p] = reqs[p])
  BY DEF Config!Orphaned, IsRequest
<1>2. Config!Orphaned(reqs, s) = [u \in Requests |-> Config!Orphaned(reqs, s)[u]]
  BY DEF Config!Orphaned
<1>3. Alike([reqs[p] EXCEPT !.fd = "gone"], reqs[p]) /\ Alike(reqs[p], reqs[p])
  BY DEF Alike, IsRequest
<1>4. ~reqs[p].alone => IsRequest([reqs[p] EXCEPT !.fd = "gone"])
  BY DEF IsRequest
<1> QED
  BY <1>1, <1>2, <1>3, <1>4

LEMMA DeleteKeeps ==
  ASSUME ConfigInv, NEW r \in Requests, NEW s \in Slugs, Config!Delete(r, s)
  PROVE  ConfigInv'
<1>1. /\ file' = [file EXCEPT ![s] = Config!Absent] /\ req' = Config!Orphaned(req, s) /\ temp' = temp
      /\ saved' = saved \ Config!BodiesIn({s})
  BY DEF Config!Delete
<1>2. ConfigFiles' /\ file'[s] = Config!Absent /\ \A t \in Slugs : t # s => file'[t] = file[t]
  BY <1>1 DEF ConfigInv, ConfigFiles, Contents
<1>3. \A p \in Requests : Alike(req'[p], req[p]) /\ IsRequest(req'[p])
  BY <1>1, OrphansAreAlike DEF ConfigInv, ConfigRequests
<1>4. ConfigRequests'
  <2>1. req' = [p \in Requests |-> req'[p]]
    BY <1>1 DEF Config!Orphaned
  <2> QED
    BY <1>3, <2>1 DEF ConfigInv, ConfigRequests, Alike
<1>5. ConfigWrites'
  BY <1>1, <1>2, <1>3 DEF ConfigInv, ConfigRequests, ConfigWrites, Alike, IsRequest
<1>6. Doomed' = Doomed /\ Contested' = Contested
  BY <1>3 DEF Doomed, Contested, Alike
<1>7. ASSUME NEW b \in saved' PROVE Kept(b)'
  <2>1. PICK t \in Slugs : t \notin Doomed /\ t \notin Contested /\ Config!Saved(t) /\ file[t].body = b
    BY <1>1, <1>7 DEF ConfigInv, Kept
  <2>2. t # s
    BY <1>1, <1>7, <2>1 DEF Config!BodiesIn
  <2> QED
    BY <1>2, <1>6, <2>1, <2>2 DEF Kept, Config!Saved
<1> QED
  BY <1>2, <1>4, <1>5, <1>7 DEF ConfigInv

LEMMA RouteKeeps ==
  ASSUME ConfigInv, NEW r \in Requests, Config!Route(r)
  PROVE  ConfigInv'
<1>1. \A b \in Bodies, m \in Config!Modes, st \in {"IDLE", "RUNNING", "STOPPED"} :
        Config!Config(b, m, st) \in SavedConfigs
  BY DEF Config!Config, SavedConfigs
<1>2. \A c \in SavedConfigs :
        /\ c.status \in {"IDLE", "RUNNING", "STOPPED"}
        /\ \A st \in {"IDLE", "RUNNING", "STOPPED"} : [c EXCEPT !.status = st] \in SavedConfigs
        /\ \A m \in Config!Modes : [c EXCEPT !.mode = m] \in SavedConfigs
  BY DEF SavedConfigs
<1>3. ASSUME NEW s \in Slugs, Config!Save(r, s) \/ Config!Create(r, s) \/ Config!Update(r, s)
      PROVE  ConfigInv'
  <2>1. PICK op \in {"save", "create", "update"}, data \in SavedConfigs :
          Config!Accept(r, op, s, data, NoName)
    BY <1>1, <1>2, <1>3, SavedIsWhole DEF Config!Save, Config!Create, Config!Update
  <2> QED
    BY <2>1, AcceptKeeps DEF Config!Accept
<1>4. ASSUME NEW s \in Slugs, Config!SetStatus(r, s) \/ Config!SetMode(r, s) \/ Config!Start(r, s)
      PROVE  ConfigInv'
  <2>1. PICK op \in {"status", "mode", "start"}, data \in SavedConfigs :
          Config!Accept(r, op, s, data, NoName)
    BY <1>2, <1>4, SavedIsWhole DEF Config!SetStatus, Config!SetMode, Config!Start
  <2> QED
    BY <2>1, AcceptKeeps DEF Config!Accept
<1>5. ASSUME NEW s \in Slugs, Config!Stop(r, s) PROVE ConfigInv'
  <2>1. [file[s] EXCEPT !.status = "STOPPED"] \in SavedConfigs
    BY <1>2, <1>5, SavedIsWhole DEF Config!Stop
  <2> QED
    BY <1>5, <2>1, AcceptKeeps DEF Config!Stop
<1>6. ASSUME NEW s \in Slugs, NEW t \in Slugs, Config!Rename(r, s, t) PROVE ConfigInv'
  BY <1>6, AcceptKeeps, SavedIsWhole DEF Config!Rename, Config!Accept
<1>7. ASSUME NEW s \in Slugs, NEW t \in Slugs, Config!Clone(r, s, t) PROVE ConfigInv'
  BY <1>2, <1>7, AcceptKeeps, SavedIsWhole DEF Config!Clone, Config!CloneOf, Config!Accept
<1> QED
  BY <1>3, <1>4, <1>5, <1>6, <1>7, DeleteKeeps DEF Config!Route

(* A file that a request is about, while it meets others, is contested.    *)
LEMMA CrowdIsContested ==
  ASSUME ConfigInv, NEW r \in Requests, req[r].at # "idle"
  PROVE  /\ IsRequest(req[r]) /\ req[r].slug \in Slugs /\ req[r].data \in SavedConfigs
         /\ ~req[r].alone => req[r].slug \in Contested /\ (req[r].from \in Slugs => req[r].from \in Contested)
  BY DEF ConfigInv, ConfigRequests, IsRequest, Contested

LEMMA OpenKeeps ==
  ASSUME ConfigInv, NEW r \in Requests, Config!OpenTemp(r)
  PROVE  ConfigInv'
<1> DEFINE q == [req[r] EXCEPT !.at = "fill", !.fd = "temp"]
<1>1. /\ req[r].at = "open" /\ req' = [req EXCEPT ![r] = q]
      /\ temp' = [temp EXCEPT ![req[r].slug] = Config!Torn] /\ file' = file /\ saved' = saved
  BY DEF Config!OpenTemp, Config!Busy
<1>2. /\ IsRequest(q) /\ q.at = "fill" /\ q.slug = req[r].slug /\ q.from = req[r].from
      /\ q.alone = req[r].alone /\ q.op = req[r].op /\ q.data = req[r].data
  BY <1>1, CrowdIsContested DEF IsRequest
<1> HIDE DEF q
<1>3. /\ req'[r] = q /\ req' = [p \in Requests |-> req'[p]]
      /\ \A p \in Requests : p # r => req'[p] = req[p] /\ IsRequest(req'[p]) /\ Alike(req'[p], req[p])
  BY <1>1 DEF ConfigInv, ConfigRequests, Alike
<1>4. /\ ConfigFiles' /\ (req[r].slug \in Slugs => temp'[req[r].slug] = Config!Torn)
      /\ \A t \in Slugs : t # req[r].slug => temp'[t] = temp[t]
  BY <1>1 DEF ConfigInv, ConfigFiles, Contents
<1>5. \A t : Config!Saved(t)' = Config!Saved(t)
  BY <1>1 DEF Config!Saved
<1>6. q.alone /\ q.op = "rename" => file'[q.from] \in {Config!Absent, q.data}
  BY <1>1, <1>2 DEF ConfigInv, ConfigWrites
<1>7. req[r].slug \in Slugs
  BY <1>1, CrowdIsContested
<1> QED
  BY <1>1, <1>2, <1>3, <1>4, <1>5, <1>6, <1>7, RequestMoves

LEMMA FillKeeps ==
  ASSUME ConfigInv, NEW r \in Requests, Config!FillTemp(r)
  PROVE  ConfigInv'
<1> DEFINE q == [req[r] EXCEPT !.at = "replace"]
           s == req[r].slug
<1>1. PICK c \in {req[r].data} \union (IF Config!Content(r) = Config!Torn THEN {} ELSE {Config!Torn}) :
        /\ file' = IF req[r].fd = "file" THEN [file EXCEPT ![s] = c] ELSE file
        /\ temp' = IF req[r].fd = "temp" THEN [temp EXCEPT ![s] = c] ELSE temp
  BY DEF Config!FillTemp
<1>2. req[r].at = "fill" /\ req' = [req EXCEPT ![r] = q] /\ saved' = saved
  BY DEF Config!FillTemp, Config!Busy
<1>3. /\ IsRequest(q) /\ q.at = "replace" /\ q.slug = s /\ q.from = req[r].from
      /\ q.alone = req[r].alone /\ q.op = req[r].op /\ q.data = req[r].data
  BY <1>2, CrowdIsContested DEF IsRequest
<1>4. s \in Slugs /\ IsRequest(req[r]) /\ c \in Contents /\ (~req[r].alone => s \in Contested)
  BY <1>1, <1>2, CrowdIsContested DEF Contents
<1> HIDE DEF q
<1>5. /\ req'[r] = q /\ req' = [p \in Requests |-> req'[p]]
      /\ \A p \in Requests : p # r => req'[p] = req[p] /\ IsRequest(req'[p]) /\ Alike(req'[p], req[p])
  BY <1>2 DEF ConfigInv, ConfigRequests, Alike
<1>6. ConfigFiles' /\ \A t \in Slugs : t # s => temp'[t] = temp[t] /\ file'[t] = file[t]
  BY <1>1, <1>4 DEF ConfigInv, ConfigFiles
<1>7. req[r].alone => file' = file /\ temp[s] = Config!Torn /\ temp'[s] = q.data
  BY <1>1, <1>2, <1>3, <1>4 DEF ConfigInv, ConfigWrites, ConfigFiles, IsRequest, Config!Content
<1>8. q.alone /\ q.op = "rename" => file'[q.from] \in {Config!Absent, q.data}
  BY <1>2, <1>3, <1>7 DEF ConfigInv, ConfigWrites
<1>9. \A t \in Slugs : t \notin Contested => file'[t] = file[t]
  BY <1>4, <1>6, <1>7
<1>10. \A t \in Slugs : t \notin Contested /\ Config!Saved(t) =>
         Config!Saved(t)' /\ file'[t].body = file[t].body
  BY <1>9 DEF Config!Saved
<1>11. \A b \in saved' : b \in saved /\ \A t \in Slugs :
         t \notin Doomed /\ t \notin Contested /\ Config!Saved(t) /\ file[t].body = b =>
           Config!Saved(t)' /\ file'[t].body = b /\ (q.at = "unlink" => t # q.from)
  BY <1>2, <1>3, <1>10
<1>12. /\ q.at # "idle" => q.slug = req[r].slug /\ q.from = req[r].from /\ q.alone = req[r].alone
       /\ q.at # "fill" /\ (q.alone /\ q.at = "replace" => temp'[q.slug] = q.data)
       /\ \A t \in Slugs : t \notin {req[r].slug, req[r].from} => file'[t] = file[t] /\ temp'[t] = temp[t]
  BY <1>3, <1>6, <1>7
<1>13. req[r].at # "idle" /\ IsRequest(q) /\ ConfigFiles'
  BY <1>2, <1>3, <1>6
<1>14. q.alone /\ q.at # "idle" /\ q.op = "rename" => file'[q.from] \in {Config!Absent, q.data}
  BY <1>8
<1>15. q.alone /\ q.at = "fill" => temp'[q.slug] = Config!Torn
  BY <1>12
<1> HIDE DEF s
<1> QED
  BY <1>5, <1>11, <1>12, <1>13, <1>14, <1>15, RequestMoves

LEMMA ReplaceKeeps ==
  ASSUME ConfigInv, NEW r \in Requests, Config!Replace(r)
  PROVE  ConfigInv'
<1>1. PICK s : s = req[r].slug
  OBVIOUS
<1>2. PICK data : data = req[r].data
  OBVIOUS
<1>3. /\ s \in Slugs /\ data \in SavedConfigs /\ req[r].at = "replace" /\ IsRequest(req[r])
      /\ ~req[r].alone => s \in Contested
  BY <1>1, <1>2, CrowdIsContested DEF Config!Replace, Config!Busy
<1>4. IsRequest(Config!NoReq) /\ Config!NoReq.at = "idle"
  BY DEF IsRequest, Config!NoReq
<1>5. CASE temp[s] = Config!Absent
  <2>1. req' = [req EXCEPT ![r] = Config!NoReq] /\ file' = file /\ temp' = temp /\ saved' = saved
    BY <1>1, <1>5 DEF Config!Replace
  <2>2. /\ req'[r] = Config!NoReq /\ req' = [p \in Requests |-> req'[p]]
        /\ \A p \in Requests : p # r => req'[p] = req[p] /\ IsRequest(req'[p]) /\ Alike(req'[p], req[p])
    BY <2>1 DEF ConfigInv, ConfigRequests, Alike
  <2>3. ConfigFiles' /\ \A t : Config!Saved(t)' = Config!Saved(t)
    BY <2>1 DEF ConfigInv, ConfigFiles, Config!Saved
  <2> QED
    BY <1>3, <1>4, <2>1, <2>2, <2>3, RequestMoves
<1>6. CASE temp[s] # Config!Absent
  <2> DEFINE q == Config!AfterWrite(req[r])
  <2>1. /\ file' = [file EXCEPT ![s] = temp[s]] /\ temp' = [temp EXCEPT ![s] = Config!Absent]
        /\ saved' = (saved \ Config!BodiesIn({s})) \union (IF req[r].alone THEN {data.body} ELSE {})
        /\ req' = [p \in Requests |-> IF p = r THEN q ELSE Config!AfterReplace(req[p], s)]
    BY <1>1, <1>2, <1>6 DEF Config!Replace
  <2>2. /\ IsRequest(q) /\ q.at \notin {"fill", "replace"} /\ (q.at = "unlink" => req[r].op = "rename")
        /\ q.at # "idle" => q.slug = s /\ q.from = req[r].from /\ q.alone = req[r].alone
        /\ q.at # "idle" /\ q.op = "rename" => q.data = data /\ req[r].op = "rename" /\ q.from # s
    BY <1>1, <1>2, <1>3, <1>4 DEF IsRequest, Config!AfterWrite
  <2> HIDE DEF q
  <2>3. /\ ConfigFiles' /\ file'[s] = temp[s]
        /\ \A t \in Slugs : t # s => file'[t] = file[t] /\ temp'[t] = temp[t]
    BY <1>3, <2>1 DEF ConfigInv, ConfigFiles, Contents
  <2>4. ASSUME NEW p \in Requests, p # r
        PROVE  IsRequest(req'[p]) /\ Alike(req'[p], req[p])
    <3>1. req'[p] = Config!AfterReplace(req[p], s) /\ IsRequest(req[p])
      BY <2>1, <2>4 DEF ConfigInv, ConfigRequests
    <3>2. req[p].at # "idle" /\ req[p].slug = s => ~req[p].alone
      BY <1>1, <1>3, <2>4, ConfigAssumption DEF ConfigInv, ConfigRequests
    <3>3. \A fd2 : /\ Alike([req[p] EXCEPT !.fd = fd2], req[p]) /\ Alike(req[p], req[p])
                   /\ ~req[p].alone => IsRequest([req[p] EXCEPT !.fd = fd2])
      BY <3>1 DEF IsRequest, Alike
    <3> QED
      BY <3>1, <3>2, <3>3 DEF Config!AfterReplace
  <2>5. req'[r] = q /\ req' = [p \in Requests |-> req'[p]]
    BY <2>1
  <2>6. req[r].alone => file'[s] = data
    BY <1>1, <1>2, <1>3, <2>3 DEF ConfigInv, ConfigWrites
  <2>7. q.alone /\ q.at # "idle" /\ q.op = "rename" => file'[q.from] \in {Config!Absent, q.data}
    BY <1>2, <1>3, <2>2, <2>3 DEF ConfigInv, ConfigWrites, IsRequest
  <2>8. req[r].alone => Kept(data.body)'
    <3> SUFFICES ASSUME req[r].alone PROVE Kept(data.body)'
      OBVIOUS
    <3>1. Config!Saved(s)' /\ file'[s].body = data.body
      BY <1>3, <2>6 DEF Config!Saved, SavedConfigs
    <3>2. \A p \in Requests : p # r /\ req[p].at # "idle" => s \notin {req[p].slug, req[p].from}
      BY <1>1, <1>3, ConfigAssumption DEF ConfigInv, ConfigRequests
    <3>3. s \notin Doomed'
      BY <2>2, <2>4, <2>5, <3>2 DEF Doomed, Alike, IsRequest
    <3>4. s \notin Contested'
      BY <2>2, <2>4, <2>5, <3>2 DEF Contested, Alike
    <3> QED
      BY <1>3, <3>1, <3>3, <3>4 DEF Kept
  <2>9. ASSUME NEW b \in saved', ~Kept(b)'
        PROVE  b \in saved /\ \A t \in Slugs :
                 t \notin Doomed /\ t \notin Contested /\ Config!Saved(t) /\ file[t].body = b =>
                   Config!Saved(t)' /\ file'[t].body = b /\ (q.at = "unlink" => t # q.from)
    <3>1. b \in saved /\ b \notin Config!BodiesIn({s}) /\ (req[r].alone => b # data.body)
      BY <2>1, <2>8, <2>9
    <3>2. ASSUME NEW t \in Slugs, t \notin Contested, Config!Saved(t), file[t].body = b
          PROVE  Config!Saved(t)' /\ file'[t].body = b /\ (q.at = "unlink" => t # q.from)
      <4>1. t # s
        BY <3>1, <3>2 DEF Config!BodiesIn
      <4>2. ~req[r].alone /\ q.at = "unlink" => t # q.from
        BY <1>3, <2>2, <3>2, CrowdIsContested
      <4>3. req[r].alone /\ q.at = "unlink" => t # q.from
        <5> SUFFICES ASSUME req[r].alone, q.at = "unlink", t = q.from PROVE FALSE
          OBVIOUS
        <5>1. file[t] \in {Config!Absent, data}
          BY <1>2, <1>3, <2>2 DEF ConfigInv, ConfigWrites
        <5> QED
          BY <3>1, <3>2, <5>1 DEF Config!Saved, Config!Absent
      <4> QED
        BY <2>3, <3>2, <4>1, <4>2, <4>3 DEF Config!Saved
    <3> QED
      BY <3>1, <3>2
  <2> QED
    BY <1>1, <1>3, <2>2, <2>3, <2>4, <2>5, <2>7, <2>9, RequestMoves
<1> QED
  BY <1>5, <1>6

LEMMA UnlinkKeeps ==
  ASSUME ConfigInv, NEW r \in Requests, Config!Unlink(r)
  PROVE  ConfigInv'
<1>1. PICK f : f = req[r].from
  OBVIOUS
<1> DEFINE reqs == [req EXCEPT ![r] = Config!NoReq]
<1>2. /\ req[r].at = "unlink" /\ file' = [file EXCEPT ![f] = Config!Absent]
      /\ req' = Config!Orphaned(reqs, f) /\ temp' = temp /\ saved' = saved
  BY <1>1 DEF Config!Unlink, Config!Busy
<1>3. f \in Slugs /\ f \in Doomed
  BY <1>1, <1>2, CrowdIsContested DEF IsRequest, Doomed
<1>4. ConfigFiles' /\ \A t \in Slugs : t # f => file'[t] = file[t]
  BY <1>2, <1>3 DEF ConfigInv, ConfigFiles, Contents
<1>5. /\ reqs = [p \in Requests |-> reqs[p]] /\ reqs[r] = Config!NoReq
      /\ IsRequest(Config!NoReq) /\ Config!NoReq.at = "idle"
      /\ \A p \in Requests : p # r => reqs[p] = req[p] /\ IsRequest(req[p])
  BY DEF ConfigInv, ConfigRequests, IsRequest, Config!NoReq
<1> HIDE DEF reqs
<1>6. /\ req' = [p \in Requests |-> req'[p]] /\ req'[r] = Config!NoReq
      /\ \A p \in Requests : p # r => IsRequest(req'[p]) /\ Alike(req'[p], req[p])
  <2>1. \A p \in Requests : IsRequest(reqs[p])
    BY <1>5
  <2>2. Config!Orphaned(reqs, f)[r] = Config!NoReq
    BY <1>5 DEF Config!Orphaned, Config!NoReq
  <2> QED
    BY <1>2, <1>5, <2>1, <2>2, OrphansAreAlike
<1> QED
  BY <1>1, <1>2, <1>3, <1>4, <1>5, <1>6, RequestMoves DEF Config!Saved

LEMMA NextConfigInv ==
  ASSUME ConfigInv, [Config!ConfigNext]_Config!configVars
  PROVE  ConfigInv'
<1>1. ASSUME NEW r \in Requests, Config!Route(r) PROVE ConfigInv'
  BY <1>1, RouteKeeps
<1>2. ASSUME NEW r \in Requests, Config!Write(r) PROVE ConfigInv'
  BY <1>2, OpenKeeps, FillKeeps, ReplaceKeeps DEF Config!Write
<1>3. ASSUME NEW r \in Requests, Config!Unlink(r) PROVE ConfigInv'
  BY <1>3, UnlinkKeeps
<1>4. ASSUME NEW r \in Requests, NEW q, IsRequest(q), req[r].at \in {"register", "restart"},
             q.at \in {"idle", "open"}, q.at = "open" => q.op = "started" /\ q.alone = req[r].alone
               /\ q.slug = req[r].slug /\ q.from = req[r].from,
             req' = [req EXCEPT ![r] = q], file' = file, temp' = temp, saved' = saved
      PROVE  ConfigInv'
  <2>1. /\ req'[r] = q /\ req' = [p \in Requests |-> req'[p]]
        /\ \A p \in Requests : p # r => req'[p] = req[p] /\ IsRequest(req'[p]) /\ Alike(req'[p], req[p])
    BY <1>4 DEF ConfigInv, ConfigRequests, Alike
  <2>2. ConfigFiles' /\ \A t : Config!Saved(t)' = Config!Saved(t)
    BY <1>4 DEF ConfigInv, ConfigFiles, Config!Saved
  <2> QED
    BY <1>4, <2>1, <2>2, RequestMoves
<1>5. IsRequest(Config!NoReq) /\ Config!NoReq.at = "idle"
  BY DEF IsRequest, Config!NoReq
<1>6. ASSUME NEW r \in Requests, Config!Register(r) PROVE ConfigInv'
  <2> DEFINE q == IF Config!Saved(req[r].slug)
                  THEN [req[r] EXCEPT !.at = "open", !.op = "started", !.data.status = "RUNNING"]
                  ELSE Config!NoReq
  <2>1. /\ req' = [req EXCEPT ![r] = q] /\ file' = file /\ temp' = temp /\ saved' = saved
        /\ req[r].at = "register"
    BY <1>6 DEF Config!Register, Config!Busy
  <2>2. IsRequest(req[r]) /\ req[r].data \in SavedConfigs
    BY <2>1, CrowdIsContested
  <2>3. [req[r].data EXCEPT !.status = "RUNNING"] \in SavedConfigs
    BY <2>2 DEF SavedConfigs
  <2>4. /\ IsRequest(q) /\ q.at \in {"idle", "open"}
        /\ q.at = "open" => q.op = "started" /\ q.alone = req[r].alone /\ q.slug = req[r].slug /\ q.from = req[r].from
    BY <1>5, <2>1, <2>2, <2>3 DEF IsRequest
  <2> HIDE DEF q
  <2> QED
    BY <1>4, <2>1, <2>4
<1>7. ASSUME NEW r \in Requests, Config!RestartStrategy(r) PROVE ConfigInv'
  BY <1>4, <1>5, <1>7 DEF Config!RestartStrategy, Config!Busy
<1>8. CASE Config!Crash
  <2>1. req' = [r \in Requests |-> Config!NoReq] /\ file' = file /\ temp' = temp /\ saved' = saved
    BY <1>8 DEF Config!Crash
  <2>2. Doomed' = {} /\ Contested' = {} /\ \A r \in Requests : req'[r] = Config!NoReq
    BY <1>5, <2>1 DEF Doomed, Contested
  <2>3. ConfigRequests' /\ ConfigWrites' /\ ConfigFiles'
    BY <1>5, <2>1, <2>2 DEF ConfigInv, ConfigRequests, ConfigWrites, ConfigFiles
  <2>4. \A b \in saved' : Kept(b)'
    BY <2>1, <2>2 DEF ConfigInv, Kept, Config!Saved
  <2> QED
    BY <2>3, <2>4 DEF ConfigInv
<1>9. CASE UNCHANGED <<file, temp, req, saved>>
  <2>1. Doomed' = Doomed /\ Contested' = Contested /\ \A s : Config!Saved(s)' = Config!Saved(s)
    BY <1>9 DEF Doomed, Contested, Config!Saved
  <2>2. \A b : Kept(b)' = Kept(b)
    BY <1>9, <2>1 DEF Kept
  <2>3. ConfigRequests' /\ ConfigWrites' /\ ConfigFiles'
    BY <1>9 DEF ConfigInv, ConfigRequests, ConfigWrites, ConfigFiles, IsRequest
  <2> QED
    BY <1>9, <2>2, <2>3 DEF ConfigInv
<1> QED
  BY <1>1, <1>2, <1>3, <1>6, <1>7, <1>8, <1>9
  DEF Config!ConfigNext, Config!Tick, Config!RunnerStart, Config!RunnerStop, Config!configVars

(* With any names, contents, ends of the process and requests, however     *)
(* they overlap: a configuration that was saved is in some file until it   *)
(* is deleted or overwritten, or two requests are about its file at once.  *)
THEOREM RenamesLoseNothing == Config!ConfigSpec => []NothingSavedIsLost
<1>1. ConfigInv => NothingSavedIsLost
  BY DEF ConfigInv, Kept, NothingSavedIsLost, Config!NothingSavedIsLost
<1>2. ConfigInv /\ [Config!ConfigNext]_Config!configVars => ConfigInv'
  BY NextConfigInv
<1> QED
  BY <1>1, <1>2, InitConfigInv, PTL DEF Config!ConfigSpec

-----------------------------------------------------------------------------
(* History: the table of events and what the thread remembers. *)

Untouched(log, s) == History!Moves(log, s) = {}

LEMMA MovesAfterMoves ==
  ASSUME NEW a, NEW b, IsList(a), IsList(b), NEW s
  PROVE  /\ IsList(a \o b)
         /\ Untouched(b, s) => (History!EntryIsLast(a \o b, s) <=> History!EntryIsLast(a, s))
         /\ Untouched(b, s) => (Untouched(a \o b, s) <=> Untouched(a, s))
         /\ ~Untouched(b, s) => /\ ~Untouched(a \o b, s)
                                /\ History!EntryIsLast(a \o b, s) <=> History!EntryIsLast(b, s)
<1>1. PICK S, T : a \in Seq(S) /\ b \in Seq(T)
  BY DEF IsList
<1>2. a \in Seq(S \union T) /\ b \in Seq(S \union T)
  BY <1>1
<1> DEFINE c == a \o b
<1>3. /\ c \in Seq(S \union T) /\ Len(c) = Len(a) + Len(b) /\ Len(a) \in Nat /\ Len(b) \in Nat
      /\ DOMAIN a = 1 .. Len(a) /\ DOMAIN b = 1 .. Len(b) /\ DOMAIN c = 1 .. (Len(a) + Len(b))
      /\ \A i \in 1 .. Len(a) : c[i] = a[i]
      /\ \A i \in 1 .. Len(b) : c[Len(a) + i] = b[i]
  BY <1>2
<1> HIDE DEF c
<1>4. IsList(c)
  BY <1>3 DEF IsList
<1> DEFINE A == History!Moves(a, s)
           B == History!Moves(b, s)
           C == History!Moves(c, s)
<1>5. /\ A \subseteq 1 .. Len(a) /\ B \subseteq 1 .. Len(b) /\ C \subseteq 1 .. (Len(a) + Len(b))
      /\ \A i \in 1 .. Len(a) : i \in C <=> i \in A
      /\ \A i \in 1 .. Len(b) : Len(a) + i \in C <=> i \in B
  BY <1>3 DEF History!Moves, History!OfName
<1>6. \A i \in C : i \in A \/ (i > Len(a) /\ i - Len(a) \in B /\ c[i] = b[i - Len(a)])
  <2> SUFFICES ASSUME NEW i \in C PROVE i \in A \/ (i > Len(a) /\ i - Len(a) \in B /\ c[i] = b[i - Len(a)])
    OBVIOUS
  <2>1. CASE i <= Len(a)
    BY <1>3, <1>5, <2>1
  <2>2. CASE i > Len(a)
    <3>1. i - Len(a) \in 1 .. Len(b) /\ Len(a) + (i - Len(a)) = i
      BY <1>3, <1>5, <2>2
    <3> QED
      BY <1>3, <1>5, <2>2, <3>1
  <2> QED
    BY <1>3, <1>5, <2>1, <2>2
<1>7. \A i \in A : i \in C /\ i <= Len(a) /\ c[i] = a[i]
  BY <1>3, <1>5
<1>8. \A i \in B : Len(a) + i \in C /\ i > 0 /\ c[Len(a) + i] = b[i]
  BY <1>3, <1>5
<1> HIDE DEF A, B, C
<1>9. ASSUME B = {} PROVE C = A
  BY <1>6, <1>7, <1>9
<1>10. B # {} => C # {}
  BY <1>8
<1>11. ASSUME B = {} PROVE History!EntryIsLast(c, s) <=> History!EntryIsLast(a, s)
  BY <1>7, <1>9, <1>11 DEF History!EntryIsLast, A, C
<1>12. ASSUME B # {} PROVE History!EntryIsLast(c, s) <=> History!EntryIsLast(b, s)
  <2>1. ASSUME NEW i \in C, c[i].kind = "ENTRY", \A j \in C : j <= i PROVE History!EntryIsLast(b, s)
    <3>1. PICK k \in B : TRUE
      BY <1>12
    <3>2. i > Len(a) /\ i - Len(a) \in B /\ c[i] = b[i - Len(a)]
      BY <1>3, <1>5, <1>6, <1>7, <1>8, <2>1, <3>1 DEF A, B, C
    <3>3. \A j \in B : j <= i - Len(a)
      BY <1>3, <1>5, <1>8, <2>1, <3>2 DEF B, C
    <3> QED
      BY <2>1, <3>2, <3>3 DEF History!EntryIsLast, B
  <2>2. ASSUME NEW i \in B, b[i].kind = "ENTRY", \A j \in B : j <= i PROVE History!EntryIsLast(c, s)
    <3>1. \A j \in C : j <= Len(a) + i
      <4> SUFFICES ASSUME NEW j \in C PROVE j <= Len(a) + i
        OBVIOUS
      <4>1. i \in Nat /\ j \in Nat
        BY <1>3, <1>5 DEF B, C
      <4>2. CASE j \in A
        BY <1>3, <1>7, <4>1, <4>2
      <4>3. CASE j - Len(a) \in B
        BY <1>3, <2>2, <4>1, <4>3
      <4> QED
        BY <1>6, <4>2, <4>3
    <3> QED
      BY <1>8, <2>2, <3>1 DEF History!EntryIsLast, C
  <2> QED
    BY <2>1, <2>2 DEF History!EntryIsLast, B, C
<1> QED
  BY <1>4, <1>9, <1>10, <1>11, <1>12 DEF A, B, C, c, Untouched

-----------------------------------------------------------------------------
(* What FlattenSeq does is said by a recursive function over the indices;  *)
(* there is one.                                                           *)
Joined(l, f, n) == [i \in 1 .. n |-> IF i = 1 THEN l[i] ELSE f[i - 1] \o l[i]]

LEMMA JoinedExists == ASSUME NEW l, NEW n \in Nat PROVE \E f : f = Joined(l, f, n)
<1> DEFINE Bad == {k \in Nat : ~\E f : f = Joined(l, f, k)}
<1>1. ASSUME Bad # {} PROVE FALSE
  <2>1. PICK k \in Bad : \A j \in Bad : <<j, k>> \notin Below
    BY <1>1, BelowWellFounded, WFMin, Zenon
  <2>2. CASE k = 0
    <3>1. <<>> = Joined(l, <<>>, 0)
      BY DEF Joined
    <3> QED
      BY <2>2, <3>1
  <2>3. CASE k # 0
    <3>1. k - 1 \in Nat /\ <<k - 1, k>> \in Below
      BY <2>3 DEF Below
    <3>2. PICK f : f = Joined(l, f, k - 1)
      BY <2>1, <3>1
    <3> DEFINE g == Joined(l, f, k)
    <3>3. ASSUME NEW i \in 1 .. k - 1 PROVE g[i] = f[i]
      <4>1. g[i] = IF i = 1 THEN l[i] ELSE f[i - 1] \o l[i]
        BY <3>3 DEF Joined
      <4>2. f[i] = IF i = 1 THEN l[i] ELSE f[i - 1] \o l[i]
        BY <3>2, <3>3 DEF Joined
      <4> QED
        BY <4>1, <4>2
    <3>4. g = Joined(l, g, k)
      <4>1. ASSUME NEW i \in 1 .. k, i # 1 PROVE g[i - 1] = f[i - 1]
        BY <3>1, <3>3, <4>1
      <4> HIDE DEF g
      <4>2. Joined(l, g, k) = Joined(l, f, k)
        BY <4>1 DEF Joined
      <4> QED
        BY <4>2 DEF g
    <3> QED
      BY <3>4
  <2> QED
    BY <2>2, <2>3
<1> QED
  BY <1>1

(* A set as a sequence names each of its members, and each only once.      *)
LEMMA SetOnce ==
  ASSUME NEW S, IsFiniteSet(S)
  PROVE  LET q == History!SetToSeq(S)
         IN /\ q \in Seq(S)
            /\ \A i, j \in 1 .. Len(q) : q[i] = q[j] => i = j
            /\ \A x \in S : \E i \in 1 .. Len(q) : q[i] = x
<1>1. PICK n \in Nat : ExistsBijection(1 .. n, S)
  BY FS_NatBijection, Zenon
<1>2. n = Cardinality(S)
  BY <1>1, FS_CountingElements, Zenon
<1>3. PICK f \in Bijection(1 .. n, S) : TRUE
  BY <1>1, Zenon DEF ExistsBijection
<1>4. f \in [1 .. n -> S] /\ History!IsInjective(f)
  BY <1>3, Zenon DEF Bijection, Injection, IsInjective, History!IsInjective
<1> DEFINE q == History!SetToSeq(S)
<1>5. q \in [1 .. n -> S] /\ History!IsInjective(q)
  <2>1. History!Cardinality(S) = Cardinality(S)
    BY DEF History!Cardinality, Cardinality
  <2> QED
    BY <1>2, <1>4, <2>1, Zenon DEF History!SetToSeq
<1> HIDE DEF q
<1>6. q \in Seq(S) /\ Len(q) = n
  BY <1>5
<1>7. \A i, j \in 1 .. n : q[i] = q[j] => i = j
  BY <1>5 DEF History!IsInjective
<1>8. ASSUME NEW x \in S, \A i \in 1 .. n : q[i] # x PROVE FALSE
  <2>1. q \in Injection(1 .. n, S \ {x})
      <3>1. q \in [1 .. n -> S \ {x}]
      BY <1>5, <1>8
    <3>2. IsInjective(q)
      BY <1>5, Zenon DEF IsInjective, History!IsInjective
    <3> QED
      BY <3>1, <3>2, Zenon DEF Injection
  <2>2. IsFiniteSet(S \ {x}) /\ Cardinality(S \ {x}) = n - 1
    BY <1>2, FS_RemoveElement
  <2>3. IsFiniteSet(1 .. n) /\ Cardinality(1 .. n) = n
    BY FS_Interval
  <2>4. Cardinality(1 .. n) <= Cardinality(S \ {x})
    BY <2>1, <2>2, <2>3, FS_Injection, Zenon
  <2> QED
    BY <2>2, <2>3, <2>4
<1> QED
  BY <1>6, <1>7, <1>8 DEF q

-----------------------------------------------------------------------------
(* While nothing has failed, what the thread remembers of a strategy is    *)
(* the last entry or exit of the table and the batch it will insert.       *)
HistoryInv ==
  /\ positions \in [Names -> [active : BOOLEAN, adj : Nat]]
  /\ DOMAIN last = Names /\ \A s \in Names : last[s].active \in BOOLEAN
  /\ known \subseteq Names /\ cfgs \subseteq Names /\ blemishes \in Nat
  /\ blemishes = 0 =>
       /\ IsList(events) /\ IsList(batch)
       /\ at \in {"seed", "copy", "copied", "compare"} => batch = <<>>
       /\ at = "seed" => events = <<>>
       /\ \A s \in Names : last[s].active <=> History!EntryIsLast(events \o batch, s)

(* What a batch tells of s: whether it is held by now, if that is new.     *)
Tells(log, s, compared) ==
  IF compared /\ last[s].active # History!Now(s).active
  THEN ~Untouched(log, s) /\ (History!EntryIsLast(log, s) <=> History!Now(s).active)
  ELSE Untouched(log, s)

LEMMA NowIsKnown ==
  ASSUME HistoryInv, NEW s \in Names
  PROVE  History!Now(s).active \in BOOLEAN
  BY DEF HistoryInv, History!Now, History!SeenAs

LEMMA OneEvent ==
  ASSUME NEW s, NEW k, NEW t
  PROVE  LET log == <<History!Event(s, k)>>
         IN /\ IsList(log)
            /\ t # s \/ k = "ADJUSTMENT" => Untouched(log, t)
            /\ k # "ADJUSTMENT" => ~Untouched(log, s) /\ (History!EntryIsLast(log, s) <=> k = "ENTRY")
<1> DEFINE e == History!Event(s, k)
           log == <<e>>
<1>1. e.name = s /\ e.kind = k
  BY DEF History!Event
<1> HIDE DEF e
<1>2. log \in Seq({e}) /\ DOMAIN log = {1} /\ log[1] = e
  OBVIOUS
<1> HIDE DEF log
<1>3. IsList(log)
  BY <1>2 DEF IsList
<1>4. t # s \/ k = "ADJUSTMENT" => Untouched(log, t)
  BY <1>1, <1>2 DEF Untouched, History!Moves, History!OfName
<1>5. ASSUME k # "ADJUSTMENT" PROVE ~Untouched(log, s) /\ (History!EntryIsLast(log, s) <=> k = "ENTRY")
  <2>1. History!Moves(log, s) = {1}
    BY <1>1, <1>2, <1>5 DEF History!Moves, History!OfName
  <2> QED
    BY <1>1, <1>2, <2>1 DEF Untouched, History!EntryIsLast
<1> QED
  BY <1>3, <1>4, <1>5 DEF log, e

LEMMA NoEvents == ASSUME NEW s PROVE IsList(<<>>) /\ Untouched(<<>>, s) /\ ~History!EntryIsLast(<<>>, s)
<1>1. <<>> \in Seq({}) /\ DOMAIN <<>> = {}
  OBVIOUS
<1> QED
  BY <1>1 DEF IsList, Untouched, History!EntryIsLast, History!Moves, History!OfName

LEMMA EventsTell ==
  ASSUME HistoryInv, NEW s \in Names, NEW t \in Names
  PROVE  IsList(History!Events(s)) /\ Tells(History!Events(s), t, t = s)
<1> DEFINE was == last[s]
           is == History!Now(s)
           a == IF ~was.active /\ is.active THEN <<History!Event(s, "ENTRY")>> ELSE <<>>
           b == IF was.active /\ ~is.active THEN <<History!Event(s, "EXIT")>> ELSE <<>>
           c == IF was.seen /\ is.adj > was.adj THEN <<History!Event(s, "ADJUSTMENT")>> ELSE <<>>
<1>1. was.active \in BOOLEAN /\ is.active \in BOOLEAN
  BY NowIsKnown DEF HistoryInv
<1>2. History!Events(s) = (a \o b) \o c
  BY DEF History!Events
<1>3. IsList(c) /\ Untouched(c, t)
  BY OneEvent, NoEvents
<1>4. /\ IsList(a) /\ IsList(b) /\ (t # s => Untouched(a, t) /\ Untouched(b, t))
      /\ was.active = is.active => a = <<>> /\ b = <<>>
  BY OneEvent, NoEvents, <1>1
<1>5. CASE t # s \/ was.active = is.active
  <2>1. Untouched(a, t) /\ Untouched(b, t)
    BY <1>4, <1>5, NoEvents
  <2>2. IsList(a \o b) /\ Untouched(a \o b, t)
    BY <1>4, <2>1, MovesAfterMoves
  <2> HIDE DEF a, b, c, was, is
  <2>3. IsList((a \o b) \o c) /\ Untouched((a \o b) \o c, t)
    BY <1>3, <2>2, MovesAfterMoves
  <2> QED
    BY <1>2, <1>5, <2>3 DEF Tells, was, is
<1>6. CASE t = s /\ was.active # is.active
  <2>1. /\ ~Untouched(a, t) \/ ~Untouched(b, t)
        /\ IF is.active THEN b = <<>> /\ ~Untouched(a, t) /\ History!EntryIsLast(a, t)
           ELSE ~Untouched(b, t) /\ ~History!EntryIsLast(b, t)
    <3>1. CASE is.active
      <4>1. a = <<History!Event(s, "ENTRY")>> /\ b = <<>>
        BY <1>1, <1>6, <3>1
      <4>2. ~Untouched(a, s) /\ History!EntryIsLast(a, s)
        BY <4>1, OneEvent
      <4> QED
        BY <1>6, <3>1, <4>1, <4>2
    <3>2. CASE ~is.active
      <4>1. b = <<History!Event(s, "EXIT")>>
        BY <1>1, <1>6, <3>2
      <4>2. ~Untouched(b, s) /\ ~History!EntryIsLast(b, s)
        BY <4>1, OneEvent
      <4> QED
        BY <1>6, <3>2, <4>1, <4>2
    <3> QED
      BY <3>1, <3>2
  <2> HIDE DEF a, b, c, was, is
  <2>2. Untouched(<<>>, t)
    BY NoEvents
  <2>3. IsList(a \o b) /\ ~Untouched(a \o b, t) /\ (History!EntryIsLast(a \o b, t) <=> is.active)
    <3>1. CASE is.active
      <4>1. Untouched(b, t)
        BY <2>1, <2>2, <3>1
      <4>2. a \o b = a
        <5>1. b = <<>>
          BY <2>1, <3>1
        <5>2. PICK S : a \in Seq(S)
          BY <1>4 DEF IsList
        <5> QED
          BY <5>1, <5>2
      <4> QED
        BY <1>4, <2>1, <3>1, <4>2
    <3>2. CASE ~is.active
      BY <1>4, <2>1, <3>2, MovesAfterMoves
    <3> QED
      BY <3>1, <3>2
  <2>4. /\ IsList((a \o b) \o c) /\ ~Untouched((a \o b) \o c, t)
        /\ History!EntryIsLast((a \o b) \o c, t) <=> is.active
    <3> DEFINE d == a \o b
    <3> HIDE DEF d
    <3>1. /\ IsList(d) /\ ~Untouched(d, t) /\ (History!EntryIsLast(d, t) <=> is.active)
      BY <2>3 DEF d
    <3>2. IsList(d \o c) /\ ~Untouched(d \o c, t) /\ (History!EntryIsLast(d \o c, t) <=> is.active)
      <4>1. ~Untouched(d \o c, t)
        BY <1>3, <3>1, MovesAfterMoves
      <4> QED
        BY <1>3, <3>1, <4>1, MovesAfterMoves
    <3> QED
      BY <3>2 DEF d
  <2> QED
    BY <1>2, <1>6, <2>4 DEF Tells, was, is
<1> QED
  BY <1>5, <1>6

LEMMA TellsMore ==
  ASSUME NEW a, NEW b, IsList(a), IsList(b), NEW t, NEW before \in BOOLEAN, NEW later \in BOOLEAN,
         Tells(a, t, before), Tells(b, t, later), ~(before /\ later)
  PROVE  IsList(a \o b) /\ Tells(a \o b, t, before \/ later)
<1>1. /\ IsList(a \o b)
      /\ Untouched(b, t) => (History!EntryIsLast(a \o b, t) <=> History!EntryIsLast(a, t))
      /\ Untouched(b, t) => (Untouched(a \o b, t) <=> Untouched(a, t))
      /\ ~Untouched(b, t) => /\ ~Untouched(a \o b, t)
                             /\ History!EntryIsLast(a \o b, t) <=> History!EntryIsLast(b, t)
  BY MovesAfterMoves
<1> QED
  BY <1>1, Zenon DEF Tells

LEMMA BatchTells ==
  ASSUME HistoryInv
  PROVE  LET q == History!SetToSeq(cfgs)
             log == History!FlattenSeq([i \in 1 .. Len(q) |-> History!Events(q[i])])
         IN IsList(log) /\ \A t \in Names : Tells(log, t, t \in cfgs)
<1> DEFINE q == History!SetToSeq(cfgs)
           n == Len(q)
           l == [i \in 1 .. n |-> History!Events(q[i])]
           log == History!FlattenSeq(l)
           f == CHOOSE g : g = Joined(l, g, n)
           SeenBy(i, t) == \E j \in 1 .. i : q[j] = t
           Good(i) == IsList(f[i]) /\ \A t \in Names : Tells(f[i], t, SeenBy(i, t))
           Bad == {i \in 1 .. n : ~Good(i)}
<1>1. cfgs \subseteq Names /\ IsFiniteSet(cfgs)
  BY HistoryAssumption, FS_Subset DEF HistoryInv
<1>2. /\ q \in Seq(cfgs) /\ n \in Nat
      /\ \A i, j \in 1 .. n : q[i] = q[j] => i = j
      /\ \A x \in cfgs : \E i \in 1 .. n : q[i] = x
  BY <1>1, SetOnce
<1>3. \A i \in 1 .. n : q[i] \in cfgs
  BY <1>2
<1> HIDE DEF q, n
<1>4. Len(l) = n /\ \A i \in 1 .. n : l[i] = History!Events(q[i])
  BY <1>2
<1>5. CASE n = 0
  <2>1. log = l
    BY <1>4, <1>5 DEF History!FlattenSeq
  <2>2. l = <<>>
    BY <1>5
  <2>3. cfgs = {}
    BY <1>2, <1>5
  <2> HIDE DEF log, l
  <2>4. IsList(log) /\ \A t \in Names : Tells(log, t, t \in cfgs)
    BY <2>1, <2>2, <2>3, NoEvents DEF Tells
  <2> QED
    BY <2>4 DEF log, l, q, n
<1>6. CASE n # 0
  <2>1. log = f[n]
    <3>1. log = (CHOOSE g : g = [i \in 1 .. Len(l) |-> IF i = 1 THEN l[i] ELSE g[i - 1] \o l[i]])[Len(l)]
      <4> HIDE DEF l
      <4> QED
        BY <1>4, <1>6 DEF History!FlattenSeq
    <3> HIDE DEF l
    <3> QED
      BY <1>4, <3>1 DEF Joined
  <2> HIDE DEF log, l
  <2>2. f = Joined(l, f, n)
    BY <1>2, JoinedExists
  <2> HIDE DEF f
  <2>3. ASSUME Bad # {} PROVE FALSE
    <3> HIDE DEF Good
    <3>1. PICK i \in Bad : \A j \in Bad : <<j, i>> \notin Below
      <4>1. Bad \subseteq Nat
        OBVIOUS
      <4> QED
        BY <2>3, <4>1, BelowWellFounded, WFMin, Zenon
    <3>2. i \in 1 .. n /\ ~Good(i)
      OBVIOUS
    <3>3. f[i] = IF i = 1 THEN l[i] ELSE f[i - 1] \o l[i]
      BY <2>2, <3>2 DEF Joined
    <3>4. IsList(l[i]) /\ \A t \in Names : Tells(l[i], t, t = q[i])
      BY <1>1, <1>3, <1>4, <3>2, EventsTell
    <3>5. CASE i = 1
      <4>1. \A t \in Names : SeenBy(i, t) <=> t = q[i]
        BY <3>5
      <4> HIDE DEF SeenBy
      <4>2. \A t \in Names : Tells(f[i], t, SeenBy(i, t))
        BY <3>3, <3>4, <3>5, <4>1 DEF Tells
      <4> QED
        BY <3>2, <3>3, <3>4, <3>5, <4>2 DEF Good
    <3>6. CASE i # 1
      <4>1. i - 1 \in 1 .. n /\ <<i - 1, i>> \in Below
        BY <1>2, <3>2, <3>6 DEF Below
      <4>2. Good(i - 1)
        BY <3>1, <4>1
      <4>3. ASSUME NEW t \in Names
            PROVE  ~(SeenBy(i - 1, t) /\ t = q[i]) /\ (SeenBy(i, t) <=> SeenBy(i - 1, t) \/ t = q[i])
        <5>1. \A j \in 1 .. i : j = i \/ j \in 1 .. i - 1
          BY <1>2, <3>2
        <5>2. \A j \in 1 .. i - 1 : j \in 1 .. i /\ j \in 1 .. n /\ j # i
          BY <1>2, <3>2
        <5> QED
          BY <1>2, <3>2, <5>1, <5>2
      <4>4. \A t \in Names : SeenBy(i - 1, t) \in BOOLEAN
        OBVIOUS
      <4> HIDE DEF SeenBy
      <4>5. IsList(f[i - 1]) /\ \A t \in Names : Tells(f[i - 1], t, SeenBy(i - 1, t))
        BY <4>2 DEF Good
      <4>6. ASSUME NEW t \in Names PROVE IsList(f[i]) /\ Tells(f[i], t, SeenBy(i, t))
        <5>1. IsList(f[i - 1] \o l[i]) /\ Tells(f[i - 1] \o l[i], t, SeenBy(i - 1, t) \/ t = q[i])
          BY <3>4, <4>3, <4>4, <4>5, TellsMore
        <5> QED
          BY <3>3, <3>6, <4>3, <5>1 DEF Tells
      <4>7. IsList(f[i])
        BY <3>3, <3>4, <3>6, <4>5, MovesAfterMoves
      <4> QED
        BY <3>2, <4>6, <4>7 DEF Good
    <3> QED
      BY <3>5, <3>6
  <2>4. Good(n)
    <3>1. n \in 1 .. n
      BY <1>2, <1>6
    <3> HIDE DEF Good
    <3> QED
      BY <2>3, <3>1
  <2>5. \A t \in Names : SeenBy(n, t) <=> t \in cfgs
    BY <1>2, <1>3
  <2> HIDE DEF SeenBy
  <2>6. IsList(log) /\ \A t \in Names : Tells(log, t, t \in cfgs)
    BY <2>1, <2>4, <2>5 DEF Tells
  <2> QED
    BY <2>6 DEF log, l, q, n
<1> QED
  BY <1>5, <1>6

LEMMA InitHistoryInv == History!Init => HistoryInv
<1> SUFFICES ASSUME History!Init PROVE HistoryInv
  OBVIOUS
<1>1. <<>> \o <<>> = <<>>
  OBVIOUS
<1>2. /\ positions \in [Names -> [active : BOOLEAN, adj : Nat]]
      /\ DOMAIN last = Names /\ \A s \in Names : last[s].active = FALSE
  BY DEF History!Init, History!Never
<1>3. \A s \in Names : last[s].active <=> History!EntryIsLast(events \o batch, s)
  BY <1>1, <1>2, NoEvents DEF History!Init
<1> QED
  BY <1>2, <1>3, NoEvents DEF HistoryInv, History!Init

LEMMA NextHistoryInv == ASSUME HistoryInv, History!Next PROVE HistoryInv'
<1> USE DEF HistoryInv
<1>1. ASSUME NEW s \in Names, History!Registers(s) PROVE HistoryInv'
  BY <1>1 DEF History!Registers, History!mem, History!tables, History!world
<1>2. ASSUME NEW s \in Names, History!Turns(s) PROVE HistoryInv'
  <2>1. positions' \in [Names -> [active : BOOLEAN, adj : Nat]]
    BY <1>2 DEF History!Turns
  <2> QED
    BY <1>2, <2>1 DEF History!Turns, History!mem, History!tables, History!world
<1>3. ASSUME NEW s \in Names, History!Adjusts(s) PROVE HistoryInv'
  <2>1. positions' \in [Names -> [active : BOOLEAN, adj : Nat]]
    BY <1>3 DEF History!Adjusts
  <2> QED
    BY <1>3, <2>1 DEF History!Adjusts, History!mem, History!tables, History!world
<1>4. ASSUME History!Settles PROVE HistoryInv'
  BY <1>4 DEF History!Settles, History!mem, History!tables, History!world
<1>5. ASSUME History!Seed PROVE HistoryInv'
  <2>1. \A s \in Names : last'[s] = History!Seeded(s)
    BY <1>5 DEF History!Seed
  <2>2. \A s \in Names : last'[s].active \in BOOLEAN
    <3>1. ASSUME NEW s \in Names PROVE History!Seeded(s).active \in BOOLEAN
      <4>1. last[s].active \in BOOLEAN
        OBVIOUS
      <4>2. ASSUME NEW a \in BOOLEAN, NEW k PROVE History!SeenAs(a, k).active \in BOOLEAN
        BY DEF History!SeenAs
      <4>3. (History!Fetched(events, s).kind # "EXIT") \in BOOLEAN
        OBVIOUS
      <4> QED
        BY <4>1, <4>2, <4>3, Zenon DEF History!Seeded
    <3> QED
      BY <2>1, <3>1
  <2>3. blemishes = 0 => \A s \in Names : last'[s] = last[s]
    <3>1. \A s : History!OfName(<<>>, s) = {}
      BY DEF History!OfName
    <3> QED
      BY <1>5, <2>1, <3>1 DEF History!Seed, History!Seeded
  <2> QED
    BY <1>5, <2>2, <2>3 DEF History!Seed, History!real, History!tables, History!world
<1>6. ASSUME History!CopyConfigs PROVE HistoryInv'
  BY <1>6 DEF History!CopyConfigs, History!real, History!tables, History!world
<1>7. ASSUME History!CopyStates PROVE HistoryInv'
  BY <1>7 DEF History!CopyStates, History!real, History!tables, History!world
<1>8. ASSUME History!Compare PROVE HistoryInv'
  <2>1. IsList(batch') /\ \A t \in Names : Tells(batch', t, t \in cfgs)
    BY <1>8, BatchTells DEF History!Compare
  <2>2. /\ at = "compare" /\ at' = "samples" /\ events' = events /\ blemishes' = blemishes
        /\ DOMAIN last' = Names
        /\ \A s \in Names : last'[s] = IF s \in cfgs THEN History!Now(s) ELSE last[s]
        /\ UNCHANGED <<positions, known, cfgs>>
    BY <1>8 DEF History!Compare, History!SeenNext, History!real, History!tables, History!world
  <2>3. \A s \in Names : last'[s].active \in BOOLEAN
    BY <2>2, NowIsKnown
  <2>4. ASSUME blemishes = 0, NEW s \in Names
        PROVE  last'[s].active <=> History!EntryIsLast(events \o batch', s)
    <3>1. IsList(events) /\ batch = <<>> /\ (last[s].active <=> History!EntryIsLast(events \o <<>>, s))
      BY <2>2, <2>4
    <3>2. events \o <<>> = events
      <4>1. PICK S : events \in Seq(S)
        BY <3>1 DEF IsList
      <4> QED
        BY <4>1
    <3>3. /\ Untouched(batch', s) => (History!EntryIsLast(events \o batch', s) <=> History!EntryIsLast(events, s))
          /\ ~Untouched(batch', s) => (History!EntryIsLast(events \o batch', s) <=> History!EntryIsLast(batch', s))
      BY <2>1, <3>1, MovesAfterMoves
    <3>4. Tells(batch', s, s \in cfgs) /\ History!Now(s).active \in BOOLEAN /\ last[s].active \in BOOLEAN
      BY <2>1, NowIsKnown
    <3>5. last'[s] = IF s \in cfgs THEN History!Now(s) ELSE last[s]
      BY <2>2
    <3> QED
      BY <3>1, <3>2, <3>3, <3>4, <3>5 DEF Tells
  <2> QED
    BY <2>1, <2>2, <2>3, <2>4
<1>9. ASSUME History!Sample PROVE HistoryInv'
  BY <1>9 DEF History!Sample, History!real, History!mem, History!world
<1>10. ASSUME History!Record PROVE HistoryInv'
  <2>1. /\ events' = events \o batch /\ batch' = <<>> /\ at' = "copy"
        /\ UNCHANGED <<positions, last, known, cfgs, blemishes>>
    BY <1>10 DEF History!Record, History!real, History!world
  <2>2. ASSUME blemishes = 0 PROVE IsList(events') /\ events' \o batch' = events \o batch
    <3>1. PICK S, T : events \in Seq(S) /\ batch \in Seq(T)
      BY <2>2 DEF IsList
    <3>2. events \o batch \in Seq(S \union T)
      BY <3>1
    <3> QED
      BY <2>1, <3>2 DEF IsList
  <2> QED
    BY <2>1, <2>2, NoEvents
<1>11. ASSUME History!Fails PROVE HistoryInv'
  BY <1>11 DEF History!Fails, History!real, History!tables
<1>12. ASSUME History!CleanUp PROVE HistoryInv'
  <2>1. blemishes' \in Nat /\ blemishes' # 0
    BY <1>12 DEF History!CleanUp
  <2> QED
    BY <1>12, <2>1 DEF History!CleanUp, History!real, History!mem
<1>13. ASSUME History!NextWeek PROVE HistoryInv'
  BY <1>13 DEF History!NextWeek, History!real, History!mem, History!tables
<1>14. ASSUME History!Restart PROVE HistoryInv'
  <2>1. blemishes' \in Nat /\ blemishes' # 0
    BY <1>14 DEF History!Restart
  <2>2. DOMAIN last' = Names /\ \A s \in Names : last'[s].active \in BOOLEAN
    BY <1>14 DEF History!Restart, History!Never
  <2> QED
    BY <1>14, <2>1, <2>2 DEF History!Restart
<1> QED
  BY <1>1, <1>2, <1>3, <1>4, <1>5, <1>6, <1>7, <1>8, <1>9, <1>10, <1>11, <1>12, <1>13, <1>14
  DEF History!Next, History!Observe

(* TableIsMemory: while no insert has failed, whatever registers, closes   *)
(* or is adjusted between the two copies the thread takes, the table of    *)
(* events says of each strategy what the thread has seen last.             *)
THEOREM TableSaysWhatWasSeen == History!Spec => []TableIsMemory
<1>1. HistoryInv => TableIsMemory
  <2> SUFFICES ASSUME HistoryInv, at = "copy", blemishes = 0, NEW s \in Names
               PROVE  last[s].active = History!EntryIsLast(events, s)
    BY DEF TableIsMemory, History!TableIsMemory
  <2>1. IsList(events) /\ batch = <<>> /\ (last[s].active <=> History!EntryIsLast(events \o <<>>, s))
        /\ last[s].active \in BOOLEAN
    BY DEF HistoryInv
  <2>2. PICK S : events \in Seq(S)
    BY <2>1 DEF IsList
  <2>3. events \o <<>> = events
    BY <2>2
  <2> QED
    BY <2>1, <2>3 DEF History!EntryIsLast
<1>2. HistoryInv /\ [History!Next]_History!vars => HistoryInv'
  <2> SUFFICES ASSUME HistoryInv, [History!Next]_History!vars PROVE HistoryInv'
    OBVIOUS
  <2>1. CASE UNCHANGED History!vars
    BY <2>1 DEF HistoryInv, History!vars, History!real, History!mem, History!tables, History!world
  <2> QED
    BY <2>1, NextHistoryInv
<1> QED
  BY <1>1, <1>2, InitHistoryInv, PTL DEF History!Spec
=============================================================================
