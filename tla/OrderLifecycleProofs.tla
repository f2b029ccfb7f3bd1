------------------------ MODULE OrderLifecycleProofs ------------------------
(* Proofs about OrderLifecycle, for every set of commands, every number of *)
(* attempts, of crashes and of lost writes, and every size of the broker's *)
(* book; and that it implements OrderContract.                             *)
EXTENDS OrderRefinement, TLAPS

-----------------------------------------------------------------------------
(* The strengthening of the safety invariants.                             *)

(* A call belongs to a caller that still waits for it. *)
CallOwned ==
  call # Idle =>
    /\ call.cmd \in Entries => call.cmd \in submitted
    /\ call.cmd \in Exits => watch = "dispatch" /\ call.cmd \in todo

Waiting == submitted \union todo

(* Before an order leaves, its record has left CREATED for good, or the    *)
(* write that was to do it failed.                                         *)
Fresh == {"NONE", "CREATED"}

SentFirst ==
  call.at \in {"marked", "accepted", "refused"} =>
    status[call.cmd] \notin Fresh \/ call.cmd \in unmarked

(* Only a command whose record exists is waited for. *)
WaitingExists == \A o \in Waiting : status[o] # "NONE"

(* The broker has acknowledged an order of the command. *)
Spent(o) == \E id \in BrokerIds : book[id].cmd = o /\ book[id].acked

SpentMarked == \A o \in Orders : Spent(o) => status[o] \notin Fresh \/ o \in unmarked

(* Nobody waits to send an acknowledged command, but for the call that is  *)
(* about to record the acknowledgement; unmarked commands apart.           *)
SpentDone ==
  \A o \in Waiting \ unmarked : Spent(o) => call.cmd = o /\ call.at = "accepted"

SendInv ==
  /\ TypeOK /\ CallOwned /\ SentFirst /\ WaitingExists
  /\ SpentMarked /\ SpentDone /\ AcknowledgedOnce

(* A number on record, or about to be, is that of an order of the command. *)
BookedFor(id, o) ==
  id \in BrokerIds /\ book[id] \in BookEntry /\ book[id].cmd = o /\ book[id].acked

NumberIsOurs == \A o \in Orders : Known(o) => BookedFor(brokerId[o], o)

AnswerIsOurs == call.at = "accepted" => BookedFor(call.id, call.cmd)

(* A command with a number on record is not sent again. *)
KnownDone == \A o \in Orders : Known(o) => status[o] \notin Fresh /\ o \notin Waiting

(* A notified fill is never taken for unreconciled again. *)
NotifiedIsReconciled ==
  \A o \in Orders : fills[o] # 0 => fills[o] = 1 /\ Known(o) /\ Reconciled(o)

(* The fill being told is recorded and has not been told before. *)
TellingIsFilled == \A o \in telling : fills[o] = 0 /\ Reconciled(o) /\ Filled(o)

FillInv ==
  /\ SendInv /\ NumberIsOurs /\ AnswerIsOurs /\ KnownDone
  /\ ExecutedIsFilled /\ NotifiedIsReconciled /\ TellingIsFilled

(* A command occupies its slot: marked as sent, or past the check 2C. *)
Claims(o) ==
  \/ status[o] = "SENT_TO_BROKER"
  \/ call.cmd = o /\ call.at \in Stages \ {"cleared"}

OneClaimPerSlot ==
  \A o, p \in Entries : Claims(o) /\ Claims(p) /\ Slot[o] = Slot[p] => o = p

ClaimInv == TypeOK /\ OneClaimPerSlot
-----------------------------------------------------------------------------
(* The kinds of values the tables hold are told apart by their fields. *)
LEMMA Kinds ==
  /\ NoEntry \notin BookEntry
  /\ NoEntry.state = "NONE" /\ ~NoEntry.acked
  /\ Idle.at = "idle" /\ "idle" \notin Stages
  /\ \A b \in BookEntry : b.state \in {"OPEN", "COMPLETE", "REJECTED"} /\ b.cmd \in Orders
  BY DEF BookEntry, NoEntry, Idle, Stages

(* A call that has reached a stage is a call of some command. *)
LEMMA InFlight ==
  ASSUME TypeOK, call.at \in Stages
  PROVE  /\ call \in [cmd : Orders, at : Stages, id : BrokerIds \union {0}, tries : Nat]
         /\ call # Idle
  BY Kinds DEF TypeOK

(* The commands are entries or exits. *)
LEMMA Sides == Entries \subseteq Orders /\ Exits \subseteq Orders /\ Entries \intersect Exits = {}
  BY OrderAssumption DEF Orders

(* A new entry of the book takes a free number and leaves the others.      *)
LEMMA BookedEffect ==
  ASSUME TypeOK, call.at \in Stages, NEW id \in BrokerIds, NEW acked \in BOOLEAN,
         Booked(id, acked)
  PROVE  /\ book[id] = NoEntry
         /\ book'[id] = [cmd |-> call.cmd, state |-> "OPEN", acked |-> acked]
         /\ \A other \in BrokerIds \ {id} : book'[other] = book[other]
         /\ book' \in [BrokerIds -> BookEntry \union {NoEntry}]
  BY InFlight DEF Booked, NextNumber, TypeOK, BookEntry

(* The broker's verdict changes the state of one open entry. *)
LEMMA ClosesEffect ==
  ASSUME TypeOK, NEW id \in BrokerIds, NEW s \in {"COMPLETE", "REJECTED"}, BrokerCloses(id, s)
  PROVE  /\ book[id] \in BookEntry /\ book[id].state = "OPEN"
         /\ book'[id] \in BookEntry /\ book'[id].state = s
         /\ book'[id].cmd = book[id].cmd /\ book'[id].acked = book[id].acked
         /\ \A other \in BrokerIds \ {id} : book'[other] = book[other]
         /\ book' \in [BrokerIds -> BookEntry \union {NoEntry}]
  <1>1. book[id] \in BookEntry
    BY Kinds DEF BrokerCloses, TypeOK
  <1>2. [book[id] EXCEPT !.state = s] \in BookEntry
    BY <1>1 DEF BookEntry
  <1>. QED
    BY <1>1, <1>2 DEF BrokerCloses, TypeOK, BookEntry

-----------------------------------------------------------------------------
(* Empty tables are well-typed. *)
LEMMA TypeInit == Init => TypeOK
  <1> SUFFICES ASSUME Init PROVE TypeOK
    OBVIOUS
  <1>1. /\ status \in [Orders -> Statuses] /\ brokerId \in [Orders -> BrokerIds \union {0}]
        /\ book \in [BrokerIds -> BookEntry \union {NoEntry}] /\ fills \in [Orders -> Nat]
    BY DEF Init, Statuses
  <1>. QED
    BY <1>1 DEF Init, TypeOK

(* Each action writes values of the right kind. *)
LEMMA TypeNext == TypeOK /\ [Next]_vars => TypeOK'
  <1> SUFFICES ASSUME TypeOK, [Next]_vars PROVE TypeOK'
    OBVIOUS
  <1> USE Sides DEF watcherVars, database, failures, Mark, TryMark, Lose
  <1>1. ASSUME NEW o \in Orders, Submit(o) \/ Register(o) PROVE TypeOK'
    BY <1>1 DEF Submit, Register, Mark, TypeOK, Statuses
  <1>2. ASSUME NEW o \in Orders, Begin(o) PROVE TypeOK'
    BY <1>2 DEF Begin, TypeOK, Stages
  <1>3. ASSUME NEW o \in Orders, BlockedByRisk(o) \/ LoginFails(o) PROVE TypeOK'
    BY <1>3 DEF BlockedByRisk, LoginFails, Released, Mark, TypeOK, Statuses
  <1>4. ASSUME Unblocked PROVE TypeOK'
    <2>1. call' \in [cmd : Orders, at : Stages, id : BrokerIds \union {0}, tries : Nat]
      BY <1>4, InFlight DEF Unblocked, Stages
    <2>. QED
      BY <1>4, <2>1 DEF Unblocked, TypeOK
  <1>5. ASSUME BlockedByGuard PROVE TypeOK'
    BY <1>5, InFlight DEF BlockedByGuard, Released, Mark, TypeOK, Statuses, Stages
  <1>6. ASSUME MarkSent PROVE TypeOK'
    <2>1. call' \in [cmd : Orders, at : Stages, id : BrokerIds \union {0}, tries : Nat]
      BY <1>6, InFlight DEF MarkSent, Stages
    <2>. QED
      BY <1>6, <2>1, InFlight DEF MarkSent, Mark, TypeOK, Statuses, Stages
  <1>7. ASSUME Place PROVE TypeOK'
    <2>1. PICK id \in BrokerIds : Booked(id, TRUE) /\ call' = [call EXCEPT !.at = "accepted", !.id = id]
      BY <1>7 DEF Place
    <2>2. call' \in [cmd : Orders, at : Stages, id : BrokerIds \union {0}, tries : Nat]
      BY <1>7, <2>1, InFlight DEF Place, Stages
    <2>3. book' \in [BrokerIds -> BookEntry \union {NoEntry}]
      BY <1>7, <2>1, BookedEffect DEF Place, Stages
    <2>. QED
      BY <1>7, <2>2, <2>3 DEF Place, TypeOK
  <1>8. ASSUME Unanswered \/ SessionLost PROVE TypeOK'
    <2>1. call.at \in Stages /\ call.at = "marked"
      BY <1>8 DEF Unanswered, SessionLost, Stages
    <2>2. book' \in [BrokerIds -> BookEntry \union {NoEntry}]
      BY <1>8, <2>1, BookedEffect DEF Unanswered, SessionLost, TypeOK
    <2>3. CASE Unanswered
      <3>1. call' \in [cmd : Orders, at : Stages, id : BrokerIds \union {0}, tries : Nat]
        BY <2>1, <2>3, InFlight DEF Unanswered, Stages
      <3>. QED
        BY <2>2, <2>3, <3>1 DEF Unanswered, TypeOK
    <2>4. CASE SessionLost
      BY <2>2, <2>4 DEF SessionLost, Released, TypeOK
    <2>. QED
      BY <1>8, <2>3, <2>4
  <1>9. ASSUME RecordAccepted \/ RecordRefused PROVE TypeOK'
    <2>1. call \in [cmd : Orders, at : Stages, id : BrokerIds \union {0}, tries : Nat]
      BY <1>9, InFlight DEF RecordAccepted, RecordRefused, Stages
    <2>2. CASE RecordAccepted
      BY <2>1, <2>2 DEF RecordAccepted, Released, TypeOK, Statuses
    <2>3. CASE RecordRefused
      BY <2>1, <2>3 DEF RecordRefused, Released, TypeOK, Statuses
    <2>. QED
      BY <1>9, <2>2, <2>3
  <1>10. ASSUME PollBook \/ ListOpenExits \/ NextCycle \/ WatcherDies PROVE TypeOK'
    BY <1>10 DEF PollBook, ListOpenExits, NextCycle, WatcherDies, Unreconciled, TypeOK
  <1>11. ASSUME NEW id \in BrokerIds, Reconcile(id) \/ ReconcileFails(id) PROVE TypeOK'
    <2>1. CASE Reconcile(id)
      BY <2>1 DEF Reconcile, Owner, Verdict, TypeOK, Statuses
    <2>2. CASE ReconcileFails(id)
      BY <2>2 DEF ReconcileFails, TypeOK
    <2>. QED
      BY <1>11, <2>1, <2>2
  <1>12. ASSUME Breach PROVE TypeOK'
    BY <1>12 DEF Breach, TypeOK
  <1>13. ASSUME NEW o \in Orders, RiskCancel(o) \/ Cancel(o) PROVE TypeOK'
    BY <1>13 DEF RiskCancel, Cancel, Mark, TypeOK, Statuses
  <1>14. ASSUME CancelAll \/ ExpireAll PROVE TypeOK'
    BY <1>14 DEF CancelAll, ExpireAll, CloseAll, TypeOK, Statuses
  <1>15. ASSUME NEW id \in BrokerIds, NEW s \in {"COMPLETE", "REJECTED"}, BrokerCloses(id, s)
         PROVE  TypeOK'
    BY <1>15, ClosesEffect DEF BrokerCloses, TypeOK
  <1>16. ASSUME Crash PROVE TypeOK'
    BY <1>16 DEF Crash, Disagreeing, TypeOK
  <1>17. ASSUME NEW id \in BrokerIds, Recover(id) PROVE TypeOK'
    BY <1>17 DEF Recover, Verdict, TypeOK, Statuses
  <1>18. ASSUME UNCHANGED vars PROVE TypeOK'
    BY <1>18 DEF vars, TypeOK
  <1>19. ASSUME NEW o \in Orders, NotifyFill(o) PROVE TypeOK'
    BY <1>19 DEF NotifyFill, TypeOK
  <1>. QED
    BY <1>1, <1>2, <1>3, <1>4, <1>5, <1>6, <1>7, <1>8, <1>9, <1>10, <1>11, <1>12,
       <1>13, <1>14, <1>15, <1>16, <1>17, <1>18, <1>19 DEF Next, Execute, Watcher

(* The tables and every thread's private state keep their shape. *)
THEOREM TypeCorrect == Spec => []TypeOK
  BY TypeInit, TypeNext, PTL DEF Spec

-----------------------------------------------------------------------------
(* The caller of a call in flight: a submitter for an entry, the watcher's *)
(* list for an exit.                                                       *)
LEMMA CallerWaits == TypeOK /\ CallOwned /\ call # Idle => call.cmd \in Waiting /\ call.cmd \in Orders
  BY Sides DEF TypeOK, CallOwned, Waiting, Orders

(* What the steps of the other threads leave alone. *)
LEMMA SpentFrame ==
  ASSUME UNCHANGED book
  PROVE  \A o : Spent(o)' <=> Spent(o)
  BY DEF Spent

(* An unacknowledged arrival spends nothing. *)
LEMMA SpentUnacked ==
  ASSUME TypeOK, call.at \in Stages, NEW id \in BrokerIds, Booked(id, FALSE)
  PROVE  \A o : Spent(o)' <=> Spent(o)
  <1>1. /\ book[id] = NoEntry
        /\ book'[id] = [cmd |-> call.cmd, state |-> "OPEN", acked |-> FALSE]
        /\ \A other \in BrokerIds \ {id} : book'[other] = book[other]
    BY BookedEffect, FALSE \in BOOLEAN
  <1>2. ~book[id].acked /\ book'[id].acked = FALSE /\ book'[id].cmd = call.cmd
    BY <1>1, Kinds
  <1>. QED
    BY <1>1, <1>2 DEF Spent

(* Nor does a verdict. *)
LEMMA SpentClosed ==
  ASSUME TypeOK, NEW id \in BrokerIds, NEW s \in {"COMPLETE", "REJECTED"}, BrokerCloses(id, s)
  PROVE  \A o : Spent(o)' <=> Spent(o)
  BY ClosesEffect DEF Spent

(* An acknowledged arrival spends the command of the call. *)
LEMMA SpentAcked ==
  ASSUME TypeOK, call.at \in Stages, NEW id \in BrokerIds, Booked(id, TRUE)
  PROVE  \A o : Spent(o)' <=> Spent(o) \/ o = call.cmd
  <1>1. /\ book[id] = NoEntry
        /\ book'[id] = [cmd |-> call.cmd, state |-> "OPEN", acked |-> TRUE]
        /\ \A other \in BrokerIds \ {id} : book'[other] = book[other]
    BY BookedEffect, TRUE \in BOOLEAN
  <1>2. ~book[id].acked /\ book'[id].acked = TRUE /\ book'[id].cmd = call.cmd
    BY <1>1, Kinds
  <1>. QED
    BY <1>1, <1>2 DEF Spent

(* Nobody has submitted anything yet. *)
LEMMA SendInit == Init => SendInv
  <1> SUFFICES ASSUME Init PROVE SendInv
    OBVIOUS
  <1>1. CallOwned /\ SentFirst /\ WaitingExists
    BY DEF Init, CallOwned, SentFirst, WaitingExists, Waiting, Idle
  <1>2. \A id \in BrokerIds : ~book[id].acked
    BY Kinds DEF Init
  <1>3. SpentMarked /\ SpentDone /\ AcknowledgedOnce
    BY <1>2 DEF SpentMarked, SpentDone, Spent, AcknowledgedOnce
  <1>. QED
    BY <1>1, <1>3, TypeInit DEF SendInv

(* The caller keeps waiting while its call is in flight. *)
LEMMA OwnedNext == SendInv /\ [Next]_vars => CallOwned'
  <1> SUFFICES ASSUME SendInv, [Next]_vars PROVE CallOwned'
    OBVIOUS
  <1> USE Sides DEF SendInv, CallOwned, watcherVars
  <1>1. ASSUME NEW o \in Orders, Submit(o) \/ Register(o) \/ RiskCancel(o) \/ Cancel(o) PROVE CallOwned'
    BY <1>1 DEF Submit, Register, RiskCancel, Cancel
  <1>2. ASSUME NEW o \in Orders, Begin(o) PROVE CallOwned'
    BY <1>2 DEF Begin, Caller
  <1>3. ASSUME NEW o \in Orders, BlockedByRisk(o) \/ LoginFails(o) PROVE CallOwned'
    BY <1>3 DEF BlockedByRisk, LoginFails
  <1>4. ASSUME Unblocked \/ MarkSent \/ Place \/ Unanswered PROVE CallOwned'
    <2>1. call.at \in Stages /\ call # Idle
      BY <1>4, Kinds DEF Unblocked, MarkSent, Place, Unanswered, Stages
    <2>2. call'.cmd = call.cmd
      BY <1>4, <2>1, InFlight DEF Unblocked, MarkSent, Place, Unanswered
    <2>3. UNCHANGED <<submitted, watch, todo>>
      BY <1>4 DEF Unblocked, MarkSent, Place, Unanswered
    <2>. QED
      BY <2>1, <2>2, <2>3
  <1>5. ASSUME BlockedByGuard \/ SessionLost \/ RecordAccepted \/ RecordRefused PROVE CallOwned'
    BY <1>5 DEF BlockedByGuard, SessionLost, RecordAccepted, RecordRefused
  <1>6. ASSUME PollBook \/ WatcherDies PROVE CallOwned'
    BY <1>6 DEF PollBook, WatcherDies
  <1>7. ASSUME ListOpenExits \/ NextCycle PROVE CallOwned'
    BY <1>7 DEF ListOpenExits, NextCycle
  <1>8. ASSUME \/ \E id \in BrokerIds : Reconcile(id) \/ ReconcileFails(id) \/ Recover(id)
               \/ \E o \in Orders : NotifyFill(o)
        PROVE  CallOwned'
    BY <1>8 DEF Reconcile, ReconcileFails, Recover, NotifyFill
  <1>9. ASSUME Breach \/ CancelAll \/ ExpireAll PROVE CallOwned'
    BY <1>9 DEF Breach, CancelAll, ExpireAll, CloseAll
  <1>10. ASSUME NEW id \in BrokerIds, NEW s \in {"COMPLETE", "REJECTED"}, BrokerCloses(id, s) PROVE CallOwned'
    BY <1>10 DEF BrokerCloses
  <1>11. ASSUME Crash PROVE CallOwned'
    BY <1>11 DEF Crash
  <1>12. ASSUME UNCHANGED vars PROVE CallOwned'
    BY <1>12 DEF vars
  <1>. QED
    BY <1>1, <1>2, <1>3, <1>4, <1>5, <1>6, <1>7, <1>8, <1>9, <1>10, <1>11, <1>12
       DEF Next, Execute, Watcher

(* A record that has left CREATED never returns to it, and one that exists *)
(* never disappears.                                                       *)
LEMMA StatusStep ==
  ASSUME TypeOK, [Next]_vars, NEW o \in Orders
  PROVE  /\ status[o] \notin Fresh => status'[o] \notin Fresh
         /\ status[o] # "NONE" => status'[o] # "NONE"
  <1> USE Sides DEF Fresh, Mark, TryMark, Lose, database
  <1>1. status \in [Orders -> Statuses]
    BY DEF TypeOK
  <1>2. ASSUME UNCHANGED status PROVE status'[o] = status[o]
    BY <1>2
  <1>3. ASSUME NEW p \in Orders, Submit(p) \/ Register(p)
        PROVE  status[p] = "NONE" /\ \A q \in Orders \ {p} : status'[q] = status[q]
    BY <1>1, <1>3 DEF Submit, Register
  <1>4. ASSUME NEW p \in Orders, BlockedByRisk(p) \/ RiskCancel(p) \/ Cancel(p)
        PROVE  status'[o] = status[o] \/ status'[o] \in {"FAILED", "CANCELLED"}
    BY <1>1, <1>4 DEF BlockedByRisk, RiskCancel, Cancel
  <1>5. ASSUME BlockedByGuard \/ MarkSent \/ RecordAccepted \/ RecordRefused
        PROVE  status'[o] = status[o] \/ status'[o] \in {"FAILED", "SENT_TO_BROKER"}
    BY <1>1, <1>5 DEF BlockedByGuard, MarkSent, RecordAccepted, RecordRefused
  <1>6. ASSUME NEW id \in BrokerIds, Reconcile(id) \/ Recover(id)
        PROVE  status'[o] = status[o] \/ status'[o] \in {"EXECUTED", "FAILED"}
    BY <1>1, <1>6 DEF Reconcile, Recover, Verdict
  <1>7. ASSUME CancelAll \/ ExpireAll
        PROVE  status'[o] = status[o] \/ status'[o] \in {"CANCELLED", "EXPIRED"}
    BY <1>1, <1>7 DEF CancelAll, ExpireAll, CloseAll
  <1>8. ASSUME \/ \E p \in Orders : Begin(p) \/ LoginFails(p)
               \/ Unblocked \/ Place \/ Unanswered \/ SessionLost
               \/ PollBook \/ ListOpenExits \/ NextCycle \/ WatcherDies \/ Breach \/ Crash
               \/ \E id \in BrokerIds : \/ BrokerCloses(id, "COMPLETE")
                                        \/ BrokerCloses(id, "REJECTED") \/ ReconcileFails(id)
               \/ \E p \in Orders : NotifyFill(p)
               \/ UNCHANGED vars
        PROVE  UNCHANGED status
    BY <1>8 DEF Begin, LoginFails, Unblocked, Place, Unanswered, SessionLost, PollBook,
       ListOpenExits, NextCycle, WatcherDies, Breach, Crash, BrokerCloses, ReconcileFails,
       NotifyFill, vars
  <1>. QED
    BY <1>2, <1>3, <1>4, <1>5, <1>6, <1>7, <1>8 DEF Next, Execute, Watcher

(* Only a placement and the broker itself change the book. *)
LEMMA BookStep ==
  ASSUME [Next]_vars
  PROVE  \/ UNCHANGED book \/ Place \/ Unanswered \/ SessionLost
         \/ \E id \in BrokerIds : \E s \in {"COMPLETE", "REJECTED"} : BrokerCloses(id, s)
  <1>1. ASSUME NEW p \in Orders, \/ Submit(p) \/ Register(p) \/ LoginFails(p)
                                 \/ RiskCancel(p) \/ Cancel(p) \/ Begin(p) \/ BlockedByRisk(p)
        PROVE  UNCHANGED book
    BY <1>1 DEF Submit, Register, LoginFails, RiskCancel, Cancel, Begin, BlockedByRisk
  <1>2. ASSUME \/ Unblocked \/ BlockedByGuard \/ MarkSent \/ RecordAccepted \/ RecordRefused
               \/ Watcher \/ WatcherDies \/ Breach \/ CancelAll \/ ExpireAll \/ Crash
               \/ UNCHANGED vars
        PROVE  UNCHANGED book
    BY <1>2 DEF Unblocked, BlockedByGuard, MarkSent, RecordAccepted, RecordRefused, Watcher,
       PollBook, ListOpenExits, NextCycle, Reconcile, NotifyFill, WatcherDies, Breach,
       CancelAll, ExpireAll, CloseAll, Crash, vars
  <1>3. ASSUME NEW id \in BrokerIds, Recover(id) \/ ReconcileFails(id) PROVE UNCHANGED book
    BY <1>3 DEF Recover, ReconcileFails
  <1>. QED
    BY <1>1, <1>2, <1>3 DEF Next, Execute

(* Only an acknowledged placement spends a command. *)
LEMMA SpentStep ==
  ASSUME TypeOK, [Next]_vars, NEW o, Spent(o)', ~Spent(o)
  PROVE  Place /\ o = call.cmd
  <1>1. ASSUME UNCHANGED book PROVE FALSE
    BY <1>1, SpentFrame
  <1>2. ASSUME NEW id \in BrokerIds, NEW s \in {"COMPLETE", "REJECTED"}, BrokerCloses(id, s)
        PROVE  FALSE
    BY <1>2, SpentClosed
  <1>3. ASSUME Unanswered \/ SessionLost PROVE FALSE
    <2>1. call.at \in Stages
      BY <1>3 DEF Unanswered, SessionLost, Stages
    <2>2. UNCHANGED book \/ \E id \in BrokerIds : Booked(id, FALSE)
      BY <1>3 DEF Unanswered, SessionLost
    <2>. QED
      BY <1>1, <2>1, <2>2, SpentUnacked
  <1>4. ASSUME Place PROVE o = call.cmd
    <2>1. call.at \in Stages /\ \E id \in BrokerIds : Booked(id, TRUE)
      BY <1>4 DEF Place, Stages
    <2>. QED
      BY <2>1, SpentAcked
  <1>. QED
    BY <1>1, <1>2, <1>3, <1>4, BookStep

(* Whoever starts to wait does so for a record that is CREATED. *)
LEMMA WaitingStep ==
  ASSUME TypeOK, [Next]_vars, NEW o \in Waiting', o \notin Waiting
  PROVE  status[o] \in Fresh /\ status'[o] = "CREATED" /\ o \in Orders
  <1> USE Sides DEF Waiting, watcherVars, Fresh
  <1>1. ASSUME NEW p \in Orders, Submit(p)
        PROVE  status[o] \in Fresh /\ status'[o] = "CREATED" /\ o \in Orders
    BY <1>1 DEF Submit, Mark, TypeOK
  <1>2. ASSUME ListOpenExits
        PROVE  status[o] \in Fresh /\ status'[o] = "CREATED" /\ o \in Orders
    BY <1>2 DEF ListOpenExits, database
  <1>3. ASSUME NEW p \in Orders, \/ Register(p) \/ LoginFails(p) \/ RiskCancel(p) \/ Cancel(p)
                                 \/ Begin(p) \/ BlockedByRisk(p)
        PROVE  FALSE
    BY <1>3 DEF Register, LoginFails, RiskCancel, Cancel, Begin, BlockedByRisk, Released
  <1>4. ASSUME \/ Unblocked \/ BlockedByGuard \/ MarkSent \/ Place \/ Unanswered \/ SessionLost
               \/ RecordAccepted \/ RecordRefused
        PROVE  FALSE
    BY <1>4 DEF Unblocked, BlockedByGuard, MarkSent, Place, Unanswered, SessionLost,
       RecordAccepted, RecordRefused, Released
  <1>5. ASSUME \/ PollBook \/ NextCycle \/ WatcherDies \/ Breach \/ CancelAll \/ ExpireAll
               \/ Crash \/ UNCHANGED vars
        PROVE  FALSE
    BY <1>5 DEF PollBook, NextCycle, WatcherDies, Breach, CancelAll, ExpireAll, CloseAll,
       Crash, vars
  <1>6. ASSUME NEW id \in BrokerIds, \/ Reconcile(id) \/ ReconcileFails(id) \/ Recover(id)
                                     \/ BrokerCloses(id, "COMPLETE") \/ BrokerCloses(id, "REJECTED")
        PROVE  FALSE
    BY <1>6 DEF Reconcile, ReconcileFails, Recover, BrokerCloses
  <1>7. ASSUME NEW p \in Orders, NotifyFill(p) PROVE FALSE
    BY <1>7 DEF NotifyFill
  <1>. QED
    BY <1>1, <1>2, <1>3, <1>4, <1>5, <1>6, <1>7 DEF Next, Execute, Watcher

(* The stages before the broker has the order, as steps of the call. *)
LEMMA StageStep ==
  ASSUME TypeOK, [Next]_vars
  PROVE  /\ call'.at \in {"marked", "accepted", "refused"} =>
              MarkSent \/ (call'.cmd = call.cmd /\ call.at \in {"marked", "accepted", "refused"})
         /\ call'.at = "accepted" => UNCHANGED call \/ Place
         /\ call.at = "accepted" => UNCHANGED call \/ RecordAccepted \/ Crash
         /\ call'.at \in Stages \ {"cleared"} =>
              Unblocked \/ (call'.cmd = call.cmd /\ call.at \in Stages \ {"cleared"})
  <1> DEFINE Goal ==
         /\ call'.at \in {"marked", "accepted", "refused"} =>
              MarkSent \/ (call'.cmd = call.cmd /\ call.at \in {"marked", "accepted", "refused"})
         /\ call'.at = "accepted" => UNCHANGED call \/ Place
         /\ call.at = "accepted" => UNCHANGED call \/ RecordAccepted \/ Crash
         /\ call'.at \in Stages \ {"cleared"} =>
              Unblocked \/ (call'.cmd = call.cmd /\ call.at \in Stages \ {"cleared"})
  <1> USE Kinds
  <1>1. ASSUME UNCHANGED call PROVE Goal
    BY <1>1
  <1>2. ASSUME NEW o \in Orders, Begin(o) PROVE Goal
    BY <1>2 DEF Begin, Stages
  <1>3. ASSUME NEW o \in Orders, \/ Submit(o) \/ Register(o) \/ LoginFails(o) \/ RiskCancel(o)
                                 \/ Cancel(o) \/ BlockedByRisk(o)
        PROVE  UNCHANGED call
    BY <1>3 DEF Submit, Register, LoginFails, RiskCancel, Cancel, BlockedByRisk
  <1>4. ASSUME Unblocked \/ MarkSent \/ Place \/ Unanswered PROVE Goal
    <2>1. call.at \in Stages /\ call.at # "accepted"
      BY <1>4 DEF Unblocked, MarkSent, Place, Unanswered, Stages
    <2>2. call \in [cmd : Orders, at : Stages, id : BrokerIds \union {0}, tries : Nat]
      BY <2>1, InFlight
    <2>3. call'.cmd = call.cmd
      BY <1>4, <2>2 DEF Unblocked, MarkSent, Place, Unanswered
    <2>4. /\ Unblocked => call'.at = "unblocked"
          /\ Unanswered => call'.at # "accepted" /\ call.at = "marked"
          /\ Place => call.at = "marked"
          /\ MarkSent => call.at = "unblocked" /\ call'.at = "marked"
      BY <2>2 DEF Unblocked, MarkSent, Place, Unanswered
    <2>. QED
      BY <1>4, <2>1, <2>3, <2>4 DEF Stages
  <1>5. ASSUME BlockedByGuard \/ SessionLost \/ RecordRefused PROVE Goal
    BY <1>5 DEF BlockedByGuard, SessionLost, RecordRefused
  <1>6. ASSUME RecordAccepted \/ Crash PROVE Goal
    BY <1>6 DEF RecordAccepted, Crash
  <1>7. ASSUME \/ Watcher \/ WatcherDies \/ Breach \/ CancelAll \/ ExpireAll \/ UNCHANGED vars
        PROVE  UNCHANGED call
    BY <1>7 DEF Watcher, PollBook, ListOpenExits, NextCycle, Reconcile, NotifyFill,
       WatcherDies, Breach, CancelAll, ExpireAll, CloseAll, vars
  <1>8. ASSUME NEW id \in BrokerIds, \/ Recover(id) \/ ReconcileFails(id)
                                     \/ BrokerCloses(id, "COMPLETE") \/ BrokerCloses(id, "REJECTED")
        PROVE  UNCHANGED call
    BY <1>8 DEF Recover, ReconcileFails, BrokerCloses
  <1>9. Goal
    BY <1>1, <1>2, <1>3, <1>4, <1>5, <1>6, <1>7, <1>8 DEF Next, Execute
  <1>. QED
    BY <1>9

(* Only step 3 of a call leaves a command unmarked, and it stays so. *)
LEMMA UnmarkedStep ==
  ASSUME TypeOK, [Next]_vars
  PROVE  UNCHANGED unmarked \/ (MarkSent /\ UNCHANGED status /\ unmarked' = unmarked \union {call.cmd})
  <1> USE DEF Mark, TryMark, Lose, database, failures
  <1>1. ASSUME NEW p \in Orders, \/ Submit(p) \/ Register(p) \/ LoginFails(p) \/ RiskCancel(p)
                                 \/ Cancel(p) \/ Begin(p) \/ BlockedByRisk(p) \/ NotifyFill(p)
        PROVE  UNCHANGED unmarked
    BY <1>1 DEF Submit, Register, LoginFails, RiskCancel, Cancel, Begin, BlockedByRisk, NotifyFill
  <1>2. ASSUME \/ Unblocked \/ BlockedByGuard \/ Place \/ Unanswered \/ SessionLost
               \/ RecordAccepted \/ RecordRefused \/ PollBook \/ ListOpenExits \/ NextCycle
               \/ WatcherDies \/ Breach \/ CancelAll \/ ExpireAll \/ Crash \/ UNCHANGED vars
        PROVE  UNCHANGED unmarked
    BY <1>2 DEF Unblocked, BlockedByGuard, Place, Unanswered, SessionLost, RecordAccepted,
       RecordRefused, PollBook, ListOpenExits, NextCycle, WatcherDies, Breach, CancelAll,
       ExpireAll, CloseAll, Crash, vars
  <1>3. ASSUME NEW id \in BrokerIds, \/ Reconcile(id) \/ ReconcileFails(id) \/ Recover(id)
                                     \/ BrokerCloses(id, "COMPLETE") \/ BrokerCloses(id, "REJECTED")
        PROVE  UNCHANGED unmarked
    BY <1>3 DEF Reconcile, ReconcileFails, Recover, BrokerCloses
  <1>4. ASSUME MarkSent
        PROVE  UNCHANGED unmarked \/ (UNCHANGED status /\ unmarked' = unmarked \union {call.cmd})
    BY <1>4 DEF MarkSent
  <1>. QED
    BY <1>1, <1>2, <1>3, <1>4 DEF Next, Execute, Watcher

(* The whole strengthening is inductive. *)
LEMMA SendNext == SendInv /\ [Next]_vars => SendInv'
  <1> SUFFICES ASSUME SendInv, [Next]_vars PROVE SendInv'
    OBVIOUS
  <1>1. TypeOK /\ CallOwned /\ SentFirst /\ WaitingExists /\ SpentMarked /\ SpentDone
    BY DEF SendInv
  <1>2. TypeOK' /\ CallOwned'
    BY TypeNext, OwnedNext, <1>1
  <1>3. Waiting \subseteq Orders
    BY <1>1, Sides DEF TypeOK, Waiting
  <1>0. unmarked \subseteq unmarked'
    BY <1>1, UnmarkedStep
  <1>4. SentFirst'
    <2>1. SUFFICES ASSUME call'.at \in {"marked", "accepted", "refused"}
                   PROVE  status'[call'.cmd] \notin Fresh \/ call'.cmd \in unmarked'
      BY DEF SentFirst, Fresh
    <2>2. CASE MarkSent
      <3>1. call.at \in Stages
        BY <2>2 DEF MarkSent, Stages
      <3>2. call.cmd \in Orders /\ call'.cmd = call.cmd
        BY <1>1, <2>2, <3>1, InFlight DEF MarkSent
      <3>. QED
        BY <1>1, <2>2, <3>2 DEF MarkSent, Mark, Lose, TypeOK, Fresh
    <2>3. CASE call'.cmd = call.cmd /\ call.at \in {"marked", "accepted", "refused"}
      <3>1. call.cmd \in Orders
        BY <1>1, <2>3, InFlight DEF Stages
      <3>2. status[call.cmd] \notin Fresh \/ call.cmd \in unmarked
        BY <1>1, <2>3 DEF SentFirst
      <3>. QED
        BY <1>0, <1>1, <2>3, <3>1, <3>2, StatusStep
    <2>. QED
      BY <1>1, <2>1, <2>2, <2>3, StageStep
  <1>5. WaitingExists'
    <2>1. SUFFICES ASSUME NEW o \in Waiting' PROVE status'[o] # "NONE"
      BY DEF WaitingExists
    <2>2. CASE o \in Waiting
      BY <1>1, <1>3, <2>2, StatusStep DEF WaitingExists
    <2>3. CASE o \notin Waiting
      BY <1>1, <2>3, WaitingStep
    <2>. QED
      BY <2>2, <2>3
  <1>6. SpentMarked'
    <2>1. SUFFICES ASSUME NEW o \in Orders, Spent(o)'
                   PROVE  status'[o] \notin Fresh \/ o \in unmarked'
      BY DEF SpentMarked, Fresh
    <2>2. CASE Spent(o)
      BY <1>0, <1>1, <2>2, StatusStep DEF SpentMarked
    <2>3. CASE ~Spent(o)
      <3>1. Place /\ o = call.cmd
        BY <1>1, <2>1, <2>3, SpentStep
      <3>2. status[o] \notin Fresh \/ o \in unmarked
        BY <1>1, <3>1 DEF Place, SentFirst
      <3>. QED
        BY <1>0, <1>1, <3>2, StatusStep
    <2>. QED
      BY <2>2, <2>3
  <1>7. SpentDone'
    <2>1. SUFFICES ASSUME NEW o \in Waiting', o \notin unmarked', Spent(o)'
                   PROVE  call'.cmd = o /\ call'.at = "accepted"
      BY DEF SpentDone
    <2>2. CASE ~Spent(o)
      <3>1. Place /\ o = call.cmd
        BY <1>1, <2>1, <2>2, SpentStep
      <3>2. call \in [cmd : Orders, at : Stages, id : BrokerIds \union {0}, tries : Nat]
        BY <1>1, <3>1, InFlight DEF Place, Stages
      <3>. QED
        BY <3>1, <3>2 DEF Place
    <2>3. CASE Spent(o)
      <3>1. o \in Waiting
        BY <1>0, <1>1, <2>1, <2>3, WaitingStep DEF SpentMarked
      <3>2. call.cmd = o /\ call.at = "accepted"
        BY <1>0, <1>1, <2>1, <2>3, <3>1 DEF SpentDone
      <3>3. ~RecordAccepted /\ ~Crash
        BY <2>1, <3>2 DEF RecordAccepted, Crash, Released, Waiting
      <3>. QED
        BY <1>1, <3>2, <3>3, StageStep
    <2>. QED
      BY <2>2, <2>3
  <1>8. AcknowledgedOnce'
    <2>1. SUFFICES ASSUME NEW i \in BrokerIds, NEW j \in BrokerIds,
                          book'[i].acked, book'[j].acked, book'[i].cmd = book'[j].cmd,
                          book'[i].cmd \notin unmarked'
                   PROVE  i = j
      BY DEF AcknowledgedOnce
    <2>2. CASE Place
      <3>1. call.at \in Stages /\ call.at = "marked" /\ call # Idle
        BY <2>2, Kinds DEF Place, Stages
      <3>2. PICK id \in BrokerIds : Booked(id, TRUE)
        BY <2>2 DEF Place
      <3>3. /\ book'[id] = [cmd |-> call.cmd, state |-> "OPEN", acked |-> TRUE]
            /\ \A other \in BrokerIds \ {id} : book'[other] = book[other]
        BY <1>1, <3>1, <3>2, BookedEffect, TRUE \in BOOLEAN
      <3>4. book'[id].cmd = call.cmd /\ \A other \in BrokerIds \ {id} : book'[other] = book[other]
        BY <3>3
      <3>5. ~Spent(call.cmd) \/ call.cmd \in unmarked
        BY <1>1, <3>1, CallerWaits DEF SpentDone
      <3>. QED
        BY <1>0, <2>1, <3>4, <3>5 DEF Spent, SendInv, AcknowledgedOnce
    <2>3. CASE UNCHANGED book
      BY <1>0, <2>1, <2>3 DEF SendInv, AcknowledgedOnce
    <2>4. CASE Unanswered \/ SessionLost
      <3>1. call.at \in Stages
        BY <2>4 DEF Unanswered, SessionLost, Stages
      <3>2. CASE \E id \in BrokerIds : Booked(id, FALSE)
        <4>1. PICK id \in BrokerIds : Booked(id, FALSE)
          BY <3>2
        <4>2. /\ book'[id] = [cmd |-> call.cmd, state |-> "OPEN", acked |-> FALSE]
              /\ \A other \in BrokerIds \ {id} : book'[other] = book[other]
          BY <1>1, <3>1, <4>1, BookedEffect, FALSE \in BOOLEAN
        <4>3. ~book'[id].acked
          BY <4>2
        <4>. QED
          BY <1>0, <2>1, <4>2, <4>3 DEF SendInv, AcknowledgedOnce
      <3>. QED
        BY <2>3, <2>4, <3>2 DEF Unanswered, SessionLost
    <2>5. CASE \E id \in BrokerIds : \E s \in {"COMPLETE", "REJECTED"} : BrokerCloses(id, s)
      <3>1. \A id \in BrokerIds : book'[id].acked = book[id].acked /\ book'[id].cmd = book[id].cmd
        BY <1>1, <2>5, ClosesEffect
      <3>. QED
        BY <1>0, <2>1, <3>1 DEF SendInv, AcknowledgedOnce
    <2>. QED
      BY <2>2, <2>3, <2>4, <2>5, BookStep
  <1>. QED
    BY <1>1, <1>2, <1>4, <1>5, <1>6, <1>7, <1>8 DEF SendInv

(* At most one acknowledged broker order per command: the record is marked *)
(* before the order leaves, and nobody sends a command on a marked record. *)
(* Only commands whose mark was not written are excepted.                  *)
THEOREM SentOnce == Spec => []AcknowledgedOnce
  <1>1. Spec => []SendInv
    BY SendInit, SendNext, PTL DEF Spec
  <1>2. SendInv => AcknowledgedOnce
    BY DEF SendInv
  <1>. QED
    BY <1>1, <1>2, PTL

-----------------------------------------------------------------------------
(* The number and the command of an acknowledged order never change, and a *)
(* verdict of the broker is final.                                         *)
LEMMA BookedForStep ==
  ASSUME TypeOK, [Next]_vars, NEW id, NEW o, BookedFor(id, o)
  PROVE  BookedFor(id, o)' /\ (book[id].state # "OPEN" => book'[id].state = book[id].state)
  <1> USE DEF BookedFor
  <1>1. CASE UNCHANGED book
    BY <1>1
  <1>2. ASSUME call.at \in Stages, NEW other \in BrokerIds, NEW acked \in BOOLEAN, Booked(other, acked)
        PROVE  book'[id] = book[id]
    <2>1. book[other] = NoEntry /\ \A rest \in BrokerIds \ {other} : book'[rest] = book[rest]
      BY <1>2, BookedEffect
    <2>. QED
      BY <2>1, Kinds
  <1>3. CASE Place \/ Unanswered \/ SessionLost
    <2>1. call.at \in Stages
      BY <1>3 DEF Place, Unanswered, SessionLost, Stages
    <2>2. CASE UNCHANGED book
      BY <2>2
    <2>3. CASE \E other \in BrokerIds : \E acked \in BOOLEAN : Booked(other, acked)
      BY <1>2, <2>1, <2>3
    <2>. QED
      BY <1>3, <2>2, <2>3 DEF Place, Unanswered, SessionLost
  <1>4. ASSUME NEW other \in BrokerIds, NEW s \in {"COMPLETE", "REJECTED"}, BrokerCloses(other, s)
        PROVE  BookedFor(id, o)' /\ (book[id].state # "OPEN" => book'[id].state = book[id].state)
    <2>1. CASE other = id
      BY <1>4, <2>1, ClosesEffect
    <2>2. CASE other # id
      BY <1>4, <2>2, ClosesEffect
    <2>. QED
      BY <2>1, <2>2
  <1>. QED
    BY <1>1, <1>3, <1>4, BookStep

(* Only step 5 of a call writes a number. *)
LEMMA NumberStep ==
  ASSUME [Next]_vars
  PROVE  UNCHANGED brokerId \/ RecordAccepted
  <1> USE DEF database
  <1>1. ASSUME NEW p \in Orders, \/ Submit(p) \/ Register(p) \/ LoginFails(p)
                                 \/ RiskCancel(p) \/ Cancel(p) \/ Begin(p) \/ BlockedByRisk(p)
        PROVE  UNCHANGED brokerId
    BY <1>1 DEF Submit, Register, LoginFails, RiskCancel, Cancel, Begin, BlockedByRisk
  <1>2. ASSUME \/ Unblocked \/ BlockedByGuard \/ MarkSent \/ Place \/ Unanswered \/ SessionLost
               \/ RecordRefused \/ Watcher \/ WatcherDies \/ Breach \/ CancelAll \/ ExpireAll
               \/ Crash \/ UNCHANGED vars
        PROVE  UNCHANGED brokerId
    BY <1>2 DEF Unblocked, BlockedByGuard, MarkSent, Place, Unanswered, SessionLost,
       RecordRefused, Watcher, PollBook, ListOpenExits, NextCycle, Reconcile, NotifyFill,
       WatcherDies, Breach, CancelAll, ExpireAll, CloseAll, Crash, vars
  <1>3. ASSUME NEW id \in BrokerIds, \/ Recover(id) \/ ReconcileFails(id)
                                     \/ BrokerCloses(id, "COMPLETE") \/ BrokerCloses(id, "REJECTED")
        PROVE  UNCHANGED brokerId
    BY <1>3 DEF Recover, ReconcileFails, BrokerCloses
  <1>. QED
    BY <1>1, <1>2, <1>3 DEF Next, Execute

(* Only the watcher's callback notifies a fill. *)
LEMMA FillStep ==
  ASSUME [Next]_vars
  PROVE  UNCHANGED fills \/ \E o \in Orders : NotifyFill(o)
  <1>1. ASSUME NEW p \in Orders, \/ Submit(p) \/ Register(p) \/ LoginFails(p)
                                 \/ RiskCancel(p) \/ Cancel(p) \/ Begin(p) \/ BlockedByRisk(p)
        PROVE  UNCHANGED fills
    BY <1>1 DEF Submit, Register, LoginFails, RiskCancel, Cancel, Begin, BlockedByRisk
  <1>2. ASSUME \/ Unblocked \/ BlockedByGuard \/ MarkSent \/ Place \/ Unanswered \/ SessionLost
               \/ RecordAccepted \/ RecordRefused \/ PollBook \/ ListOpenExits \/ NextCycle
               \/ WatcherDies \/ Breach \/ CancelAll \/ ExpireAll \/ Crash \/ UNCHANGED vars
        PROVE  UNCHANGED fills
    BY <1>2 DEF Unblocked, BlockedByGuard, MarkSent, Place, Unanswered, SessionLost,
       RecordAccepted, RecordRefused, PollBook, ListOpenExits, NextCycle, WatcherDies,
       Breach, CancelAll, ExpireAll, CloseAll, Crash, vars
  <1>3. ASSUME NEW id \in BrokerIds, \/ Reconcile(id) \/ ReconcileFails(id) \/ Recover(id)
                                     \/ BrokerCloses(id, "COMPLETE") \/ BrokerCloses(id, "REJECTED")
        PROVE  UNCHANGED fills
    BY <1>3 DEF Reconcile, ReconcileFails, Recover, BrokerCloses
  <1>. QED
    BY <1>1, <1>2, <1>3 DEF Next, Execute, Watcher

(* A fill is told after its record says so. *)
LEMMA TellingStep ==
  ASSUME [Next]_vars
  PROVE  \/ telling' \subseteq telling
         \/ \E id \in BrokerIds : \E o \in Owner(id) :
              /\ ~Reconciled(o) /\ Mark(o, Verdict(id)) /\ Verdict(id) = "EXECUTED"
              /\ telling' = {o} /\ UNCHANGED <<brokerId, book, fills>>
  <1> USE DEF watcherVars
  <1>1. ASSUME NEW p \in Orders, \/ Submit(p) \/ Register(p) \/ LoginFails(p) \/ RiskCancel(p)
                                 \/ Cancel(p) \/ Begin(p) \/ BlockedByRisk(p) \/ NotifyFill(p)
        PROVE  telling' \subseteq telling
    BY <1>1 DEF Submit, Register, LoginFails, RiskCancel, Cancel, Begin, BlockedByRisk, NotifyFill
  <1>2. ASSUME \/ Unblocked \/ BlockedByGuard \/ MarkSent \/ Place \/ Unanswered \/ SessionLost
               \/ RecordAccepted \/ RecordRefused \/ PollBook \/ ListOpenExits \/ NextCycle
               \/ WatcherDies \/ Breach \/ CancelAll \/ ExpireAll \/ Crash \/ UNCHANGED vars
        PROVE  telling' \subseteq telling
    BY <1>2 DEF Unblocked, BlockedByGuard, MarkSent, Place, Unanswered, SessionLost,
       RecordAccepted, RecordRefused, PollBook, ListOpenExits, NextCycle, WatcherDies,
       Breach, CancelAll, ExpireAll, CloseAll, Crash, vars
  <1>3. ASSUME NEW id \in BrokerIds, \/ ReconcileFails(id) \/ Recover(id)
                                     \/ BrokerCloses(id, "COMPLETE") \/ BrokerCloses(id, "REJECTED")
        PROVE  telling' \subseteq telling
    BY <1>3 DEF ReconcileFails, Recover, BrokerCloses
  <1>4. ASSUME NEW id \in BrokerIds, Reconcile(id)
        PROVE  \/ telling' \subseteq telling
               \/ \E o \in Owner(id) :
                    /\ ~Reconciled(o) /\ Mark(o, Verdict(id)) /\ Verdict(id) = "EXECUTED"
                    /\ telling' = {o} /\ UNCHANGED <<brokerId, book, fills>>
    BY <1>4 DEF Reconcile
  <1>. QED
    BY <1>1, <1>2, <1>3, <1>4 DEF Next, Execute, Watcher

(* What a step may make of one record: EXECUTED only on a complete order   *)
(* under its number, SENT only by its own call, and a reconciled record is *)
(* only undone by its own call.                                            *)
LEMMA RecordStep ==
  ASSUME TypeOK, [Next]_vars, NEW o \in Orders
  PROVE  /\ status'[o] = "EXECUTED" =>
              status[o] = "EXECUTED"
              \/ (/\ brokerId[o] \in BrokerIds
                  /\ Verdict(brokerId[o]) = "EXECUTED"
                  /\ UNCHANGED <<brokerId, book>>)
         /\ status'[o] = "SENT_TO_BROKER" =>
              status[o] = "SENT_TO_BROKER" \/ ((MarkSent \/ RecordAccepted) /\ o = call.cmd)
         /\ Reconciled(o) => Reconciled(o)' \/ ((MarkSent \/ RecordAccepted) /\ o = call.cmd)
  <1> DEFINE Goal ==
         /\ status'[o] = "EXECUTED" =>
              status[o] = "EXECUTED"
              \/ (/\ brokerId[o] \in BrokerIds
                  /\ Verdict(brokerId[o]) = "EXECUTED"
                  /\ UNCHANGED <<brokerId, book>>)
         /\ status'[o] = "SENT_TO_BROKER" =>
              status[o] = "SENT_TO_BROKER" \/ ((MarkSent \/ RecordAccepted) /\ o = call.cmd)
         /\ Reconciled(o) => Reconciled(o)' \/ ((MarkSent \/ RecordAccepted) /\ o = call.cmd)
  <1> USE Sides DEF Mark, TryMark, Lose, database, Reconciled
  <1>1. status \in [Orders -> Statuses]
    BY DEF TypeOK
  <1>2. ASSUME UNCHANGED status PROVE Goal
    BY <1>2
  <1>3. ASSUME NEW p \in Orders, Submit(p) \/ Register(p) PROVE Goal
    BY <1>1, <1>3 DEF Submit, Register
  <1>4. ASSUME NEW p \in Orders, BlockedByRisk(p) \/ RiskCancel(p) \/ Cancel(p) PROVE Goal
    BY <1>1, <1>4 DEF BlockedByRisk, RiskCancel, Cancel, GetOpenOrders, Open
  <1>5. ASSUME BlockedByGuard \/ RecordRefused PROVE Goal
    BY <1>1, <1>5 DEF BlockedByGuard, RecordRefused
  <1>6. ASSUME MarkSent \/ RecordAccepted PROVE Goal
    <2>1. \A q \in Orders \ {call.cmd} : status'[q] = status[q]
      BY <1>1, <1>6 DEF MarkSent, RecordAccepted
    <2>2. o = call.cmd => status'[o] = "SENT_TO_BROKER" \/ status'[o] = status[o]
      BY <1>1, <1>6 DEF MarkSent, RecordAccepted
    <2>. QED
      BY <1>6, <2>1, <2>2
  <1>7. ASSUME NEW id \in BrokerIds, Reconcile(id) \/ Recover(id) PROVE Goal
    <2>1. UNCHANGED <<brokerId, book>> /\ Verdict(id) \in {"EXECUTED", "FAILED"}
      BY <1>7 DEF Reconcile, Recover, Verdict
    <2>2. status'[o] = status[o] \/ (brokerId[o] = id /\ status'[o] = Verdict(id))
      BY <1>1, <1>7 DEF Reconcile, Recover, Owner
    <2>. QED
      BY <2>1, <2>2
  <1>8. ASSUME CancelAll \/ ExpireAll PROVE Goal
    BY <1>1, <1>8 DEF CancelAll, ExpireAll, CloseAll, Open
  <1>9. ASSUME \/ \E p \in Orders : Begin(p) \/ LoginFails(p)
               \/ Unblocked \/ Place \/ Unanswered \/ SessionLost
               \/ PollBook \/ ListOpenExits \/ NextCycle \/ WatcherDies \/ Breach \/ Crash
               \/ \E id \in BrokerIds : \/ BrokerCloses(id, "COMPLETE")
                                        \/ BrokerCloses(id, "REJECTED") \/ ReconcileFails(id)
               \/ \E p \in Orders : NotifyFill(p)
               \/ UNCHANGED vars
        PROVE  UNCHANGED status
    BY <1>9 DEF Begin, LoginFails, Unblocked, Place, Unanswered, SessionLost, PollBook,
       ListOpenExits, NextCycle, WatcherDies, Breach, Crash, BrokerCloses, ReconcileFails,
       NotifyFill, vars
  <1>10. Goal
    BY <1>2, <1>3, <1>4, <1>5, <1>6, <1>7, <1>8, <1>9 DEF Next, Execute, Watcher
  <1>. QED
    BY <1>10

(* Nothing is recorded or notified at the start. *)
LEMMA FillInit == Init => FillInv
  <1> SUFFICES ASSUME Init PROVE FillInv
    OBVIOUS
  <1>1. SendInv
    BY SendInit
  <1>2. \A o \in Orders : ~Known(o) /\ status[o] = "NONE" /\ fills[o] = 0
    BY DEF Init, Known
  <1>3. NumberIsOurs /\ KnownDone /\ NotifiedIsReconciled /\ ExecutedIsFilled /\ TellingIsFilled
    BY <1>2 DEF Init, NumberIsOurs, KnownDone, NotifiedIsReconciled, ExecutedIsFilled,
       TellingIsFilled
  <1>4. AnswerIsOurs
    BY Kinds DEF Init, AnswerIsOurs
  <1>. QED
    BY <1>1, <1>3, <1>4 DEF FillInv

(* A known number means the command is spent: no call will send it again.  *)
LEMMA KnownIsDone ==
  ASSUME FillInv, Known(call.cmd), call # Idle
  PROVE  FALSE
  <1>1. call.cmd \in Waiting /\ call.cmd \in Orders
    BY CallerWaits DEF FillInv, SendInv
  <1>. QED
    BY <1>1 DEF FillInv, KnownDone

(* The strengthening for the fills is inductive. *)
LEMMA FillNext == FillInv /\ [Next]_vars => FillInv'
  <1> SUFFICES ASSUME FillInv, [Next]_vars PROVE FillInv'
    OBVIOUS
  <1>1. SendInv /\ TypeOK
    BY DEF FillInv, SendInv
  <1>2. SendInv'
    BY <1>1, SendNext
  <1>3. ASSUME RecordAccepted
        PROVE  /\ call.cmd \in Orders /\ BookedFor(call.id, call.cmd) /\ call.id # 0
               /\ \/ UNCHANGED brokerId
                  \/ /\ brokerId' = [brokerId EXCEPT ![call.cmd] = call.id]
                     /\ brokerId'[call.cmd] = call.id
                     /\ status'[call.cmd] = "SENT_TO_BROKER"
               /\ ~Known(call.cmd) /\ call' = Idle /\ book' = book
               /\ call.cmd \notin Waiting'
    <2>1. call.at = "accepted" /\ call # Idle /\ call.cmd \in Orders
      BY <1>1, <1>3, InFlight DEF RecordAccepted, Stages
    <2>2. BookedFor(call.id, call.cmd) /\ ~Known(call.cmd)
      BY <2>1, KnownIsDone DEF FillInv, AnswerIsOurs
    <2>3. call.id # 0
      BY <2>2, OrderAssumption DEF BookedFor, BrokerIds
    <2>4. /\ \/ UNCHANGED brokerId
             \/ /\ brokerId' = [brokerId EXCEPT ![call.cmd] = call.id]
                /\ status' = [status EXCEPT ![call.cmd] = "SENT_TO_BROKER"]
          /\ call' = Idle /\ book' = book
      BY <1>3 DEF RecordAccepted, Mark
    <2>5. call.cmd \notin Waiting'
      BY <1>3 DEF RecordAccepted, Released, Waiting
    <2>. QED
      BY <1>1, <2>1, <2>2, <2>3, <2>4, <2>5 DEF TypeOK
  <1>4. ASSUME NEW o \in Orders, Known(o)
        PROVE  /\ Known(o)' /\ brokerId'[o] = brokerId[o]
               /\ BookedFor(brokerId[o], o) /\ BookedFor(brokerId[o], o)'
    <2>1. BookedFor(brokerId[o], o)
      BY <1>4 DEF FillInv, NumberIsOurs
    <2>2. brokerId'[o] = brokerId[o]
      BY <1>1, <1>3, <1>4, NumberStep DEF TypeOK
    <2>3. BookedFor(brokerId[o], o)'
      BY <1>1, <2>1, <2>2, BookedForStep DEF BookedFor
    <2>. QED
      BY <1>4, <2>1, <2>2, <2>3 DEF Known
  <1>5. NumberIsOurs'
    <2>1. SUFFICES ASSUME NEW o \in Orders, Known(o)' PROVE BookedFor(brokerId[o], o)'
      BY DEF NumberIsOurs
    <2>2. CASE Known(o)
      BY <1>4, <2>2
    <2>3. CASE ~Known(o)
      <3>1. RecordAccepted /\ o = call.cmd /\ ~(UNCHANGED brokerId)
        BY <1>1, <1>3, <2>1, <2>3, NumberStep DEF Known, TypeOK
      <3>. QED
        BY <1>3, <3>1 DEF BookedFor
    <2>. QED
      BY <2>2, <2>3
  <1>6. AnswerIsOurs'
    <2>1. SUFFICES ASSUME call'.at = "accepted"
                   PROVE  BookedFor(call.id, call.cmd)'
      BY DEF AnswerIsOurs
    <2>2. CASE UNCHANGED call
      <3>1. BookedFor(call.id, call.cmd)
        BY <2>1, <2>2 DEF FillInv, AnswerIsOurs
      <3>. QED
        BY <1>1, <2>2, <3>1, BookedForStep DEF BookedFor
    <2>3. CASE Place
      <3>1. call.at \in Stages /\ call # Idle
        BY <2>3, Kinds DEF Place, Stages
      <3>2. call \in [cmd : Orders, at : Stages, id : BrokerIds \union {0}, tries : Nat]
        BY <1>1, <3>1, InFlight
      <3>3. PICK id \in BrokerIds : Booked(id, TRUE) /\ call' = [call EXCEPT !.at = "accepted", !.id = id]
        BY <2>3 DEF Place
      <3>4. book'[id] = [cmd |-> call.cmd, state |-> "OPEN", acked |-> TRUE]
        BY <1>1, <3>1, <3>3, BookedEffect, TRUE \in BOOLEAN
      <3>5. call'.id = id /\ call'.cmd = call.cmd
        BY <3>2, <3>3
      <3>6. book'[id] \in BookEntry
        BY <3>2, <3>4 DEF BookEntry
      <3>. QED
        BY <3>4, <3>5, <3>6 DEF BookedFor
    <2>. QED
      BY <1>1, <2>1, <2>2, <2>3, StageStep
  <1>7. ExecutedIsFilled'
    <2>1. SUFFICES ASSUME NEW o \in Orders, status'[o] = "EXECUTED"
                   PROVE  Filled(o)' /\ book'[brokerId'[o]].cmd = o
      BY DEF ExecutedIsFilled
    <2>2. CASE status[o] = "EXECUTED"
      <3>1. Known(o) /\ book[brokerId[o]].state = "COMPLETE"
        BY <2>2 DEF FillInv, ExecutedIsFilled, Filled
      <3>2. book'[brokerId[o]].state = "COMPLETE"
        BY <1>1, <1>4, <3>1, BookedForStep
      <3>. QED
        BY <1>4, <3>1, <3>2 DEF Filled, BookedFor
    <2>3. CASE /\ brokerId[o] \in BrokerIds
               /\ Verdict(brokerId[o]) = "EXECUTED"
               /\ UNCHANGED <<brokerId, book>>
      <3>1. Known(o) /\ book[brokerId[o]].state = "COMPLETE"
        BY <2>3, OrderAssumption DEF Known, Verdict, BrokerIds
      <3>. QED
        BY <1>4, <2>3, <3>1 DEF Filled, BookedFor
    <2>. QED
      BY <1>1, <2>1, <2>2, <2>3, RecordStep
  <1>8. NotifiedIsReconciled'
    <2>1. SUFFICES ASSUME NEW o \in Orders, fills'[o] # 0
                   PROVE  fills'[o] = 1 /\ Known(o)' /\ Reconciled(o)'
      BY DEF NotifiedIsReconciled
    <2>2. CASE fills'[o] = fills[o]
      <3>1. fills[o] = 1 /\ Known(o) /\ Reconciled(o)
        BY <2>1, <2>2 DEF FillInv, NotifiedIsReconciled
      <3>2. ASSUME MarkSent \/ RecordAccepted PROVE o # call.cmd
        <4>1. call # Idle
          BY <3>2, Kinds DEF MarkSent, RecordAccepted
        <4>. QED
          BY <3>1, <4>1, KnownIsDone
      <3>. QED
        BY <1>1, <1>4, <2>2, <3>1, <3>2, RecordStep
    <2>3. ASSUME NEW p \in Orders, NotifyFill(p), fills'[o] # fills[o]
          PROVE  fills'[o] = 1 /\ Known(o)' /\ Reconciled(o)'
      <3>1. p = o /\ o \in telling /\ UNCHANGED status
        BY <1>1, <2>3 DEF TypeOK, NotifyFill, database
      <3>2. fills[o] = 0 /\ Reconciled(o) /\ Known(o)
        BY <3>1 DEF FillInv, TellingIsFilled, Filled
      <3>3. fills'[o] = 1
        BY <1>1, <2>3, <3>1, <3>2 DEF TypeOK, NotifyFill
      <3>. QED
        BY <1>4, <3>1, <3>2, <3>3 DEF Reconciled
    <2>. QED
      BY <2>2, <2>3, FillStep
  <1>9. KnownDone'
    <2>1. SUFFICES ASSUME NEW o \in Orders, Known(o)'
                   PROVE  status'[o] \notin Fresh /\ o \notin Waiting'
      BY DEF KnownDone, Fresh
    <2>2. CASE Known(o)
      <3>1. status[o] \notin Fresh /\ o \notin Waiting
        BY <2>2 DEF FillInv, KnownDone
      <3>. QED
        BY <1>1, <3>1, StatusStep, WaitingStep
    <2>3. CASE ~Known(o)
      <3>1. RecordAccepted /\ o = call.cmd /\ ~(UNCHANGED brokerId)
        BY <1>1, <1>3, <2>1, <2>3, NumberStep DEF Known, TypeOK
      <3>. QED
        BY <1>3, <3>1 DEF Fresh
    <2>. QED
      BY <2>2, <2>3
  <1>10. TellingIsFilled'
    <2>1. SUFFICES ASSUME NEW o \in telling'
                   PROVE  fills'[o] = 0 /\ Reconciled(o)' /\ Filled(o)'
      BY DEF TellingIsFilled
    <2>2. CASE o \in telling
      <3>1. o \in Orders /\ fills[o] = 0 /\ Reconciled(o) /\ Known(o)
            /\ book[brokerId[o]].state = "COMPLETE"
        BY <1>1, <2>2 DEF FillInv, TellingIsFilled, Filled, TypeOK
      <3>2. Filled(o)'
        BY <1>1, <1>4, <3>1, BookedForStep DEF Filled
      <3>3. ASSUME MarkSent \/ RecordAccepted PROVE o # call.cmd
        <4>1. call # Idle
          BY <3>3, Kinds DEF MarkSent, RecordAccepted
        <4>. QED
          BY <3>1, <4>1, KnownIsDone
      <3>4. Reconciled(o)'
        BY <1>1, <3>1, <3>3, RecordStep
      <3>5. ASSUME NEW p \in Orders, NotifyFill(p) PROVE FALSE
        BY <2>1, <3>5 DEF NotifyFill
      <3>. QED
        BY <3>1, <3>2, <3>4, <3>5, FillStep
    <2>3. CASE o \notin telling
      <3>1. PICK id \in BrokerIds : \E p \in Owner(id) :
              /\ ~Reconciled(p) /\ Mark(p, Verdict(id)) /\ Verdict(id) = "EXECUTED"
              /\ telling' = {p} /\ UNCHANGED <<brokerId, book, fills>>
        BY <2>1, <2>3, TellingStep
      <3>2. o \in Owner(id) /\ ~Reconciled(o) /\ Mark(o, "EXECUTED") /\ Verdict(id) = "EXECUTED"
            /\ UNCHANGED <<brokerId, book, fills>>
        BY <2>1, <3>1
      <3>3. o \in Orders /\ brokerId[o] = id /\ Known(o) /\ Filled(o)
        BY <3>2, OrderAssumption DEF Owner, Known, Filled, Verdict, BrokerIds
      <3>4. fills[o] = 0
        BY <3>2, <3>3 DEF FillInv, NotifiedIsReconciled
      <3>5. status'[o] = "EXECUTED"
        BY <1>1, <3>2, <3>3 DEF TypeOK, Mark
      <3>. QED
        BY <3>2, <3>3, <3>4, <3>5 DEF Filled, Known, Reconciled
    <2>. QED
      BY <2>2, <2>3
  <1>. QED
    BY <1>2, <1>5, <1>6, <1>7, <1>8, <1>9, <1>10 DEF FillInv

(* EXECUTED comes from the broker alone. *)
THEOREM ExecutedByBroker == Spec => []ExecutedIsFilled
  <1>1. FillInv => ExecutedIsFilled
    BY DEF FillInv
  <1>. QED
    BY <1>1, FillInit, FillNext, PTL DEF Spec

(* A fill is notified at most once: a notified record is reconciled, and   *)
(* no call of its command can still be on the way to undo that.            *)
THEOREM NotifiedOnce == Spec => []FillNotifiedOnce
  <1>1. FillInv => FillNotifiedOnce
    <2>1. ASSUME FillInv, NEW o \in Orders PROVE fills[o] <= 1
      <3>1. fills[o] = 0 \/ fills[o] = 1
        BY <2>1 DEF FillInv, NotifiedIsReconciled
      <3>. QED
        BY <3>1
    <2>. QED
      BY <2>1 DEF FillNotifiedOnce
  <1>. QED
    BY <1>1, FillInit, FillNext, PTL DEF Spec

-----------------------------------------------------------------------------
(* Nothing claims a slot at the start. *)
LEMMA ClaimInit == Init => ClaimInv
  <1> SUFFICES ASSUME Init PROVE ClaimInv
    OBVIOUS
  <1>1. \A o \in Entries : ~Claims(o)
    BY Kinds, Sides DEF Init, Claims
  <1>. QED
    BY <1>1, TypeInit DEF ClaimInv, OneClaimPerSlot

(* A claim is only won at check 2C, which finds no other one: every claim  *)
(* but that of the call itself is a record marked as sent, and check 2C    *)
(* sees those.                                                             *)
LEMMA ClaimNext == ClaimInv /\ [Next]_vars => ClaimInv'
  <1> SUFFICES ASSUME ClaimInv, [Next]_vars PROVE ClaimInv'
    OBVIOUS
  <1>1. TypeOK /\ TypeOK'
    BY TypeNext DEF ClaimInv
  <1>2. ASSUME NEW o \in Entries, Claims(o)'
        PROVE  Claims(o) \/ (Unblocked /\ o = call.cmd)
    <2>1. CASE status'[o] = "SENT_TO_BROKER"
      <3>1. status[o] = "SENT_TO_BROKER" \/ ((MarkSent \/ RecordAccepted) /\ o = call.cmd)
        BY <1>1, <2>1, Sides, RecordStep
      <3>. QED
        BY <3>1 DEF Claims, MarkSent, RecordAccepted, Stages
    <2>2. CASE call'.cmd = o /\ call'.at \in Stages \ {"cleared"}
      <3>1. CASE Unblocked
        <4>1. call'.cmd = call.cmd
          BY <1>1, <3>1, InFlight DEF Unblocked, Stages
        <4>. QED
          BY <2>2, <3>1, <4>1
      <3>. QED
        BY <1>1, <2>2, <3>1, StageStep DEF Claims
    <2>. QED
      BY <1>2, <2>1, <2>2 DEF Claims, Stages
  <1>3. ASSUME Unblocked, NEW o \in Entries, call.cmd \in Entries, Claims(o), Slot[o] = Slot[call.cmd]
        PROVE  o = call.cmd
    <2>1. ~Duplicate(call.cmd)
      BY <1>3 DEF Unblocked
    <2>2. CASE status[o] = "SENT_TO_BROKER"
      BY <1>3, <2>1, <2>2, Sides DEF Duplicate, GetOpenOrders, Open
    <2>. QED
      BY <1>3, <2>2 DEF Claims
  <1>4. OneClaimPerSlot'
    BY <1>2, <1>3 DEF ClaimInv, OneClaimPerSlot
  <1>. QED
    BY <1>1, <1>4 DEF ClaimInv

(* Of the entries of one strategy on one symbol at most one is sent. *)
THEOREM OneEntrySent == Spec => []OneEntryPerSlot
  <1>1. ClaimInv => OneEntryPerSlot
    BY DEF ClaimInv, OneClaimPerSlot, OneEntryPerSlot, Claims
  <1>. QED
    BY <1>1, ClaimInit, ClaimNext, PTL DEF Spec

-----------------------------------------------------------------------------
(* The contract's view of a command depends on the book alone. *)
LEMMA SameView ==
  ASSUME NEW o,
         \A id \in BrokerIds : book[id].cmd = o /\ book[id].acked <=>
                               book'[id].cmd = o /\ book'[id].acked,
         \A id \in BrokerIds : book[id].cmd = o /\ book[id].acked =>
                               book'[id].state = book[id].state
  PROVE  Acknowledged(o)' = Acknowledged(o) /\ Outcome(o)' = Outcome(o)
  BY DEF Acknowledged, Outcome, EndedAs

(* An acknowledged number of a command is its only one. *)
LEMMA OnlyNumber ==
  ASSUME AcknowledgedOnce, NEW o, o \notin unmarked, NEW id \in Acknowledged(o)
  PROVE  Acknowledged(o) = {id} /\ \A s : EndedAs(o, s) <=> book[id].state = s
  BY DEF AcknowledgedOnce, Acknowledged, EndedAs

(* Nothing acknowledged, nothing settled, nothing told. *)
LEMMA ContractInit == Init => Contract!Init
  <1> SUFFICES ASSUME Init PROVE Contract!Init
    OBVIOUS
  <1>1. \A o : Acknowledged(o) = {}
    BY Kinds DEF Init, Acknowledged
  <1>2. \A o : Outcome(o) = "none"
    BY <1>1 DEF Outcome, EndedAs
  <1>3. fills = [o \in Orders |-> 0] /\ unmarked = {}
    BY DEF Init
  <1>. QED
    BY <1>1, <1>2, <1>3 DEF Contract!Init

(* Every step is a step of the contract or leaves its variables alone. *)
LEMMA ContractNext == FillInv /\ [Next]_vars => [Contract!Next]_(Contract!vars)
  <1> SUFFICES ASSUME FillInv, [Next]_vars PROVE [Contract!Next]_(Contract!vars)
    OBVIOUS
  <1> DEFINE accepted == [o \in Orders |-> IF o \in unmarked THEN {} ELSE Acknowledged(o)]
             outcome == [o \in Orders |-> IF o \in unmarked THEN "none" ELSE Outcome(o)]
             told == [o \in Orders |-> IF o \in unmarked THEN 0 ELSE fills[o]]
             Stutter == accepted' = accepted /\ outcome' = outcome /\ told' = told
  <1>1. TypeOK /\ AcknowledgedOnce /\ TypeOK' /\ AcknowledgedOnce' /\ SendInv
    BY SendNext DEF FillInv, SendInv
  <1>2. ASSUME Stutter PROVE UNCHANGED Contract!vars
    BY <1>2 DEF Contract!vars
  <1>3. ASSUME UNCHANGED <<book, unmarked>> PROVE accepted' = accepted /\ outcome' = outcome
    BY <1>3 DEF Acknowledged, Outcome, EndedAs
  <1>4. CASE Place
    <2>1. /\ call.at \in Stages /\ call.at = "marked" /\ call # Idle
          /\ UNCHANGED <<fills, unmarked>>
      BY <1>4, Kinds DEF Place, Stages, database, failures
    <2>2. PICK id \in BrokerIds : Booked(id, TRUE)
      BY <1>4 DEF Place
    <2>3. /\ book[id] = NoEntry
          /\ book'[id] = [cmd |-> call.cmd, state |-> "OPEN", acked |-> TRUE]
          /\ \A other \in BrokerIds \ {id} : book'[other] = book[other]
      BY <1>1, <2>1, <2>2, BookedEffect, TRUE \in BOOLEAN
    <2>4. PICK cmd \in Orders : cmd = call.cmd /\ cmd \in Waiting
      BY <1>1, <2>1, CallerWaits DEF SendInv
    <2>5. /\ ~book[id].acked /\ book'[id].acked /\ book'[id].cmd = cmd
          /\ book'[id].state = "OPEN"
      BY <2>3, <2>4, Kinds
    <2>6. \A o \in Orders \ {cmd} : Acknowledged(o)' = Acknowledged(o) /\ Outcome(o)' = Outcome(o)
      BY <2>3, <2>4, <2>5, SameView
    <2>7. CASE cmd \in unmarked
      <3>1. Stutter
        BY <2>1, <2>6, <2>7
      <3>. QED
        BY <1>2, <3>1
    <2>8. CASE cmd \notin unmarked
      <3>1. Acknowledged(cmd) = {}
        BY <1>1, <2>1, <2>4, <2>8 DEF SendInv, SpentDone, Spent, Acknowledged
      <3>2. \A other \in BrokerIds \ {id} : ~(book'[other].cmd = cmd /\ book'[other].acked)
        BY <2>3, <3>1 DEF Acknowledged
      <3>3. Acknowledged(cmd)' = {id}
        BY <2>5, <3>2 DEF Acknowledged
      <3>4. Outcome(cmd) = "none" /\ Outcome(cmd)' = "none"
        BY <2>5, <3>1, <3>3 DEF Outcome, EndedAs
      <3>5. accepted[cmd] = {} /\ accepted' = [accepted EXCEPT ![cmd] = {id}]
        BY <2>1, <2>6, <2>8, <3>1, <3>3
      <3>6. outcome' = outcome /\ told' = told
        BY <2>1, <2>6, <3>4
      <3>7. Contract!Accept(cmd, id)
        BY <3>5, <3>6 DEF Contract!Accept
      <3>. QED
        BY <3>7 DEF Contract!Next
    <2>. QED
      BY <2>7, <2>8
  <1>5. CASE Unanswered \/ SessionLost
    <2>1. call.at \in Stages /\ UNCHANGED <<fills, unmarked>>
      BY <1>5 DEF Unanswered, SessionLost, Stages, database, failures
    <2>2. ASSUME NEW id \in BrokerIds, Booked(id, FALSE)
          PROVE  Stutter
      <3>1. /\ book[id] = NoEntry
            /\ book'[id] = [cmd |-> call.cmd, state |-> "OPEN", acked |-> FALSE]
            /\ \A other \in BrokerIds \ {id} : book'[other] = book[other]
        BY <1>1, <2>1, <2>2, BookedEffect, FALSE \in BOOLEAN
      <3>2. ~book[id].acked /\ ~book'[id].acked
        BY <3>1, Kinds
      <3>3. \A o : Acknowledged(o)' = Acknowledged(o) /\ Outcome(o)' = Outcome(o)
        BY <3>1, <3>2, SameView
      <3>. QED
        BY <2>1, <3>3
    <2>3. Stutter
      BY <1>3, <1>5, <2>1, <2>2 DEF Unanswered, SessionLost
    <2>. QED
      BY <1>2, <2>3
  <1>6. ASSUME NEW id \in BrokerIds, NEW s \in {"COMPLETE", "REJECTED"}, BrokerCloses(id, s)
        PROVE  [Contract!Next]_(Contract!vars)
    <2>1. UNCHANGED <<fills, unmarked>>
      BY <1>6 DEF BrokerCloses, database, failures
    <2>2. /\ book[id] \in BookEntry /\ book[id].state = "OPEN" /\ book'[id].state = s
          /\ book'[id].cmd = book[id].cmd /\ book'[id].acked = book[id].acked
          /\ \A other \in BrokerIds \ {id} : book'[other] = book[other]
      BY <1>1, <1>6, ClosesEffect
    <2>3. \A o : Acknowledged(o)' = Acknowledged(o)
      BY <2>2 DEF Acknowledged
    <2>4. CASE ~book[id].acked \/ book[id].cmd \in unmarked
      <3>1. \A o \in Orders \ unmarked : Acknowledged(o)' = Acknowledged(o) /\ Outcome(o)' = Outcome(o)
        BY <2>2, <2>4, SameView
      <3>2. Stutter
        BY <2>1, <3>1
      <3>. QED
        BY <1>2, <3>2
    <2>5. CASE book[id].acked /\ book[id].cmd \notin unmarked
      <3> DEFINE end == IF s = "COMPLETE" THEN "filled" ELSE "closed"
      <3>1. PICK cmd \in Orders : cmd = book[id].cmd /\ id \in Acknowledged(cmd) /\ cmd \notin unmarked
        BY <2>2, <2>5, Kinds DEF Acknowledged
      <3>2. Acknowledged(cmd) = {id} /\ Outcome(cmd) = "none"
        BY <1>1, <2>2, <3>1, OnlyNumber DEF Outcome
      <3>3. Outcome(cmd)' = end
        BY <2>2, <2>3, <3>2 DEF Outcome, EndedAs
      <3>4. \A o \in Orders \ {cmd} : Outcome(o)' = Outcome(o)
        BY <2>2, <3>1, SameView
      <3>5. accepted[cmd] # {} /\ outcome[cmd] = "none"
        BY <3>1, <3>2
      <3>6. accepted' = accepted /\ outcome' = [outcome EXCEPT ![cmd] = end] /\ told' = told
        BY <2>1, <2>3, <3>1, <3>3, <3>4
      <3>7. Contract!Settle(cmd, end)
        BY <3>5, <3>6 DEF Contract!Settle
      <3>. QED
        BY <3>1, <3>7 DEF Contract!Next
    <2>. QED
      BY <2>4, <2>5
  <1>7. ASSUME NEW o \in Orders, NotifyFill(o)
        PROVE  [Contract!Next]_(Contract!vars)
    <2>1. UNCHANGED <<book, unmarked>> /\ accepted' = accepted /\ outcome' = outcome
      BY <1>3, <1>7 DEF NotifyFill, database, failures
    <2>2. fills[o] = 0 /\ Filled(o)
      BY <1>7 DEF NotifyFill, FillInv, TellingIsFilled
    <2>3. fills' = [fills EXCEPT ![o] = 1]
      BY <1>1, <1>7, <2>2 DEF NotifyFill, TypeOK
    <2>4. BookedFor(brokerId[o], o) /\ book[brokerId[o]].state = "COMPLETE"
      BY <2>2 DEF FillInv, NumberIsOurs, Filled
    <2>5. Outcome(o) = "filled"
      BY <2>4 DEF BookedFor, Outcome, EndedAs, Acknowledged
    <2>6. CASE o \in unmarked
      <3>1. Stutter
        BY <1>1, <2>1, <2>3, <2>6 DEF TypeOK
      <3>. QED
        BY <1>2, <3>1
    <2>7. CASE o \notin unmarked
      <3>1. outcome[o] = "filled" /\ told[o] = 0
        BY <2>2, <2>5, <2>7
      <3>2. told' = [told EXCEPT ![o] = 1]
        BY <1>1, <2>1, <2>3, <2>7 DEF TypeOK
      <3>3. Contract!Tell(o)
        BY <2>1, <3>1, <3>2 DEF Contract!Tell
      <3>. QED
        BY <3>3 DEF Contract!Next
    <2>. QED
      BY <2>6, <2>7
  <1>8. CASE MarkSent
    <2>1. call.at = "unblocked" /\ call # Idle /\ UNCHANGED <<book, fills>>
      BY <1>8, Kinds DEF MarkSent
    <2>2. PICK cmd \in Orders : cmd = call.cmd /\ cmd \in Waiting
      BY <1>1, <2>1, CallerWaits DEF SendInv
    <2>3. cmd \notin unmarked => ~Spent(cmd) /\ fills[cmd] = 0
      <3>1. ~Known(cmd)
        BY <2>1, <2>2, KnownIsDone
      <3>. QED
        BY <1>1, <2>1, <2>2, <3>1 DEF SendInv, SpentDone, FillInv, NotifiedIsReconciled
    <2>4. cmd \notin unmarked => Acknowledged(cmd) = {} /\ Outcome(cmd) = "none"
      BY <2>3 DEF Spent, Acknowledged, Outcome, EndedAs
    <2>5. \A o : Acknowledged(o)' = Acknowledged(o) /\ Outcome(o)' = Outcome(o)
      BY <2>1, SameView
    <2>6. UNCHANGED unmarked \/ unmarked' = unmarked \union {cmd}
      BY <1>1, <2>2, UnmarkedStep
    <2>7. Stutter
      BY <2>1, <2>3, <2>4, <2>5, <2>6
    <2>. QED
      BY <1>2, <2>7
  <1>9. CASE UNCHANGED <<book, fills, unmarked>>
    BY <1>2, <1>3, <1>9
  <1>. QED
    BY <1>1, <1>4, <1>5, <1>6, <1>7, <1>8, <1>9, BookStep, FillStep, UnmarkedStep

(* Whatever crashes, retries, cancels and late answers do, a strategy sees *)
(* one acknowledged order per command, one end of it, one callback.        *)
THEOREM LifecycleKeepsContract == Spec => KeepsContract
  <1>1. Init => Contract!Init
    BY ContractInit
  <1>2. FillInv /\ [Next]_vars => [Contract!Next]_(Contract!vars)
    BY ContractNext
  <1>3. Spec => []FillInv
    BY FillInit, FillNext, PTL DEF Spec
  <1>. QED
    BY <1>1, <1>2, <1>3, PTL DEF Spec, KeepsContract, Contract!Spec
=============================================================================
