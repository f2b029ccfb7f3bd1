------------------------------ MODULE OptionChains ------------------------------
(* OptionChainSupervisor: the live option chains, the database file that   *)
(* mirrors each, and the threads that start and remove them.               *)
(*                                                                         *)
(* The dashboard and the strategies ask for chains and the dashboard       *)
(* removes them, while the supervisor's loop writes the snapshots,         *)
(* recentres chains the spot has left and retries those that have failed.  *)
(* The dictionaries are read and written under a lock, everything else is  *)
(* done between two holds of it.                                           *)
(*                                                                         *)
(* Simplifications: a backoff is over at some moment; a loop recentres one *)
(* chain at most; health checks, which change nothing, are left out.       *)
EXTENDS Integers, FiniteSets

CONSTANTS
  Keys,         \* exchange:symbol:expiry
  Users,        \* threads of the dashboard and of strategies
  MaxAttempts,  \* MAX_CHAIN_RETRY_ATTEMPTS
  MaxBundles,   \* bound on the chains that exist at once
  MaxAsks,      \* bound on the requests of the users
  MaxFaults     \* bound on builds, stores and writes that fail

Sup == "supervisor"
Threads == Users \cup {Sup}
None == 0
Bundles == 1..MaxBundles

VARIABLES
  chains,     \* _chains: the bundle of a key, or None
  failed,     \* _failed_chains: the failures of a key
  due,        \* whether the backoff of a failed key is over
  bundle,     \* per bundle: the state of its option chain and of its store
  file,       \* whether the database file of a key is there
  thread,     \* per thread: where it is
  loop,       \* the supervisor's loop: its phase and what is left of it
  written,   \* per key: its chain has been written to its store
  displaced,  \* bundles that a failed recentring has replaced
  bound

vars == <<chains, failed, due, bundle, file, thread, loop, written, displaced, bound>>

Idle == [at |-> "idle", key |-> "none", attempt |-> 0, own |-> None, old |-> None]
Built == [oc |-> "live", store |-> "none"]

Init ==
  /\ chains = [k \in Keys |-> None]
  /\ failed = [k \in Keys |-> 0] /\ due = [k \in Keys |-> FALSE]
  /\ bundle = [b \in Bundles |-> [oc |-> "none", store |-> "none"]]
  /\ file = [k \in Keys |-> FALSE]
  /\ thread = [t \in Threads |-> Idle]
  /\ loop = [phase |-> "snapshots", todo |-> {}]
  /\ written = [k \in Keys |-> FALSE] /\ displaced = {}
  /\ bound = [asks |-> 0, faults |-> 0]

Active == {k \in Keys : chains[k] # None}

Goto(t, where) == thread' = [thread EXCEPT ![t].at = where]
Returns(t) == thread' = [thread EXCEPT ![t] = Idle]
Fault == bound.faults < MaxFaults /\ bound' = [bound EXCEPT !.faults = @ + 1]

(* A bundle nothing refers to any more: its number is used again. *)
Free(b) ==
  /\ bundle[b].store \notin {"open", "broken"} /\ b \notin displaced
  /\ \A k \in Keys : chains[k] # b /\ <<k, b>> \notin loop.todo
  /\ \A t \in Threads : b \notin {thread[t].own, thread[t].old}

(* A recentring goes on after its start, another call returns. *)
StartEnds(t, worked) ==
  IF thread[t].old # None
  THEN thread' = [thread EXCEPT ![t] = [@ EXCEPT !.own = None,
                                          !.at = IF worked THEN "recentred" ELSE "restore"]]
  ELSE Returns(t)

-----------------------------------------------------------------------------
(* _start_chain: a key that is running or waits for its backoff is left    *)
(* alone.                                                                  *)
MayStart(k) == chains[k] = None /\ (failed[k] = 0 \/ due[k])

Asks(t, k) == thread[t].at = "idle" /\ bound.asks < MaxAsks
              /\ bound' = [bound EXCEPT !.asks = @ + 1]

EnsureChain(t, k) ==
  /\ Asks(t, k) /\ MayStart(k)
  /\ thread' = [thread EXCEPT ![t] = [Idle EXCEPT !.at = "build", !.key = k, !.attempt = 1]]
  /\ UNCHANGED <<chains, failed, due, bundle, file, loop, written, displaced>>

(* The last attempt that fails is noted, and the database file removed,    *)
(* whoever uses it.                                                        *)
AttemptFails(t) ==
  /\ LET k == thread[t].key
     IN IF thread[t].attempt < MaxAttempts
        THEN /\ thread' = [thread EXCEPT ![t].at = "build", ![t].own = None,
                                           ![t].attempt = @ + 1]
             /\ UNCHANGED <<failed, due, file>>
        ELSE /\ failed' = [failed EXCEPT ![k] = IF @ < 2 THEN @ + 1 ELSE @]
             /\ due' = [due EXCEPT ![k] = FALSE]
             /\ file' = [file EXCEPT ![k] = FALSE]
             /\ StartEnds(t, FALSE)

(* live_option_chain *)
Build(t) ==
  /\ thread[t].at = "build"
  /\ \/ /\ \E b \in Bundles :
             /\ Free(b) /\ \A c \in 1..(b - 1) : ~Free(c)
             /\ bundle' = [bundle EXCEPT ![b] = Built]
             /\ thread' = [thread EXCEPT ![t] = [@ EXCEPT !.at = "open", !.own = b]]
        /\ UNCHANGED <<failed, due, file, bound>>
     \/ Fault /\ AttemptFails(t) /\ UNCHANGED bundle
  /\ UNCHANGED <<chains, loop, written, displaced>>

(* OptionChainStore: a store that cannot be opened leaves its chain behind *)
(* with the thread that refreshes its greeks.                              *)
OpenStore(t) ==
  /\ thread[t].at = "open"
  /\ \/ /\ bundle' = [bundle EXCEPT ![thread[t].own].store = "open"]
        /\ file' = [file EXCEPT ![thread[t].key] = TRUE]
        /\ Goto(t, "register")
        /\ UNCHANGED <<failed, due, bound>>
     \/ Fault /\ AttemptFails(t) /\ UNCHANGED bundle
  /\ UNCHANGED <<chains, loop, written, displaced>>

Closed(b) == [oc |-> "cleaned", store |-> "closed"]

(* Mutation: the one that comes second forgets its store. *)
SecondKeeps(b) == [oc |-> "cleaned", store |-> "open"]

(* Another thread has already started this chain: clean up ours. *)
Second(b) == Closed(b)

Register(t) ==
  /\ thread[t].at = "register"
  /\ LET k == thread[t].key  b == thread[t].own
     IN IF chains[k] # None
        THEN bundle' = [bundle EXCEPT ![b] = Second(b)] /\ UNCHANGED <<chains, failed, written>>
        ELSE /\ chains' = [chains EXCEPT ![k] = b]
             /\ failed' = [failed EXCEPT ![k] = 0]
             /\ written' = [written EXCEPT ![k] = FALSE]
             /\ UNCHANGED bundle
  /\ StartEnds(t, TRUE)
  /\ UNCHANGED <<due, file, loop, displaced, bound>>

(* remove_chain: out of the dictionary, then cleaned, then the file. *)
RemovePops(t, k) ==
  /\ Asks(t, k) /\ chains[k] # None
  /\ chains' = [chains EXCEPT ![k] = None]
  /\ thread' = [thread EXCEPT ![t] = [Idle EXCEPT !.at = "clean", !.key = k, !.own = chains[k]]]
  /\ UNCHANGED <<failed, due, bundle, file, loop, written, displaced>>

RemoveCleans(t) ==
  /\ thread[t].at = "clean" /\ Goto(t, "unlink")
  /\ bundle' = [bundle EXCEPT ![thread[t].own] = Closed(thread[t].own)]
  /\ UNCHANGED <<chains, failed, due, file, loop, written, displaced, bound>>

RemoveUnlinks(t) ==
  /\ thread[t].at = "unlink" /\ Returns(t)
  /\ file' = [file EXCEPT ![thread[t].key] = FALSE]
  /\ UNCHANGED <<chains, failed, due, bundle, loop, written, displaced, bound>>

-----------------------------------------------------------------------------
(* The loop of the supervisor: the snapshots of the chains it has listed,  *)
(* a recentring, the failed keys it has listed.                            *)
InLoop(phase) == thread[Sup].at = "idle" /\ loop.phase = phase
Phase(phase, todo) == loop' = [phase |-> phase, todo |-> todo]

LoopLists ==
  /\ InLoop("snapshots") /\ Phase("write", {<<k, chains[k]>> : k \in Active})
  /\ UNCHANGED <<chains, failed, due, bundle, file, thread, written, displaced, bound>>

(* continue with the other chains *)
AfterFailure(item) == loop.todo \ {item}

(* write_snapshot: of a chain that was cleaned there is nothing to write;  *)
(* otherwise one transaction, which raises when the database is broken.    *)
WriteSnapshot ==
  /\ InLoop("write")
  /\ \E item \in loop.todo :
       LET k == item[1]  b == item[2]
       IN \/ /\ bundle[b].oc = "live" /\ bundle[b].store = "open"
             /\ written' = [written EXCEPT ![k] = IF chains[k] = b THEN TRUE ELSE @]
             /\ Phase("write", loop.todo \ {item}) /\ UNCHANGED bound
          \/ /\ bundle[b].oc = "cleaned"
             /\ Phase("write", loop.todo \ {item}) /\ UNCHANGED <<written, bound>>
          \/ /\ bundle[b].oc = "live" /\ bundle[b].store = "broken"
             /\ Phase("write", AfterFailure(item)) /\ UNCHANGED <<written, bound>>
  /\ UNCHANGED <<chains, failed, due, bundle, file, thread, displaced>>

(* A database file is damaged, or its disk is full. *)
StoreBreaks(b) ==
  /\ bundle[b].store = "open" /\ Fault
  /\ bundle' = [bundle EXCEPT ![b].store = "broken"]
  /\ UNCHANGED <<chains, failed, due, file, thread, loop, written, displaced>>

LoopWritten ==
  /\ InLoop("write") /\ loop.todo = {} /\ Phase("recentre", {})
  /\ UNCHANGED <<chains, failed, due, bundle, file, thread, written, displaced, bound>>

(* The spot has left a chain: the old chain goes, a new one is started.    *)
(* What is found gone by then is started all the same.                     *)
Recentres ==
  /\ InLoop("recentre") /\ Phase("recentred", {}) /\ Fault
  /\ \E k \in Active :
       /\ bundle[chains[k]].oc = "live"
       /\ thread' = [thread EXCEPT ![Sup] = [Idle EXCEPT !.at = "pop", !.key = k]]
  /\ UNCHANGED <<chains, failed, due, bundle, file, written, displaced>>

RecentrePops ==
  /\ thread[Sup].at = "pop"
  /\ LET k == thread[Sup].key  b == chains[k]
     IN /\ chains' = [chains EXCEPT ![k] = None]
        /\ thread' = [thread EXCEPT ![Sup].own = b, ![Sup].at = IF b = None THEN "start" ELSE "aside"]
  /\ UNCHANGED <<failed, due, bundle, file, loop, written, displaced, bound>>

RecentreCleans ==
  /\ thread[Sup].at = "aside"
  /\ LET b == thread[Sup].own
     IN /\ bundle' = [bundle EXCEPT ![b] = Closed(b)]
        /\ thread' = [thread EXCEPT ![Sup].own = None, ![Sup].old = b, ![Sup].at = "start"]
  /\ UNCHANGED <<chains, failed, due, file, loop, written, displaced, bound>>

RecentreStarts ==
  /\ thread[Sup].at = "start"
  /\ LET k == thread[Sup].key
     IN thread' = [thread EXCEPT ![Sup].attempt = 1, ![Sup].at =
          CASE MayStart(k) -> "build"
            [] chains[k] # None -> "recentred"
            [] OTHER -> "restore"]
  /\ UNCHANGED <<chains, failed, due, bundle, file, loop, written, displaced, bound>>

(* The new chain runs; or it does not, and the old one, whose data and     *)
(* store are gone, is put back in the dictionary, whatever is there.       *)
RecentreEnds ==
  /\ thread[Sup].at \in {"recentred", "restore"} /\ Returns(Sup)
  /\ LET k == thread[Sup].key
     IN IF thread[Sup].at = "recentred" \/ thread[Sup].old = None THEN UNCHANGED <<chains, displaced>>
        ELSE /\ displaced' = displaced \cup ({chains[k]} \ {None})
             /\ chains' = [chains EXCEPT ![k] = thread[Sup].old]
  /\ UNCHANGED <<failed, due, bundle, file, loop, written, bound>>

LoopRecentred ==
  /\ thread[Sup].at = "idle" /\ loop.phase \in {"recentre", "recentred"}
  /\ Phase("retry", {k \in Keys : failed[k] > 0})
  /\ UNCHANGED <<chains, failed, due, bundle, file, thread, written, displaced, bound>>

(* A failed chain is retried, however often it has failed. *)
Retried(k) == TRUE

LoopRetries ==
  /\ InLoop("retry")
  /\ \E k \in loop.todo :
       /\ Phase("retry", loop.todo \ {k})
       /\ thread' = IF MayStart(k) /\ Retried(k)
                    THEN [thread EXCEPT ![Sup] = [Idle EXCEPT !.at = "build", !.key = k,
                                                    !.attempt = 1]]
                    ELSE thread
  /\ UNCHANGED <<chains, failed, due, bundle, file, written, displaced, bound>>

LoopEnds ==
  /\ InLoop("retry") /\ loop.todo = {} /\ Phase("snapshots", {})
  /\ UNCHANGED <<chains, failed, due, bundle, file, thread, written, displaced, bound>>

Loop ==
  \/ LoopLists \/ WriteSnapshot \/ LoopWritten \/ Recentres \/ RecentrePops \/ RecentreCleans
  \/ RecentreStarts \/ RecentreEnds \/ LoopRecentred \/ LoopRetries \/ LoopEnds

(* min(2 * 2^n, 60) seconds after the last attempt. *)
BackoffEnds(k) ==
  /\ failed[k] > 0 /\ ~due[k] /\ due' = [due EXCEPT ![k] = TRUE]
  /\ UNCHANGED <<chains, failed, bundle, file, thread, loop, written, displaced, bound>>

Starting(t) == Build(t) \/ OpenStore(t) \/ Register(t) \/ RemoveCleans(t) \/ RemoveUnlinks(t)

Next ==
  \/ Loop
  \/ \E t \in Threads : Starting(t)
  \/ \E t \in Users, k \in Keys : EnsureChain(t, k) \/ RemovePops(t, k)
  \/ \E k \in Keys : BackoffEnds(k)
  \/ \E b \in Bundles : StoreBreaks(b)

Spec == Init /\ [][Next]_vars

FairSpec ==
  /\ Spec /\ WF_vars(Loop \/ Starting(Sup))
  /\ WF_vars(\E k \in Keys : BackoffEnds(k))

-----------------------------------------------------------------------------
(* Two threads that start the same chain, a failure on the way, a removal: *)
(* every open store belongs to a chain of the dictionary or to a thread    *)
(* that still starts or removes one.  Excepted is a chain that was started *)
(* while a recentring failed: putting back the old one drops it with its   *)
(* store open (supervisor.py:751).                                         *)
NoStoreLeaked ==
  \A b \in Bundles : bundle[b].store \in {"open", "broken"} =>
    \/ \E k \in Keys : chains[k] = b
    \/ \E t \in Threads : b \in {thread[t].own, thread[t].old}
    \/ b \in displaced

(* A chain that has failed is tried again: it does not wait for a restart. *)
RetriedAgain(k) == (failed[k] > 0) ~> (failed[k] = 0 \/ thread[Sup].key = k \/ chains[k] # None)
FailedChainsAreRetried == \A k \in Keys : RetriedAgain(k)

Runs(k) == chains[k] # None /\ bundle[chains[k]] = [oc |-> "live", store |-> "open"]

(* Whatever happens to other chains, a chain that runs is written. *)
WrittenAgain(k) == Runs(k) ~> (written[k] \/ ~Runs(k))
SnapshotsGoOn == \A k \in Keys : WrittenAgain(k)

(* A chain in the dictionary is one that works. *)
ListedChainsWork == \A k \in Active : bundle[chains[k]].oc = "live"

(* A chain that runs has the file its readers open. *)
ActiveChainsHaveFiles == \A k \in Active : file[k]
=============================================================================
