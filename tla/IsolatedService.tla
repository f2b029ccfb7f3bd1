-------------------------- MODULE IsolatedService --------------------------
(***************************************************************************)
(* A service of services/service_manager.py: its status, its stop event    *)
(* and the threads that run it.  start_all and stop_all call start and     *)
(* stop of each service; the services share nothing, so one is modelled.   *)
(*                                                                         *)
(* A thread that fails restarts itself by calling _run_with_isolation      *)
(* again from its handler: every frame has a finally of its own, run when  *)
(* the frames unwind.  start looks at the status under the lock, the       *)
(* thread and the end of stop write it without; stop waits ten seconds for *)
(* the thread and then goes on.  run() is the subclass's: it may end, may  *)
(* fail, and ends when it sees the stop event.                             *)
(***************************************************************************)
EXTENDS Naturals

CONSTANTS Threads,        \* threads the service may have had
          MaxDepth,       \* bound: restarts inside one thread
          MaxStops        \* bound: calls of stop

VARIABLES auto,           \* enable_auto_restart, given to the constructor
          status,         \* health.status
          event,          \* _stop_event
          pc,             \* [Threads -> where a thread is]
          depth,          \* [Threads -> frames of _run_with_isolation]
          newest,         \* _thread: the newest of them, 0 for none
          stopping,       \* a call of stop is between its lock and its end
          stops,          \* calls of stop so far
          of,             \* ghost: the thread the last call of stop was meant for
          failed          \* ghost: a run has failed for good since the start

vars == <<auto, status, event, pc, depth, newest, stopping, stops, of, failed>>
caller == <<auto, event, newest, stopping, stops, of>>

Alive(t) == pc[t] \notin {"none", "done"}

Init == /\ auto \in BOOLEAN
        /\ status = "STOPPED" /\ event = FALSE
        /\ pc = [t \in Threads |-> "none"] /\ depth = [t \in Threads |-> 0]
        /\ newest = 0 /\ stopping = FALSE /\ stops = 0 /\ of = 0 /\ failed = FALSE

----------------------------------------------------------------------------
(* start and stop *)

Start == /\ status = "STOPPED" /\ newest + 1 \in Threads
         /\ status' = "STARTING" /\ event' = FALSE
         /\ newest' = newest + 1
         /\ pc' = [pc EXCEPT ![newest + 1] = "enter"]
         /\ depth' = [depth EXCEPT ![newest + 1] = 1]
         /\ failed' = FALSE
         /\ UNCHANGED <<auto, stopping, stops, of>>

\* Mutation: only a running service is told to stop.
ToldIfRunning == event \/ status = "RUNNING"
\* self._stop_event.set()
Told == TRUE

StopBegins == /\ ~stopping /\ stops < MaxStops
              /\ event' = Told /\ status' = "STOPPING"
              /\ stopping' = TRUE /\ stops' = stops + 1 /\ of' = newest
              /\ UNCHANGED <<auto, pc, depth, newest, failed>>

\* join returns when the thread has ended, and after ten seconds
StopEnds == /\ stopping
            /\ status' = "STOPPED" /\ stopping' = FALSE /\ failed' = FALSE
            /\ UNCHANGED <<auto, event, pc, depth, newest, stops, of>>

----------------------------------------------------------------------------
(* _run_with_isolation and _attempt_restart *)

Goes(t, to) == pc' = [pc EXCEPT ![t] = to]

Enter(t) == /\ pc[t] = "enter"
            /\ status' = "RUNNING" /\ Goes(t, "run")
            /\ UNCHANGED <<depth, failed, caller>>

\* run() returns, because it is done or because should_stop() said so
Returns(t) == /\ pc[t] = "run"
              /\ Goes(t, "finally")
              /\ UNCHANGED <<status, depth, failed, caller>>

Fails(t) == /\ pc[t] = "run"
            /\ status' = "ERROR"
            /\ Goes(t, IF auto THEN "recover" ELSE "finally")
            /\ failed' = (failed \/ ~auto)
            /\ UNCHANGED <<depth, caller>>

Recovers(t) == /\ pc[t] = "recover"
               /\ status' = "RECOVERING" /\ Goes(t, "wait")
               /\ UNCHANGED <<depth, failed, caller>>

\* if self._stop_event.is_set(): return
Cancels(t) == /\ pc[t] = "wait" /\ event
              /\ Goes(t, "finally")
              /\ UNCHANGED <<status, depth, failed, caller>>

\* The last second: what is set now is not looked at before the restart.
LooksLast(t) == /\ pc[t] = "wait" /\ ~event /\ depth[t] < MaxDepth
                /\ Goes(t, "asleep")
                /\ UNCHANGED <<status, depth, failed, caller>>

Restarts(t) == /\ pc[t] = "asleep"
               /\ depth' = [depth EXCEPT ![t] = @ + 1]
               /\ Goes(t, "enter")
               /\ UNCHANGED <<status, failed, caller>>

\* finally: if self.health.status != ServiceStatus.ERROR
AtEnd(s) == IF s = "ERROR" THEN s ELSE "STOPPED"

Finally(t) == /\ pc[t] = "finally"
              /\ status' = AtEnd(status)
              /\ depth' = [depth EXCEPT ![t] = @ - 1]
              /\ Goes(t, IF depth[t] = 1 THEN "done" ELSE "finally")
              /\ UNCHANGED <<failed, caller>>

Thread(t) == Enter(t) \/ Returns(t) \/ Fails(t) \/ Recovers(t) \/ Cancels(t) \/ LooksLast(t)
             \/ Restarts(t) \/ Finally(t)
Next == Start \/ StopBegins \/ StopEnds \/ \E t \in Threads : Thread(t)

\* A thread is scheduled; run() watches the stop event; sleeps end.
Fairness == /\ WF_vars(StopEnds)
            /\ \A t \in Threads : /\ WF_vars(Enter(t) \/ Recovers(t) \/ Cancels(t) \/ Restarts(t) \/ Finally(t))
                                  /\ WF_vars(event /\ Returns(t))
Spec == Init /\ [][Next]_vars /\ Fairness

----------------------------------------------------------------------------
(* Properties *)

\* When no thread of the service is left and no stop is under way, the
\* status says so: it is STOPPED or ERROR, over every interleaving of stops,
\* failures and restarts.
QuietIsSettled ==
  (\A t \in Threads : ~Alive(t)) /\ ~stopping => status \in {"STOPPED", "ERROR"}

\* A failure for good is not reported as a stop: while the thread that failed
\* is the only one and nobody has called stop, the status is ERROR.
FailureStays ==
  failed /\ stops = 0 /\ newest = 1 => status = "ERROR"

\* A stop that no start follows ends every thread, also one that is between
\* a failure and its restart.
StopHeard(n) ==
  (stopping /\ of = n /\ newest = n) ~> (newest # n \/ \A t \in Threads : ~Alive(t))
StopIsHeard == \A n \in Threads : StopHeard(n)

\* A stopped service has no thread.  It does not hold: join gives up after
\* ten seconds, and a start then clears the event the old thread should see.
OneThread == \A t, u \in Threads : Alive(t) /\ Alive(u) => t = u
=============================================================================
