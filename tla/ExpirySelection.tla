-------------------------- MODULE ExpirySelection --------------------------
(***************************************************************************)
(* Which expiry a strategy trades, and which file its market reader has    *)
(* open: strategy_runner/market_reader.py, with the resolution of the      *)
(* cycle expiry and the loading of the chain in                            *)
(* strategy_executor_service.py and executor.py.                           *)
(*                                                                         *)
(* The expiries a reader knows are the chain files on the disk, so they    *)
(* come and go with the supervisor's chains and its clean-up.  The expiry  *)
(* is resolved once to load the chain and once more when the executor of   *)
(* the strategy is built, and is then kept.  A connection is cached with   *)
(* the path and the modification time of its file, and that time is taken  *)
(* after the file is open.                                                 *)
(*                                                                         *)
(* An expiry is the number of its day.                                     *)
(***************************************************************************)
EXTENDS Integers, FiniteSets, FiniteSetsExt

CONSTANTS Expiries,       \* the days, from 1, on which the instrument expires
          Modes,          \* expiry modes of a strategy's schedule
          LastDay,        \* bound: the last day
          MaxFiles        \* bound: files created

VARIABLES day,            \* today
          files,          \* disk: the expiries that have a file
          active,         \* supervisor: the expiries with a running chain
          created,        \* files created so far, for the bound
          mode,           \* config: schedule.expiry_mode
          pc,             \* registration: "no", "chain" (loaded), "done"
          loaded,         \* registration: the expiry whose chain was wanted
          cycle,          \* executor: _cycle_expiry_date
          alone,          \* ghost: no file came or went, and no day, between the two
          leg,            \* state: the expiry of a leg, 0 for none
          rpc,            \* reader: "ask", "open" or "stat"
          path,           \* reader: the file cached for the default key, 0 for none
          same,           \* reader: the connection is to the file that is there
          timed,          \* reader: the time kept is that of the file there
          got             \* what was handed out last: "none", "file", "other"

registration == <<mode, pc, loaded, cycle>>
reader == <<rpc, path, same, timed, got>>
vars == <<day, files, active, created, registration, alone, leg, reader>>

----------------------------------------------------------------------------
(* resolve_expiry_mode, get_next_expiry and _resolve_db_path *)

FromToday(F) == {e \in F : e >= day}
After(F, e) == {x \in F : x > e}
Current(F) == IF FromToday(F) # {} THEN Min(FromToday(F)) ELSE Max(F)

\* Past the last file the search wraps to the first.
NextOf(F, e) == IF After(F, e) = {} THEN Min(F) ELSE Min(After(F, e))

Resolve(F, m) == CASE m \in {"weekly_current", "monthly_current"} -> Current(F)
                   [] m \in {"weekly_next", "monthly_next"} -> NextOf(F, Current(F))
                   [] m = "weekly_auto" /\ Current(F) # day -> Current(F)
                   [] OTHER -> NextOf(F, Current(F))

\* _resolve_db_path without an expiry
DefaultPath(F) == LET future == {e \in F : e >= day}
                  IN  IF future # {} THEN Min(future) ELSE Max(F)

----------------------------------------------------------------------------
Init == /\ day = 1 /\ files \in SUBSET Expiries /\ active = {} /\ created = 0
        /\ mode \in Modes /\ pc = "no" /\ loaded = 0 /\ cycle = 0 /\ alone = TRUE
        /\ leg = 0
        /\ rpc = "ask" /\ path = 0 /\ same = FALSE /\ timed = FALSE /\ got = "none"

\* The file of e is removed: neither the connection nor the time
\* kept for it is right any more.
Touched(e) == /\ same' = (same /\ path # e)
              /\ timed' = (timed /\ path # e)

----------------------------------------------------------------------------
(* The supervisor *)

\* ensure_chain: the store goes on with a file that is there and makes one
\* that is not; an expiry that has passed has no instruments.
CanLoad(e) == e \notin active /\ e >= day /\ created < MaxFiles
Loads(e) == /\ CanLoad(e)
            /\ active' = active \cup {e} /\ files' = files \cup {e}
            /\ created' = created + 1
            /\ timed' \in {timed, timed /\ path # e} /\ UNCHANGED same

EnsureChain(e) == /\ Loads(e)
                  /\ alone' = FALSE
                  /\ UNCHANGED <<day, registration, leg, rpc, path, got>>

\* write_snapshot.  The database is in WAL mode: pages, and with them a new
\* modification time, reach the file at a checkpoint, which SQLite makes
\* every so many pages.  The snapshots in between change nothing here.
Writes(e) == /\ e \in active /\ path = e
             /\ timed' = FALSE
             /\ UNCHANGED <<day, files, active, created, registration, alone, leg, rpc, path, same, got>>

\* A chain that is removed takes its file with it; one that failed leaves it.
RemoveChain(e) == /\ e \in active /\ active' = active \ {e}
                  /\ \/ files' = files \ {e} /\ alone' = FALSE /\ Touched(e)
                     \/ UNCHANGED <<files, alone, same, timed>>
                  /\ UNCHANGED <<day, created, registration, leg, rpc, path, got>>

\* cleanup_expired_option_chain_dbs: files of no active chain that were not
\* written for a day
CleanUp == /\ \E old \in (SUBSET (files \ active)) \ {{}} :
                 /\ files' = files \ old
                 /\ same' = (same /\ path \notin old)
                 /\ timed' = (timed /\ path \notin old)
           /\ alone' = FALSE
           /\ UNCHANGED <<day, active, created, registration, leg, rpc, path, got>>

----------------------------------------------------------------------------
(* The strategy: _ensure_strategy_chain, then _resolve_cycle_expiry *)

\* Without a file the instrument master names the nearest expiry.
Wanted(m) == IF files = {} THEN Min({e \in Expiries : e >= day}) ELSE Resolve(files, m)

RegisterLoads == /\ pc = "no" /\ (files # {} \/ \E e \in Expiries : e >= day)
                 /\ loaded' = Wanted(mode) /\ pc' = "chain" /\ alone' = TRUE
                 /\ \/ Loads(Wanted(mode))
                    \/ /\ ~CanLoad(Wanted(mode))
                       /\ UNCHANGED <<files, active, created, same, timed>>
                 /\ UNCHANGED <<day, mode, cycle, leg, rpc, path, got>>

\* The constructor: without a file it raises and nothing is registered.
RegisterResolves == /\ pc = "chain"
                    /\ IF files = {} THEN pc' = "no" /\ UNCHANGED cycle
                       ELSE pc' = "done" /\ cycle' = Resolve(files, mode)
                    /\ UNCHANGED <<day, files, active, created, mode, loaded, alone, leg, reader>>

Enters == /\ pc = "done" /\ leg = 0 /\ cycle \in files
          /\ leg' = cycle
          /\ UNCHANGED <<day, files, active, created, registration, alone, reader>>

\* get_next_expiry(leg.expiry, "weekly_next"), when the next file has the strike
Roll == /\ leg # 0 /\ files # {}
        /\ leg' = NextOf(files, leg)
        /\ UNCHANGED <<day, files, active, created, registration, alone, reader>>

Unregister == /\ pc = "done" /\ pc' = "no" /\ leg' = 0 /\ cycle' = 0 /\ loaded' = 0
              /\ UNCHANGED <<day, files, active, created, mode, alone, reader>>

----------------------------------------------------------------------------
(* The reader: _get_connection *)

\* Mutation: a connection to the same path is used again.
StillGoodByPath == TRUE
\* current_mtime == info['mtime']
StillGood == timed

Ask == /\ rpc = "ask"
       /\ IF files = {} THEN got' = "none" /\ UNCHANGED <<rpc, path, same, timed>>
          ELSE IF path = DefaultPath(files) /\ StillGood
          THEN /\ got' = (IF same THEN "file" ELSE "other")
               /\ UNCHANGED <<rpc, path, same, timed>>
          ELSE /\ path' = DefaultPath(files) /\ same' = FALSE /\ timed' = FALSE
               /\ rpc' = "open" /\ UNCHANGED got
       /\ UNCHANGED <<day, files, active, created, registration, alone, leg>>

Failed == /\ rpc' = "ask" /\ path' = 0 /\ same' = FALSE /\ timed' = FALSE /\ got' = "none"

Open == /\ rpc = "open"
        /\ \/ /\ path \in files
              /\ same' = TRUE /\ rpc' = "stat" /\ UNCHANGED <<path, timed, got>>
           \/ /\ path \notin files /\ Failed
        /\ UNCHANGED <<day, files, active, created, registration, alone, leg>>

\* The modification time is taken of the file that now has the name.
Stat == /\ rpc = "stat"
        /\ \/ /\ path \in files
              /\ timed' = TRUE /\ rpc' = "ask"
              /\ got' = (IF same THEN "file" ELSE "other")
              /\ UNCHANGED <<path, same>>
           \/ /\ path \notin files /\ Failed
        /\ UNCHANGED <<day, files, active, created, registration, alone, leg>>

NextDay == /\ day < LastDay /\ day' = day + 1
           /\ alone' = FALSE
           /\ UNCHANGED <<files, active, created, registration, leg, reader>>

----------------------------------------------------------------------------
Next == \/ \E e \in Expiries : EnsureChain(e) \/ Writes(e) \/ RemoveChain(e)
        \/ CleanUp \/ NextDay
        \/ RegisterLoads \/ RegisterResolves \/ Enters \/ Roll \/ Unregister
        \/ Ask \/ Open \/ Stat

\* A strategy asks on every tick; a running chain writes its snapshots, of
\* which ever another one brings a checkpoint.
Fairness == /\ WF_vars(Ask \/ Open \/ Stat)
            /\ \A e \in Expiries : WF_vars(Writes(e))
Spec == Init /\ [][Next]_vars /\ Fairness

----------------------------------------------------------------------------
(* Properties *)

\* The reader's default file and the mode weekly_current, two searches of
\* the same directory, name the same expiry.
DefaultIsCurrent == files # {} => DefaultPath(files) = Resolve(files, "weekly_current")

\* weekly_auto leaves the expiry of today as soon as a later one has a file.
AutoLeavesToday == After(files, day) # {} => Resolve(files, "weekly_auto") > day

\* The expiry a strategy is registered with is the one whose chain was
\* loaded for it, unless a file came or went, or midnight, between the two.
CycleHasItsChain == pc = "done" /\ alone => cycle = loaded

\* A reader that was handed a connection to a file that has been replaced
\* gets the right one, for as long as a chain writes that file: at the next
\* checkpoint, not the next snapshot.
ReaderFindsTheFile ==
  got = "other" ~> (got # "other" \/ path \notin active)

\* Rolling goes forward.  It does not hold: without a later file the search
\* wraps to the first file there is.
RollsForward == [][Roll => leg' > leg]_vars

\* The expiry of a strategy that runs has not passed.  It does not hold: it
\* is resolved once, and past expiries are named when no other file is left.
CycleIsAlive == pc = "done" => cycle >= day

\* A connection is to the file that has the name.  It does not hold: the
\* file may be replaced after it is opened and before its time is taken.
ReadsTheFile == got # "other"
=============================================================================
