------------------------------- MODULE ConfigStore -------------------------------
(* The saved strategy configurations (saved_configs/<slug>.json), the      *)
(* dashboard routes that write them, and the executor service that runs    *)
(* strategies from them, in LIVE or MOCK mode.                             *)
(*                                                                         *)
(* A request runs on a thread of the pool: it loads a file, works on the   *)
(* copy, and writes it through a temporary file whose name depends on the  *)
(* configuration only.  Nothing locks a configuration across a request:    *)
(* two may be under way about one file.  The strategies tick meanwhile, and *)
(* the process may end between any two steps.                              *)
(*                                                                         *)
(* Simplifications: a body stands for the sections of a configuration;     *)
(* refused payloads (missing name, failed validation) change nothing and   *)
(* are left out; the legs of a strategy are none, real or on paper.        *)
EXTENDS Naturals, FiniteSets, TLC

CONSTANTS
  Slugs,       \* names of files
  Bodies,      \* contents
  Requests,    \* the threads of the dashboard
  MaxRequests, \* bound on the requests
  Nobody,      \* not a name
  MaxCrashes   \* bound on the restarts of the process

Modes == {"LIVE", "MOCK"}
Absent == [kind |-> "absent"]
Torn == [kind |-> "torn"]
Config(b, m, s) == [kind |-> "config", body |-> b, mode |-> m, status |-> s]
Configs == {Config(b, m, s) : b \in Bodies, m \in Modes, s \in {"IDLE", "RUNNING", "STOPPED"}}

VARIABLES
  file,      \* the files
  temp,      \* their temporary files
  run,       \* _strategies: the mode each strategy runs in, or "none"
  legs,      \* its legs, which survive in its state file, and whether real
  req,       \* per thread: its request, where it is, its copy of the file, what
             \* the temporary file it opened is by now; history: whether it is
             \* alone, no other request under way having been about its files
  asked,     \* requests made
  crashes,
  alive      \* history: bodies saved and neither deleted nor overwritten, nor
             \* in a file that two requests were about at a time

configVars == <<file, temp, run, legs, req, asked, crashes, alive>>

NoReq == [op |-> "none", at |-> "idle", slug |-> CHOOSE s \in Slugs : TRUE,
          data |-> Absent, from |-> Nobody, fd |-> "temp", alone |-> TRUE]

Request(op, s, data, from) ==
  [NoReq EXCEPT !.op = op, !.at = "open", !.slug = s, !.data = data, !.from = from]

ConfigInit ==
  /\ file \in [Slugs -> {Absent} \cup [kind : {"config"}, body : Bodies, mode : Modes, status : {"IDLE"}]]
  /\ temp = [s \in Slugs |-> Absent] /\ run = [s \in Slugs |-> "none"]
  /\ legs = [s \in Slugs |-> "none"]
  /\ req = [r \in Requests |-> NoReq] /\ asked = 0 /\ crashes = 0
  /\ alive = {file[s].body : s \in {t \in Slugs : file[t].kind = "config"}}

Saved(s) == file[s].kind = "config"

(* The files a request is about, and what they hold. *)
Files(q) == {q.slug, q.from} \ {Nobody}
BodiesIn(fs) == {file[s].body : s \in {t \in fs : Saved(t)}}

(* History: the requests under way about one of these files. *)
Meeting(r, fs) == {p \in Requests \ {r} : req[p].at # "idle" /\ Files(req[p]) \cap fs # {}}

Crowded(r, fs) == UNION {fs \cup Files(req[p]) : p \in Meeting(r, fs)}

(* The request begins: it has loaded what it needs and holds what it will  *)
(* write to a file.                                                        *)
Begin(r, q) ==
  LET met == Meeting(r, Files(q))
  IN /\ req[r].at = "idle" /\ asked < MaxRequests /\ asked' = asked + 1
     /\ req' = [p \in Requests |-> IF p = r THEN [q EXCEPT !.alone = (met = {})]
                                    ELSE [req[p] EXCEPT !.alone = @ /\ p \notin met]]
     /\ alive' = alive \ BodiesIn(Crowded(r, Files(q)))

Accept(r, op, s, data, from) ==
  Begin(r, Request(op, s, data, from)) /\ UNCHANGED <<file, temp, run, legs, crashes>>

(* The file of a name goes; who was still writing it writes to no file. *)
Orphaned(reqs, s) ==
  [p \in Requests |-> IF reqs[p].slug = s /\ reqs[p].at = "fill" /\ reqs[p].fd = "file"
                      THEN [reqs[p] EXCEPT !.fd = "gone"] ELSE reqs[p]]

-----------------------------------------------------------------------------
(* The routes that write a configuration. *)

(* save-all and save: what is there, if it can be read, with the payload   *)
(* over it.  A form that was opened before brings its own status.          *)
Save(r, s) ==
  \E b \in Bodies, m \in Modes, status \in {"IDLE", IF Saved(s) THEN file[s].status ELSE "IDLE"} :
    Accept(r, "save", s, Config(b, m, status), Nobody)

(* create refuses a name that is taken, and update one that is not. *)
Create(r, s) == ~Saved(s) /\ \E b \in Bodies, m \in Modes : Accept(r, "create", s, Config(b, m, "IDLE"), Nobody)
Update(r, s) == Saved(s) /\ \E b \in Bodies, m \in Modes : Accept(r, "update", s, Config(b, m, "IDLE"), Nobody)

SetStatus(r, s) ==
  Saved(s) /\ \E status \in {"IDLE", "RUNNING", "STOPPED"} :
    Accept(r, "status", s, [file[s] EXCEPT !.status = status], Nobody)

(* Mutation: the old file goes first. *)
RenameMoves(r, s, t) ==
  /\ s # t /\ Saved(s) /\ file[t] = Absent /\ Begin(r, Request("rename", t, file[s], s))
  /\ file' = [file EXCEPT ![s] = Absent] /\ UNCHANGED <<temp, run, legs, crashes>>

(* rename writes the new file and then unlinks the old one. *)
Rename(r, s, t) == s # t /\ Saved(s) /\ file[t] = Absent /\ Accept(r, "rename", t, file[s], s)

(* A clone starts its life idle. *)
CloneOf(c) == [c EXCEPT !.status = "IDLE"]

Clone(r, s, t) == Saved(s) /\ file[t] = Absent /\ Accept(r, "clone", t, CloneOf(file[s]), Nobody)

(* Not with active positions, and only for a change. *)
SetMode(r, s) ==
  /\ Saved(s) /\ ~(run[s] # "none" /\ legs[s] # "none")
  /\ \E m \in Modes \ {file[s].mode} : Accept(r, "mode", s, [file[s] EXCEPT !.mode = m], Nobody)

(* start-execution keeps the copy it has loaded until it has registered    *)
(* the strategy, and writes it twice.                                      *)
Start(r, s) ==
  Saved(s) /\ run[s] = "none" /\ Accept(r, "start", s, file[s], Nobody)

(* stop-execution: unregistered and its state forgotten, then the status. *)
Stop(r, s) ==
  /\ Saved(s) /\ Begin(r, Request("stop", s, [file[s] EXCEPT !.status = "STOPPED"], Nobody))
  /\ run' = [run EXCEPT ![s] = "none"] /\ legs' = [legs EXCEPT ![s] = "none"]
  /\ UNCHANGED <<file, temp, crashes>>

(* DELETE /strategy/config/{name}, and DELETE /strategy/{name}, which asks *)
(* whether the strategy runs.                                              *)
Delete(r, s) ==
  /\ file[s] # Absent /\ req[r].at = "idle" /\ asked < MaxRequests
  /\ asked' = asked + 1 /\ file' = [file EXCEPT ![s] = Absent]
  /\ alive' = alive \ BodiesIn({s}) /\ req' = Orphaned(req, s)
  /\ UNCHANGED <<temp, run, legs, crashes>>

-----------------------------------------------------------------------------
(* _atomic_write_text, of whatever request.                                *)
Busy(r, at) == req[r].at = at

(* The temporary file of the configuration is opened and emptied: whoever  *)
(* had it open goes on in the same file.                                   *)
OpenTemp(r) ==
  /\ Busy(r, "open") /\ temp' = [temp EXCEPT ![req[r].slug] = Torn]
  /\ req' = [req EXCEPT ![r].at = "fill", ![r].fd = "temp"]
  /\ UNCHANGED <<file, run, legs, asked, crashes, alive>>

(* It is filled, whatever it is by now.  If another has filled it since,   *)
(* what is longer there stays behind what is written.                      *)
Content(r) == IF req[r].fd = "temp" THEN temp[req[r].slug] ELSE file[req[r].slug]

FillTemp(r) ==
  LET s == req[r].slug
  IN /\ Busy(r, "fill") /\ req' = [req EXCEPT ![r].at = "replace"]
     /\ \E c \in {req[r].data} \cup (IF Content(r) = Torn THEN {} ELSE {Torn}) :
          /\ file' = IF req[r].fd = "file" THEN [file EXCEPT ![s] = c] ELSE file
          /\ temp' = IF req[r].fd = "temp" THEN [temp EXCEPT ![s] = c] ELSE temp
     /\ UNCHANGED <<run, legs, asked, crashes, alive>>

(* What a request that has the file of a name open writes to, once the     *)
(* temporary file has taken the place of the file.                         *)
AfterReplace(p, s) ==
  IF p.slug # s \/ p.at # "fill" THEN p
  ELSE [p EXCEPT !.fd = IF @ = "temp" THEN "file" ELSE "gone"]

(* What the route does after its write. *)
AfterWrite(q) ==
  CASE q.op = "rename" -> [q EXCEPT !.at = "unlink"]
    [] q.op = "mode" -> [q EXCEPT !.at = "restart"]
    [] q.op = "start" -> [q EXCEPT !.at = "register"]
    [] OTHER -> NoReq

(* Replaced; a route whose temporary file is gone ends with an error.      *)
Replace(r) ==
  LET s == req[r].slug
  IN /\ Busy(r, "replace")
     /\ IF temp[s] = Absent
        THEN req' = [req EXCEPT ![r] = NoReq] /\ UNCHANGED <<file, temp, alive>>
        ELSE /\ file' = [file EXCEPT ![s] = temp[s]] /\ temp' = [temp EXCEPT ![s] = Absent]
             /\ alive' = (alive \ BodiesIn({s})) \cup (IF req[r].alone THEN {req[r].data.body} ELSE {})
             /\ req' = [p \in Requests |-> IF p = r THEN AfterWrite(req[r]) ELSE AfterReplace(req[p], s)]
     /\ UNCHANGED <<run, legs, asked, crashes>>

(* The steps of a write. *)
Write(r) == OpenTemp(r) \/ FillTemp(r) \/ Replace(r)

(* The end of a rename. *)
Unlink(r) ==
  /\ Busy(r, "unlink") /\ file' = [file EXCEPT ![req[r].from] = Absent]
  /\ req' = Orphaned([req EXCEPT ![r] = NoReq], req[r].from)
  /\ UNCHANGED <<temp, run, legs, asked, crashes, alive>>

(* register_strategy reads the file again; one that cannot be read leaves  *)
(* the strategy where it was.                                              *)
RegisteredMode(s) == IF Saved(s) THEN file[s].mode ELSE run[s]

Register(r) ==
  LET s == req[r].slug
  IN /\ Busy(r, "register") /\ run' = [run EXCEPT ![s] = RegisteredMode(s)]
     /\ req' = [req EXCEPT ![r] = IF Saved(s)
          THEN [@ EXCEPT !.at = "open", !.op = "started", !.data.status = "RUNNING"] ELSE NoReq]
     /\ UNCHANGED <<file, temp, legs, asked, crashes, alive>>

(* The mode route restarts a strategy that runs. *)
NeedsRestart(s) == run[s] # "none"

RestartStrategy(r) ==
  LET s == req[r].slug
  IN /\ Busy(r, "restart") /\ req' = [req EXCEPT ![r] = NoReq]
     /\ run' = IF NeedsRestart(s) THEN [run EXCEPT ![s] = IF Saved(s) THEN file[s].mode ELSE "none"] ELSE run
     /\ UNCHANGED <<file, temp, legs, asked, crashes, alive>>

-----------------------------------------------------------------------------
(* runner/start registers every configuration that does not run, and       *)
(* writes no status; runner/stop unregisters them all.                     *)
RunnerStart ==
  /\ run' = [s \in Slugs |-> IF run[s] = "none" THEN RegisteredMode(s) ELSE run[s]] /\ run' # run
  /\ UNCHANGED <<file, temp, legs, req, asked, crashes, alive>>

RunnerStop ==
  /\ run' = [s \in Slugs |-> "none"] /\ run' # run
  /\ UNCHANGED <<file, temp, legs, req, asked, crashes, alive>>

(* A tick enters or exits.  A strategy on paper sends no order. *)
Opened(s) == IF run[s] = "LIVE" THEN "real" ELSE "paper"

Tick(s) ==
  /\ run[s] # "none" /\ legs' = [legs EXCEPT ![s] = IF @ = "none" THEN Opened(s) ELSE "none"]
  /\ UNCHANGED <<file, temp, run, req, asked, crashes, alive>>

(* auto_resume_strategies: it was RUNNING and its state has a filled leg.  *)
Resumable(s) == Saved(s) /\ file[s].status = "RUNNING" /\ legs[s] # "none"

(* The process ends with its requests; the next one resumes. *)
Crash ==
  /\ crashes < MaxCrashes /\ crashes' = crashes + 1
  /\ run' = [s \in Slugs |-> IF Resumable(s) THEN file[s].mode ELSE "none"]
  /\ req' = [r \in Requests |-> NoReq]
  /\ UNCHANGED <<file, temp, legs, asked, alive>>

Route(r) ==
  \/ \E s \in Slugs :
       \/ Save(r, s) \/ Create(r, s) \/ Update(r, s) \/ SetStatus(r, s) \/ SetMode(r, s)
       \/ Start(r, s) \/ Stop(r, s) \/ Delete(r, s)
  \/ \E s, t \in Slugs : Rename(r, s, t) \/ Clone(r, s, t)

ConfigNext ==
  \/ \E r \in Requests :
       Route(r) \/ Write(r) \/ Unlink(r) \/ Register(r) \/ RestartStrategy(r)
  \/ \E s \in Slugs : Tick(s)
  \/ RunnerStart \/ RunnerStop \/ Crash

ConfigSpec == ConfigInit /\ [][ConfigNext]_configVars

-----------------------------------------------------------------------------
(* _atomic_write_text: no reader ever finds a part of a configuration,     *)
(* wherever a request is interrupted.                                      *)
NeverTorn == \A s \in Slugs : file[s] # Torn

(* A configuration that is renamed, or any other that was saved, is in some *)
(* file until it is deleted or overwritten, though the process may end      *)
(* between the steps of the rename and other requests collide over other    *)
(* files.                                                                   *)
NothingSavedIsLost == \A b \in alive : \E s \in Slugs : Saved(s) /\ file[s].body = b

(* set_strategy_mode: only allowed when there are no active positions.  A  *)
(* strategy that runs on paper would only pretend to exit the legs that    *)
(* its live orders have opened.                                            *)
LiveLegsAreExitedLive == \A s \in Slugs : legs[s] = "real" => run[s] # "MOCK"

(* auto_resume_strategies: strategies that were running before a crash are *)
(* registered again so that monitoring and exits go on.                    *)
HeldStrategiesResume ==
  [][crashes' # crashes => \A s \in Slugs : run[s] = "LIVE" /\ legs[s] = "real" => run'[s] = "LIVE"]_configVars
=============================================================================
