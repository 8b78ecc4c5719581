---------------------------- MODULE ScheduledJobs ----------------------------
(***************************************************************************)
(* The timers of the jobs that run by the clock: schedules, backups of     *)
(* databases and backups of volumes. Each is a row of the database with a  *)
(* cron expression; its timer is, self-hosted, a node-schedule job in the  *)
(* memory of the server and, in the cloud edition, a repeatable job that   *)
(* another process keeps in Redis and is asked for over HTTP. A request    *)
(* writes the row first and sets the timer some awaits later.              *)
(***************************************************************************)
EXTENDS Naturals, FiniteSets

CONSTANTS
  Jobs,      \* ids of schedules, backups and volume backups
  Crons,     \* cron expressions
  None,      \* no cron expression or job
  Handlers,  \* requests handled at the same time
  MaxEvents  \* bound of the model: requests, failed calls and restarts

ASSUME CronsAssumption == None \notin Crons \cup Jobs
ASSUME BoundAssumption == MaxEvents \in Nat

VARIABLES
  edition,   \* whether IS_CLOUD; it never changes
  kind,      \* kind[j]: what j is; it never changes
  inactive,  \* jobs whose server the cloud edition does not find active
  row,       \* row[j]: the row of j
  timers,    \* what fires: a timer that is not listed is out of reach by its name
  task,      \* task[h]: the request h handles, and what it left un-awaited
  boot,      \* the setting of the timers when their process starts
  disturbed, \* disturbed[j]: what happened to j since then that may spoil its timer
  events     \* requests, failed calls and restarts so far

vars == <<edition, kind, inactive, row, timers, task, boot, disturbed, events>>
rigid == <<edition, kind, inactive>>

-----------------------------------------------------------------------------
Kinds == {"backup", "schedule", "volume"}
Row   == [state : {"new", "live", "gone"}, enabled : BOOLEAN, cron : Crons \cup {None}]
Timer == [job : Jobs, cron : Crons, listed : BOOLEAN]

\* "service" deletes a database, "cascade" any other service: the rows of its
\* jobs go with it.
Ops    == {"none", "create", "update", "delete", "service", "cascade"}
Calls  == {"add", "remove", "lookup", "drop"}
Stages == Calls \cup {"idle", "insert", "find", "refind", "write", "reread", "arm",
                      "replace", "disarm", "erase"}
Task == [op : Ops, at : Stages, job : Jobs \cup {None}, enabled : BOOLEAN,
         cron : Crons \cup {None}, old : Crons \cup {None}]

\* What a starting process read of the rows and has not set yet.
Found == [job : Jobs, cron : Crons, ready : BOOLEAN]
Boot == [at : {"read", "set", "up"}, of : Kinds, found : SUBSET Found,
         set : SUBSET Jobs, clean : BOOLEAN]
Reasons == {"overlap", "lost", "left", "wiped", "kept", "skipped"}

nothing == [op |-> "none", at |-> "idle", job |-> None, enabled |-> FALSE,
            cron |-> None, old |-> None]
running == [at |-> "up", of |-> "volume", found |-> {}, set |-> {}, clean |-> FALSE]

cloud == edition = "cloud"
idle(h) == task[h].op = "none"
busy(j) == \E h \in Handlers : ~idle(h) /\ task[h].job = j
live(j) == row[j].state = "live"
booting == boot.at # "up" \/ boot.clean

TypeOK ==
  /\ edition \in {"self-hosted", "cloud"}
  /\ kind \in [Jobs -> Kinds] /\ inactive \subseteq Jobs
  /\ row \in [Jobs -> Row]
  /\ \A j \in Jobs : live(j) => row[j].cron \in Crons
  /\ timers \subseteq Timer
  /\ task \in [Handlers -> Task]
  /\ boot \in Boot
  /\ disturbed \in [Jobs -> SUBSET Reasons]
  /\ events \in 0..MaxEvents

Init ==
  /\ edition \in {"self-hosted", "cloud"}
  /\ kind \in [Jobs -> Kinds] /\ inactive \in SUBSET Jobs
  /\ row = [j \in Jobs |-> [state |-> "new", enabled |-> FALSE, cron |-> None]]
  /\ timers = {} /\ task = [h \in Handlers |-> nothing] /\ boot = running
  /\ disturbed = [j \in Jobs |-> {}] /\ events = 0

-----------------------------------------------------------------------------
(* Timers                                                                  *)

timersOf(j) == {t \in timers : t.job = j}

timer(j, c) == [job |-> j, cron |-> c, listed |-> TRUE]

\* node-schedule keeps one job under a name: the one before it fires on, unlisted.
armed(ts, j, c) ==
  {IF t.job = j /\ ~cloud THEN [t EXCEPT !.listed = FALSE] ELSE t : t \in ts}
    \cup {timer(j, c)}

\* scheduledJobs[j]?.cancel().
cancelled(ts, j) == {t \in ts : t.job # j \/ ~t.listed}

\* The key of a repeatable job holds its time zone, which schedules are added
\* with and which removals do not name.
removed(ts, j, c) ==
  IF kind[j] = "schedule" THEN ts ELSE {t \in ts : t.job # j \/ t.cron # c}

\* The timers of all that was found, in which each job occurs once.
armedAll(ts, found) ==
  {IF \E f \in found : f.job = t.job THEN [t EXCEPT !.listed = FALSE] ELSE t : t \in ts}
    \cup {timer(f.job, f.cron) : f \in found}

-----------------------------------------------------------------------------
(* Requests                                                                *)

Event == events < MaxEvents /\ events' = events + 1
Quiet == UNCHANGED events

continue(h, t) == task' = [task EXCEPT ![h] = t]
goto(h, stage) == continue(h, [task[h] EXCEPT !.at = stage])
end(h)         == continue(h, nothing)
at(h, stage)   == task[h].at = stage

spoil(j, reason) == disturbed' = [disturbed EXCEPT ![j] = @ \cup {reason}]

\* A request for a job that no other request, nor the start of a process, is
\* busy with leaves disturbed alone.
request(h) ==
  /\ idle(h) /\ Event
  /\ \E j \in Jobs, op \in Ops \ {"none"} :
       /\ op = "create" => row[j].state = "new" /\ ~busy(j)
       /\ op # "create" => row[j].state # "new"
       /\ op = "service" => kind[j] = "backup"
       /\ continue(h, [nothing EXCEPT !.op = op, !.job = j,
                         !.at = CASE op = "create"  -> "insert"
                                  [] op = "cascade" -> "erase"
                                  [] OTHER          -> "find"])
       /\ IF busy(j) \/ booting THEN spoil(j, "overlap") ELSE UNCHANGED disturbed
  /\ UNCHANGED <<rigid, row, timers, boot>>

\* Where the handler of a create goes on once the row is there.
inserted(t) ==
  CASE kind[t.job] = "backup" -> [t EXCEPT !.at = "reread"]
    [] kind[t.job] # "backup" /\ ~t.enabled -> nothing
    [] OTHER -> [t EXCEPT !.at = CASE cloud -> "add"
                                   [] ~cloud /\ kind[t.job] = "volume" -> "reread"
                                   [] OTHER -> "arm"]

insert(h) ==
  /\ at(h, "insert") /\ Quiet
  /\ \E enabled \in BOOLEAN, cron \in Crons :
       /\ row' = [row EXCEPT ![task[h].job] =
                    [state |-> "live", enabled |-> enabled, cron |-> cron]]
       /\ continue(h, inserted([task[h] EXCEPT !.enabled = enabled, !.cron = cron]))
  /\ UNCHANGED <<rigid, timers, boot, disturbed>>

\* Every request but a create reads the row first; it ends if there is none.
find(h) ==
  /\ task[h].at \in {"find", "refind"} /\ Quiet
  /\ LET t == task[h] IN
     CASE ~live(t.job)    -> end(h)
       [] live(t.job) /\ t.op = "update" -> goto(h, "write")
       [] live(t.job) /\ at(h, "refind") -> goto(h, "erase")
       [] OTHER -> continue(h,
            [t EXCEPT !.cron = row[t.job].cron,
                      !.at = CASE t.op = "delete" ->
                                    IF kind[t.job] = "schedule" THEN "refind" ELSE "erase"
                               [] t.op = "service" /\ row[t.job].enabled ->
                                    IF cloud THEN "remove" ELSE "disarm"
                               [] OTHER -> "erase"])
  /\ UNCHANGED <<rigid, row, timers, boot, disturbed>>

\* Where the handler of an update goes on once the row is written.
written(t) ==
  [t EXCEPT !.at = CASE kind[t.job] = "backup" -> "reread"
                     [] kind[t.job] # "backup" /\ cloud /\ ~t.enabled -> "remove"
                     [] kind[t.job] = "volume" /\ cloud /\ t.enabled -> "lookup"
                     [] kind[t.job] = "volume" /\ ~cloud -> "disarm"
                     [] kind[t.job] = "schedule" /\ cloud /\ t.enabled -> "add"
                     [] OTHER -> "replace"]

\* A job disabled and given another expression at once keeps its old timer in the
\* cloud, where the timer to remove is named by the new expression.
write(h) ==
  /\ at(h, "write") /\ Quiet
  /\ LET j == task[h].job IN
     \/ /\ ~live(j) /\ end(h) /\ UNCHANGED <<row, disturbed>>
     \/ /\ live(j)
        /\ \E enabled \in BOOLEAN, cron \in Crons :
             /\ row' = [row EXCEPT ![j].enabled = enabled, ![j].cron = cron]
             /\ continue(h, written([task[h] EXCEPT !.enabled = enabled, !.cron = cron]))
             /\ IF cloud /\ row[j].enabled /\ ~enabled /\ row[j].cron # cron
                THEN spoil(j, "left") ELSE UNCHANGED disturbed
  /\ UNCHANGED <<rigid, timers, boot>>

\* Where the handler goes on once the row has been read again.
readAgain(t) ==
  CASE t.op = "update" /\ kind[t.job] = "backup" ->
         [t EXCEPT !.at = CASE ~cloud -> "replace"
                            [] cloud /\ t.enabled -> "lookup"
                            [] OTHER -> "remove"]
    [] t.op = "create" /\ ~t.enabled -> nothing
    [] OTHER -> [t EXCEPT !.at = IF cloud THEN "add" ELSE "arm"]

\* Mutant: a row that is gone is not noticed.
presentAnyway(j) == row[j].state # "new"

\* findBackupById and findVolumeBackupById find the row; they throw if it is gone.
present(j) == live(j)

\* The cloud edition refuses the timer of a new backup whose server is not active,
\* and leaves its row.
refused(t) == cloud /\ t.op = "create" /\ t.enabled /\ t.job \in inactive

reread(h) ==
  /\ at(h, "reread") /\ Quiet
  /\ LET j == task[h].job
         t == [task[h] EXCEPT !.cron = row[j].cron,
                              !.enabled = IF kind[j] = "backup" THEN row[j].enabled ELSE @]
     IN
     \/ /\ present(j) /\ ~refused(t)
        /\ continue(h, readAgain(t)) /\ UNCHANGED disturbed
     \/ /\ present(j) /\ refused(t)
        /\ end(h) /\ spoil(j, "skipped")
     \/ ~present(j) /\ end(h) /\ UNCHANGED disturbed
  /\ UNCHANGED <<rigid, row, timers, boot>>

-----------------------------------------------------------------------------
(* The timers of the server itself                                         *)

armTimer(h) ==
  /\ at(h, "arm") /\ Quiet
  /\ timers' = armed(timers, task[h].job, task[h].cron)
  /\ end(h)
  /\ UNCHANGED <<rigid, row, boot, disturbed>>

\* Mutant: the timer of a job is replaced without being cancelled.
replacedUncancelled(j, enabled, cron) ==
  IF enabled THEN armed(timers, j, cron) ELSE cancelled(timers, j)

replaced(j, enabled, cron) ==
  IF enabled THEN armed(cancelled(timers, j), j, cron) ELSE cancelled(timers, j)

replace(h) ==
  /\ at(h, "replace") /\ Quiet
  /\ timers' = replaced(task[h].job, task[h].enabled, task[h].cron)
  /\ end(h)
  /\ UNCHANGED <<rigid, row, boot, disturbed>>

disarm(h) ==
  /\ at(h, "disarm") /\ Quiet
  /\ timers' = cancelled(timers, task[h].job)
  /\ CASE task[h].op = "service" -> goto(h, "erase")
       [] task[h].op = "update" /\ task[h].enabled -> goto(h, "reread")
       [] OTHER -> end(h)
  /\ UNCHANGED <<rigid, row, boot, disturbed>>

\* Nobody removes the timer of a deleted volume backup, nor the timers of the
\* jobs that go with an application, a compose or a libsql service.
erase(h) ==
  /\ at(h, "erase") /\ Quiet
  /\ LET t == task[h]  j == t.job IN
     /\ row' = [row EXCEPT ![j] = [state |-> "gone", enabled |-> FALSE, cron |-> None]]
     /\ IF t.op = "delete" /\ kind[j] # "volume" /\ ~(cloud /\ kind[j] = "backup" /\ ~live(j))
        THEN continue(h, [t EXCEPT !.at = IF cloud THEN "remove" ELSE "disarm",
                                   !.cron = IF kind[j] = "backup" /\ live(j)
                                            THEN row[j].cron ELSE @])
        ELSE end(h)
     /\ IF t.op = "cascade" \/ (t.op = "delete" /\ kind[j] = "volume")
        THEN spoil(j, "left") ELSE UNCHANGED disturbed
  /\ UNCHANGED <<rigid, timers, boot>>

-----------------------------------------------------------------------------
(* The timers of the jobs process                                          *)

\* POST /create-backup, and the end of /update-backup.
add(h) ==
  /\ at(h, "add") /\ Quiet
  /\ timers' = armed(timers, task[h].job, task[h].cron)
  /\ end(h)
  /\ UNCHANGED <<rigid, row, boot, disturbed>>

afterRemove(h) == IF task[h].op = "service" THEN goto(h, "erase") ELSE end(h)

remove(h) ==
  /\ at(h, "remove") /\ Quiet
  /\ timers' = removed(timers, task[h].job, task[h].cron)
  /\ afterRemove(h)
  /\ UNCHANGED <<rigid, row, boot, disturbed>>

\* POST /update-backup: any timer of the job is found, removed, and added anew.
lookup(h) ==
  /\ at(h, "lookup") /\ Quiet
  /\ LET j == task[h].job IN
     \/ timersOf(j) = {} /\ goto(h, "add")
     \/ \E t \in timersOf(j) : continue(h, [task[h] EXCEPT !.at = "drop", !.old = t.cron])
  /\ UNCHANGED <<rigid, row, timers, boot, disturbed>>

drop(h) ==
  /\ at(h, "drop") /\ Quiet
  /\ timers' = removed(timers, task[h].job, task[h].old)
  /\ goto(h, "add")
  /\ UNCHANGED <<rigid, row, boot, disturbed>>

\* A call fails or, between the row and the timer, the second reading of the row
\* or the writing of the script of a schedule; or the row cannot be deleted. Only
\* a deletion of a service that could not remove the timer goes on.
fail(h) ==
  /\ \/ task[h].at \in Calls \cup {"reread", "erase"}
     \/ task[h].at \in {"arm", "replace"} /\ kind[task[h].job] = "schedule"
  /\ Event
  /\ IF at(h, "erase") THEN end(h) ELSE afterRemove(h)
  /\ spoil(task[h].job, "lost")
  /\ UNCHANGED <<rigid, row, timers, boot>>

-----------------------------------------------------------------------------
(* Restarts                                                                *)

starting(clean) == [at |-> "read", of |-> "backup", found |-> {},
                    set |-> {}, clean |-> clean]

\* The server dies with its timers and requests.
restartServer ==
  /\ ~cloud /\ Event
  /\ timers' = {} /\ task' = [h \in Handlers |-> nothing] /\ boot' = starting(FALSE)
  /\ disturbed' = [j \in Jobs |-> {}]
  /\ UNCHANGED <<rigid, row>>

\* The cloud server dies: what its requests had to ask for is lost.
restartCloudServer ==
  /\ cloud /\ Event
  /\ task' = [h \in Handlers |-> nothing]
  /\ disturbed' = [j \in Jobs |-> IF busy(j) THEN disturbed[j] \cup {"lost"}
                                  ELSE disturbed[j]]
  /\ UNCHANGED <<rigid, row, timers, boot>>

\* The jobs process dies, with the calls it was serving, and sets every timer
\* anew, while a clean-up it does not wait for empties the queue.
interrupted(t) ==
  CASE t.at \in Calls /\ t.op = "service" -> [t EXCEPT !.at = "erase"]
    [] t.at \in Calls /\ t.op # "service" -> nothing
    [] OTHER -> t

restartJobs ==
  /\ cloud /\ Event
  /\ task' = [h \in Handlers |-> interrupted(task[h])]
  /\ boot' = starting(TRUE)
  /\ disturbed' = [j \in Jobs |->
       IF \E h \in Handlers : interrupted(task[h]).job = j THEN {"overlap"} ELSE {}]
  /\ UNCHANGED <<rigid, row, timers>>

cleaned ==
  /\ boot.clean
  /\ boot' = [boot EXCEPT !.clean = FALSE]
  /\ UNCHANGED <<rigid, row, task>>

cleanQueue ==
  /\ cleaned /\ Quiet
  /\ timers' = {}
  /\ disturbed' = [j \in Jobs |-> IF j \in boot.set THEN disturbed[j] \cup {"wiped"}
                                  ELSE disturbed[j]]

\* The clean-up swallows its own failure: the queue keeps its timers, those of
\* before the start among them.
cleanFail ==
  /\ cleaned /\ Event
  /\ disturbed' = [j \in Jobs |-> IF timersOf(j) # {} THEN disturbed[j] \cup {"kept"}
                                  ELSE disturbed[j]]
  /\ UNCHANGED timers

\* The backups, the schedules and, last, the volume backups.
rank(k) == CASE k = "backup" -> 1 [] k = "schedule" -> 2 [] k = "volume" -> 3

\* What a starting process sets: in the cloud no schedule or volume backup
\* whose server is not active.
due(k)   == {j \in Jobs : live(j) /\ row[j].enabled /\ kind[j] = k}
skipped(k)   == {j \in due(k) : cloud /\ k # "backup" /\ j \in inactive}
selfSet(k)   == k # "volume" \/ cloud

bootRead ==
  /\ boot.at = "read" /\ Quiet
  /\ LET k == boot.of IN
       /\ boot' = [boot EXCEPT !.at = "set",
            !.found = {[job |-> j, cron |-> row[j].cron, ready |-> selfSet(k)] :
                         j \in due(k) \ skipped(k)}]
       /\ disturbed' = [j \in Jobs |-> IF j \in skipped(k)
                                       THEN disturbed[j] \cup {"skipped"}
                                       ELSE disturbed[j]]
  /\ UNCHANGED <<rigid, row, timers, task>>

\* The loop of a starting server over what it read.
bootSetAll ==
  /\ boot.of # "volume" /\ ~cloud /\ boot.found # {} /\ Quiet
  /\ timers' = armedAll(timers, boot.found)
  /\ boot' = [boot EXCEPT !.found = {}]
  /\ UNCHANGED <<rigid, row, task, disturbed>>

\* The jobs process awaits each call; the server leaves each volume backup, whose
\* row it reads again, to itself.
bootSet ==
  /\ cloud \/ boot.of = "volume"
  /\ Quiet
  /\ \E f \in boot.found :
       /\ f.ready
       /\ timers' = armed(timers, f.job, f.cron)
       /\ boot' = [boot EXCEPT !.found = @ \ {f}, !.set = @ \cup {f.job}]
  /\ UNCHANGED <<rigid, row, task, disturbed>>

bootReread ==
  /\ Quiet
  /\ \E f \in boot.found :
       /\ ~f.ready
       /\ boot' = [boot EXCEPT !.found = (@ \ {f}) \cup
                     {[f EXCEPT !.cron = row[j].cron, !.ready = TRUE] :
                        j \in {j \in {f.job} : live(j)}}]
  /\ UNCHANGED <<rigid, row, timers, task, disturbed>>

\* A call of the jobs process fails, or the reading of one volume backup.
bootFail ==
  /\ Event
  /\ \E f \in boot.found :
       /\ cloud \/ ~f.ready
       /\ boot' = [boot EXCEPT !.found = @ \ {f}]
       /\ spoil(f.job, "lost")
  /\ UNCHANGED <<rigid, row, timers, task>>

\* The reading of all rows of a kind fails. A starting server goes on with the next
\* kind, except after the backups; the jobs process sets nothing more.
givesUp == cloud \/ boot.of = "backup"
missed  == {j \in Jobs : /\ j \in due(kind[j])
                         /\ \/ kind[j] = boot.of
                            \/ givesUp /\ rank(kind[j]) > rank(boot.of)}

bootReadFail ==
  /\ boot.at = "read" /\ Event
  /\ boot' = [boot EXCEPT !.at = IF givesUp THEN "up" ELSE "set"]
  /\ disturbed' = [j \in Jobs |-> IF j \in missed THEN disturbed[j] \cup {"lost"}
                                  ELSE disturbed[j]]
  /\ UNCHANGED <<rigid, row, timers, task>>

\* Mutant: a start ends without the volume backups.
lastKindEarly(k) == k = "schedule"

lastKind(k) == k = "volume"

bootNext ==
  /\ boot.at = "set" /\ boot.found = {} /\ Quiet
  /\ boot' = [boot EXCEPT !.at = IF lastKind(boot.of) THEN "up" ELSE "read",
                          !.of = IF @ = "backup" THEN "schedule" ELSE "volume"]
  /\ UNCHANGED <<rigid, row, timers, task, disturbed>>

-----------------------------------------------------------------------------
Handle(h) ==
  \/ request(h) \/ insert(h) \/ find(h) \/ write(h) \/ reread(h) \/ erase(h)
  \/ armTimer(h) \/ replace(h) \/ disarm(h)
  \/ add(h) \/ remove(h) \/ lookup(h) \/ drop(h) \/ fail(h)

Start ==
  \/ bootRead \/ bootSetAll \/ bootSet \/ bootReread \/ bootFail \/ bootReadFail
  \/ bootNext \/ cleanQueue \/ cleanFail

Next ==
  \/ \E h \in Handlers : Handle(h)
  \/ restartServer \/ restartCloudServer \/ restartJobs \/ Start

Spec == Init /\ [][Next]_vars

-----------------------------------------------------------------------------
settled(j) == ~busy(j) /\ ~booting

\* An enabled job that no request is busy with has a timer with the expression of
\* its row, which a request can still find. Only requests that overlap (they set
\* the timer after another one wrote the row), a call, a script or a reading of rows
\* that failed after the row was written or while the timers were set, a clean-up of
\* the queue that came after the timers, and a server that was not active when the
\* backup was created or the timers were set leave a job without.
EnabledIsTimed ==
  \A j \in Jobs :
    (/\ settled(j) /\ live(j) /\ row[j].enabled
     /\ disturbed[j] \subseteq {"left", "kept"})
    => timer(j, row[j].cron) \in timers

\* A job that no request is busy with has no timer but that one, and none when it
\* is disabled or gone: none that runs it twice or runs what was deleted. That
\* fails after overlaps and failed calls, after removals that forget the timer,
\* after a restart whose clean-up of the queue failed, and for the schedules of the
\* cloud edition, whose timers are never removed.
NoStrayTimer ==
  \A j \in Jobs :
    (/\ settled(j) /\ disturbed[j] \subseteq {"skipped", "wiped"}
     /\ ~(cloud /\ kind[j] = "schedule"))
    => \A t \in timersOf(j) : live(j) /\ row[j].enabled /\ t = timer(j, row[j].cron)
-----------------------------------------------------------------------------
(* The inductive invariant behind the properties                           *)

\* What the stage of a request says of its kind, its job and the edition.
soundTask(t) ==
  /\ t.op = "none" => t = nothing
  /\ t.op # "none" => t.job \in Jobs /\ t.at # "idle"
  /\ t.op = "service" => kind[t.job] = "backup"
  /\ t.at = "insert" => t.op = "create"
  /\ t.at = "find" => t.op \in {"update", "delete", "service"}
  /\ t.at = "refind" => t.op = "delete"
  /\ t.at = "write" => t.op = "update"
  /\ t.at = "erase" => t.op \in {"delete", "service", "cascade"}
  /\ t.at = "reread" =>
       /\ t.op \in {"create", "update"}
       /\ kind[t.job] = "backup" \/ (kind[t.job] = "volume" /\ ~cloud /\ t.enabled)
  /\ t.at \in {"arm", "replace", "disarm"} => ~cloud
  /\ t.at \in Calls => cloud
  /\ t.at \in {"arm", "add"} => t.op \in {"create", "update"} /\ t.enabled
  /\ t.at = "replace" => t.op = "update"
  /\ t.at \in {"lookup", "drop"} => t.op = "update" /\ t.enabled
  /\ t.at \in {"disarm", "remove"} => t.op \in {"update", "delete", "service"}
  /\ t.at = "disarm" /\ t.op = "update" => kind[t.job] = "volume"
  /\ t.at = "remove" /\ t.op = "update" => ~t.enabled
  /\ t.at \in {"arm", "add", "replace", "lookup", "drop"} => t.cron \in Crons

\* What a starting process has found once each, of the kind it is at.
BootOK ==
  /\ boot.clean => cloud
  /\ boot.found # {} => boot.at = "set"
  /\ \A f, g \in boot.found : f.job = g.job => f = g
  /\ \A f \in boot.found : kind[f.job] = boot.of /\ row[f.job].state # "new"

\* Only its creation is busy with a job that has no row yet, which has no timer.
NewOK ==
  /\ \A t \in timers : row[t.job].state # "new"
  /\ \A h \in Handlers :
       ~idle(h) => (row[task[h].job].state = "new" <=> at(h, "insert"))
  /\ \A g, h \in Handlers :
       at(h, "insert") /\ g # h => task[g].job # task[h].job

\* Without an overlap one request at most is busy with a job, and no start.
OneRequest ==
  \A j \in Jobs :
    "overlap" \notin disturbed[j] =>
      /\ busy(j) => ~booting
      /\ \A g, h \in Handlers : task[g].job = j /\ task[h].job = j => g = h

\* What a request knows of the row of its job.
agreed(t) ==
  /\ (\/ t.at \in {"arm", "add", "replace", "lookup", "drop", "reread"}
      \/ t.at \in {"disarm", "remove"} /\ t.op = "update")
     => live(t.job) /\ row[t.job].enabled = t.enabled /\ row[t.job].cron = t.cron
  /\ t.at \in {"disarm", "remove"} /\ t.op = "delete" => ~live(t.job)
  /\ t.at \in {"refind", "erase"} /\ t.op = "delete" => live(t.job)

Agrees ==
  \A h \in Handlers :
    ~idle(h) /\ "overlap" \notin disturbed[task[h].job] => agreed(task[h])

\* Without an overlap what a starting process found is still so.
FoundOK ==
  \A f \in boot.found :
    "overlap" \notin disturbed[f.job] =>
      live(f.job) /\ row[f.job].enabled /\ f.cron = row[f.job].cron

\* A starting process has yet to set the timer of j.
unset(j) ==
  \/ boot.at # "up" /\ rank(kind[j]) > rank(boot.of)
  \/ boot.at = "read" /\ kind[j] = boot.of
  \/ \E f \in boot.found : f.job = j

\* An enabled job has its timer, or a starting process is to set it, and no
\* clean-up is to come that does not make it wiped.
TimedOK ==
  \A j \in Jobs :
    ~busy(j) /\ live(j) /\ row[j].enabled /\ disturbed[j] \subseteq {"left", "kept"} =>
      \/ unset(j)
      \/ timer(j, row[j].cron) \in timers /\ (boot.clean => j \in boot.set)

none(j) == timersOf(j) = {}

\* The timers of j are at most that of its row.
exact(j) == \A t \in timersOf(j) : live(j) /\ row[j].enabled /\ t = timer(j, row[j].cron)

\* No stray timer concerns j.
tidy(j) ==
  disturbed[j] \subseteq {"skipped", "wiped"} /\ ~(cloud /\ kind[j] = "schedule")

\* The timers that the job of a request may have at its stage.
fits(t) ==
  LET j == t.job IN
  /\ t.at \in {"find", "refind", "write"} => exact(j)
  /\ t.at = "erase" /\ t.op = "delete" => exact(j)
  /\ t.at = "erase" /\ t.op = "service" => none(j)
  /\ t.at \in {"arm", "add"} => none(j)
  /\ t.at = "reread" /\ (t.op = "create" \/ kind[j] = "volume") => none(j)
  /\ t.at \in {"replace", "disarm"} \/ (t.at = "reread" /\ ~cloud) =>
       \A u \in timersOf(j) : u.listed
  /\ t.at = "lookup" \/ (t.at = "reread" /\ cloud) =>
       \A u, v \in timersOf(j) : u.cron = v.cron
  /\ t.at = "drop" => \A u \in timersOf(j) : u.cron = t.old
  /\ t.at = "remove" \/ (t.at = "reread" /\ cloud /\ ~t.enabled) =>
       \A u \in timersOf(j) : u.cron = t.cron

TimersOfRequests ==
  \A h \in Handlers : ~idle(h) /\ tidy(task[h].job) => fits(task[h])

\* The timers of a job no request is busy with, also while a process starts.
TimersAtRest ==
  \A j \in Jobs :
    ~busy(j) /\ tidy(j) =>
      /\ boot.clean \/ exact(j)
      /\ ~cloud /\ unset(j) => none(j)

IInv ==
  /\ TypeOK /\ \A h \in Handlers : soundTask(task[h])
  /\ BootOK /\ NewOK /\ OneRequest /\ Agrees /\ FoundOK
  /\ TimedOK /\ TimersOfRequests /\ TimersAtRest
=============================================================================
